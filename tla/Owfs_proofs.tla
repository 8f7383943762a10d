---------------------------- MODULE Owfs_proofs ----------------------------
(***************************************************************************)
(* Proofs about the OWFS driver, for any set of volumes, any sizes and a   *)
(* disk that may fail: a refused volume is left alone, a load reports      *)
(* success only when it is complete, the code it returns is the one        *)
(* recorded last, and what a load of a consistent file leaves at the load  *)
(* address is that file.                                                    *)
(***************************************************************************)
EXTENDS Owfs, TLAPS, FiniteSetTheorems, WellFoundedInduction

(* A history in which no load has succeeded. *)
Quiet(l) == l \in Seq(Int) /\ \A i \in 1 .. Len(l) : l[i] # ComKernelLoadOk

-----------------------------------------------------------------------------
(* Facts about the recorder. *)
LEMMA QuietKeep ==
  ASSUME NEW l, NEW s, Quiet(l), Quiet(s)
  PROVE  Quiet(D!Keep(l \o s))
  <1>1. ASSUME NEW t, Quiet(t) PROVE Quiet(D!Keep(t))
    <2>1. CASE Len(t) <= DIAG_MAX
      BY <1>1, <2>1 DEF D!Keep
    <2>2. CASE ~(Len(t) <= DIAG_MAX)
      <3> DEFINE k == Len(t) - DIAG_MAX
                 u == SubSeq(t, k + 1, Len(t))
      <3>1. t \in Seq(Int) /\ k \in Nat \ {0} /\ k < Len(t) /\ Len(t) \in Nat
        BY <1>1, <2>2, OwfsAssumption DEF Quiet
      <3>2. u \in Seq(Int) /\ Len(u) = Len(t) - k /\ \A i \in 1 .. Len(u) : u[i] = t[i + k]
        <4> HIDE DEF k
        <4> QED BY <3>1
      <3>3. \A i \in 1 .. Len(u) : i + k \in 1 .. Len(t)
        <4> HIDE DEF k, u
        <4> QED BY <3>1, <3>2
      <3>4. D!Keep(t) = u
        BY <2>2 DEF D!Keep
      <3> HIDE DEF k, u
      <3> QED
        BY <1>1, <3>2, <3>3, <3>4 DEF Quiet
    <2> QED
      BY <2>1, <2>2
  <1>2. Quiet(l \o s)
    BY DEF Quiet
  <1> QED
    BY <1>1, <1>2

LEMMA NewestRaised ==
  ASSUME NEW l \in Seq(Int), NEW c \in Int
  PROVE  /\ D!Keep(l \o <<c>>) \in Seq(Int)
         /\ D!Keep(l \o <<c>>) # <<>>
         /\ D!Newest(D!Keep(l \o <<c>>)) = c
  <1> DEFINE t == l \o <<c>>
  <1>1. t \in Seq(Int) /\ Len(t) = Len(l) + 1 /\ t[Len(t)] = c
    OBVIOUS
  <1> HIDE DEF t
  <1>2. DIAG_MAX \in Nat \ {0}
    BY OwfsAssumption
  <1>3. CASE Len(t) <= DIAG_MAX
    <2>1. D!Keep(t) = t
      BY <1>3 DEF D!Keep
    <2>2. t # <<>>
      BY <1>1
    <2>3. t \in Seq(Int) /\ D!Newest(t) = c
      BY <1>1 DEF D!Newest
    <2> QED
      BY <2>1, <2>2, <2>3 DEF t
  <1>4. CASE ~(Len(t) <= DIAG_MAX)
    <2>1. D!Keep(t) = SubSeq(t, Len(t) - DIAG_MAX + 1, Len(t))
      BY <1>4 DEF D!Keep
    <2>2. /\ D!Keep(t) \in Seq(Int) /\ Len(D!Keep(t)) = DIAG_MAX
          /\ D!Keep(t)[DIAG_MAX] = t[Len(t)]
      BY <1>1, <1>2, <1>4, <2>1
    <2> QED
      BY <1>1, <1>2, <2>2 DEF D!Newest, t
  <1> QED
    BY <1>3, <1>4

LEMMA QuietBasics ==
  /\ Quiet(<<>>)
  /\ \A c \in Int : c # ComKernelLoadOk => Quiet(<<c>>)
  BY DEF Quiet

LEMMA QuietConcat ==
  ASSUME NEW l, NEW s, Quiet(l), Quiet(s)
  PROVE  Quiet(l \o s)
  BY DEF Quiet

LEMMA QuietNewest ==
  ASSUME NEW l, Quiet(l), l # <<>>
  PROVE  D!Newest(l) # ComKernelLoadOk
  BY DEF Quiet, D!Newest

LEMMA QuietWarnings == \A sb : Quiet(Warnings(sb))
  <1> SUFFICES ASSUME NEW sb PROVE Quiet(Warnings(sb))
    OBVIOUS
  <1>1. ASSUME NEW b, NEW c \in Int, c # ComKernelLoadOk PROVE Quiet(When(b, c))
    BY <1>1, QuietBasics DEF When
  <1>2. /\ WarnVolumeDirty \in Int /\ WarnVolumeLocked \in Int /\ WarnStateError \in Int
        /\ WarnVersionMismatch \in Int
        /\ ComKernelLoadOk \notin {WarnVolumeDirty, WarnVolumeLocked, WarnStateError,
                                   WarnVersionMismatch}
    BY DEF WarnVolumeDirty, WarnVolumeLocked, WarnStateError, WarnVersionMismatch,
           ComKernelLoadOk
  <1> QED
    BY <1>1, <1>2, QuietConcat DEF Warnings

LEMMA QuietRaised ==
  /\ Quiet(<<BanIoError>>) /\ Quiet(<<SoftBadBlockMap>>) /\ Quiet(<<BanInodeChecksum>>)
  /\ Quiet(<<ComCatalogEnumOk>>) /\ Quiet(<<>>)
  BY QuietBasics DEF BanIoError, SoftBadBlockMap, BanInodeChecksum, ComCatalogEnumOk,
                     ComKernelLoadOk

-----------------------------------------------------------------------------
(* Facts about the driver's helpers. *)
LEMMA InodeReadFacts ==
  ASSUME vol \in Volumes, NEW num, NEW r \in InodeReads(num)
  PROVE  /\ Quiet(r.raised)
         /\ r.inode \in Inodes
         /\ r.outcome = "ok" => r.inode.crc /\ ~r.io /\ r.inode = vol.inodes[num]
         /\ r.outcome # "ok" => r.inode = NoInode
  <1> DEFINE n == vol.inodes[num]
  <1>1. NoInode \in Inodes
    BY DEF NoInode, Inodes
  <1>2. CASE num \notin 0 .. vol.sb.total_inodes - 1
    <2>1. r = InodeRead("range", <<>>, FALSE, NoInode)
      BY <1>2 DEF InodeReads
    <2> QED
      BY <1>1, <2>1, QuietRaised DEF InodeRead
  <1>3. CASE num \in 0 .. vol.sb.total_inodes - 1
    <2>1. n \in Inodes
      BY <1>3, OwfsAssumption
    <2>2. \/ r = InodeRead("io", <<BanIoError>>, TRUE, NoInode)
          \/ r = InodeRead("free", <<>>, FALSE, NoInode)
          \/ r = InodeRead("checksum", <<BanInodeChecksum>>, FALSE, NoInode)
          \/ r = InodeRead("ok", <<>>, FALSE, n) /\ n.crc
      BY <1>3 DEF InodeReads
    <2>3. CASE r = InodeRead("ok", <<>>, FALSE, n) /\ n.crc
      BY <2>1, <2>3, QuietRaised DEF InodeRead
    <2> HIDE DEF n
    <2> QED
      BY <1>1, <2>2, <2>3, QuietRaised DEF InodeRead
  <1> QED
    BY <1>2, <1>3

LEMMA FetchFacts ==
  ASSUME NEW inode, NEW i, NEW f \in Fetches(inode, i)
  PROVE  Quiet(f.raised) /\ (f.block # 0 => ~f.io)
  <1>1. ASSUME NEW m \in BlockMap(inode, i)
        PROVE  (\E p, b : m = Mapped(p, b)) \/ m = Unreadable("map")
    BY DEF BlockMap
  <1>2. PICK m \in BlockMap(inode, i) :
          f = m \/ f = [m EXCEPT !.buf = m.block] \/ f = Unreadable("read")
    BY DEF Fetches
  <1>3. ASSUME NEW p PROVE Quiet(When(p = 0, SoftBadBlockMap))
    BY QuietRaised DEF When
  <1>4. \/ f.raised = m.raised /\ f.block = m.block /\ f.io = m.io
        \/ f = Unreadable("read")
    BY <1>1, <1>2 DEF Mapped, Unreadable
  <1>5. CASE m = Unreadable("map") \/ f = Unreadable("read")
    <2>1. f.raised = <<BanIoError>> /\ f.block = 0
      BY <1>4, <1>5 DEF Unreadable
    <2> QED
      BY <2>1, QuietRaised
  <1>6. ASSUME NEW p, NEW b, m = Mapped(p, b), f.raised = m.raised, f.io = m.io
        PROVE  Quiet(f.raised) /\ ~f.io
    <2>1. f.raised = When(p = 0, SoftBadBlockMap) /\ f.io = FALSE
      BY <1>6 DEF Mapped
    <2> QED
      BY <1>3, <2>1
  <1> QED
    BY <1>1, <1>4, <1>5, <1>6

LEMMA ScanFacts ==
  ASSUME vol \in Volumes, NEW b, NEW room
  PROVE  Quiet(Scan(Entries(b), room).raised)
  <1> DEFINE es   == Entries(b)
             good == {i \in DOMAIN es : IsListed(es[i])}
             over == {i \in good : Cardinality({j \in good : j < i}) >= room}
             seen == {i \in DOMAIN es : \A j \in over : i < j}
             bad  == {i \in seen : IsLive(es[i]) /\ ~IsListed(es[i])}
  <1>1. es \in Seq(CatalogEntries)
    <2>1. CASE b \in DOMAIN vol.entries
      BY <2>1, OwfsAssumption DEF Entries
    <2>2. CASE b \notin DOMAIN vol.entries
      <3>1. Garbage \in CatalogEntries
        BY DEF Garbage, CatalogEntries
      <3> QED
        BY <2>2, <3>1 DEF Entries
    <2> QED
      BY <2>1, <2>2
  <1>2. Scan(es, room).raised = [i \in 1 .. Cardinality(bad) |-> BanCatalogChecksum]
    BY DEF Scan
  <1>3. IsFiniteSet(1 .. Len(es)) /\ bad \subseteq 1 .. Len(es)
    <2> HIDE DEF es, over
    <2> QED BY <1>1, FS_Interval
  <1> HIDE DEF es, bad
  <1>4. Cardinality(bad) \in Nat
    BY <1>3, FS_Subset, FS_CardinalityType
  <1> DEFINE c == Cardinality(bad)
  <1> HIDE DEF c
  <1>5. Quiet([i \in 1 .. c |-> BanCatalogChecksum])
    BY <1>4 DEF Quiet, BanCatalogChecksum, ComKernelLoadOk, c
  <1> QED
    BY <1>2, <1>5 DEF c, es

LEMMA SmallestCheck ==
  ASSUME NEW F, F \subseteq 1 .. 6, F # {}
  PROVE  \E i \in F : \A j \in F : i <= j
  <1>1. \A k \in 1 .. 6 : k \in F /\ F \subseteq k .. 6 => \E i \in F : \A j \in F : i <= j
    OBVIOUS
  <1>2. \A k \in 1 .. 6 : F \subseteq k .. 6 /\ k \notin F => F \subseteq k + 1 .. 6
    OBVIOUS
  <1>3. ~(F \subseteq 7 .. 6)
    <2>1. PICK k \in F : TRUE
      OBVIOUS
    <2>2. k \in 1 .. 6 /\ k \notin 7 .. 6
      BY <2>1
    <2> QED
      BY <2>1, <2>2
  <1> QED
    BY <1>1, <1>2, <1>3

(* The superblock checks pass only on a bootable volume. *)
LEMMA ProbeChecked ==
  ASSUME FailedChecks(vol.sb) = {}
  PROVE  Bootable(vol.sb)
  <1>1. DOMAIN ProbeChecks(vol.sb) = 1 .. 6
    BY DEF ProbeChecks
  <1>2. \A i \in 1 .. 6 : ~ProbeChecks(vol.sb)[i][1]
    BY <1>1 DEF FailedChecks
  <1>3. /\ ProbeChecks(vol.sb)[2] = <<vol.sb.magic # "OWFS", SoftNoVolume, SoftNoVolume>>
        /\ ProbeChecks(vol.sb)[3] = <<~vol.sb.geometry, BanSbMagic, BanSbMagic>>
        /\ ProbeChecks(vol.sb)[4] = <<~vol.sb.crc, BanSbChecksum, BanSbChecksum>>
        /\ ProbeChecks(vol.sb)[5] = <<vol.sb.version_major > 1, SoftNoVolume,
                                      WarnVersionMismatch>>
        /\ ProbeChecks(vol.sb)[6] = <<vol.sb.encrypted, SoftEncryptedVolume,
                                      SoftEncryptedVolume>>
    BY DEF ProbeChecks
  <1>4. vol.sb.magic = "OWFS"
    <2>1. ProbeChecks(vol.sb)[2][1] = (vol.sb.magic # "OWFS")
      BY <1>3
    <2>2. ~ProbeChecks(vol.sb)[2][1]
      BY <1>2
    <2> QED
      BY <2>1, <2>2
  <1>5. vol.sb.geometry
    <2>1. ProbeChecks(vol.sb)[3][1] = (~vol.sb.geometry)
      BY <1>3
    <2>2. ~ProbeChecks(vol.sb)[3][1]
      BY <1>2
    <2> QED
      BY <2>1, <2>2
  <1>6. vol.sb.crc
    <2>1. ProbeChecks(vol.sb)[4][1] = (~vol.sb.crc)
      BY <1>3
    <2>2. ~ProbeChecks(vol.sb)[4][1]
      BY <1>2
    <2> QED
      BY <2>1, <2>2
  <1>7. ~(vol.sb.version_major > 1)
    <2>1. ProbeChecks(vol.sb)[5][1] = (vol.sb.version_major > 1)
      BY <1>3
    <2>2. ~ProbeChecks(vol.sb)[5][1]
      BY <1>2
    <2> QED
      BY <2>1, <2>2
  <1>8. ~vol.sb.encrypted
    BY <1>2, <1>3
  <1> QED
    BY <1>4, <1>5, <1>6, <1>7, <1>8 DEF Bootable

LEMMA ProbeRefused ==
  ASSUME FailedChecks(vol.sb) # {}
  PROVE  /\ ~IsSuccess(FirstFailed(vol.sb)[2])
         /\ Quiet(<<FirstFailed(vol.sb)[3]>>)
  <1> DEFINE F == FailedChecks(vol.sb)
  <1>1. F \subseteq 1 .. 6
    BY DEF FailedChecks, ProbeChecks
  <1>2. \E i \in F : \A j \in F : i <= j
    BY <1>1, SmallestCheck
  <1>3. PICK i \in 1 .. 6 : FirstFailed(vol.sb) = ProbeChecks(vol.sb)[i]
    BY <1>1, <1>2 DEF FirstFailed
  <1>4. /\ ProbeChecks(vol.sb)[i][2] \in SoftCodes \cup BanCodes
        /\ ProbeChecks(vol.sb)[i][3] \in SoftCodes \cup BanCodes \cup WarnCodes
    BY DEF ProbeChecks, SoftCodes, BanCodes, WarnCodes
  <1>5. \A c \in SoftCodes \cup BanCodes : ~IsSuccess(c)
    BY DEF SoftCodes, BanCodes, IsSuccess, ComcodeBlock, SoftNoVolume, SoftIsUsfs,
           SoftNotAFile, SoftKernelTooSmall, SoftKernelTooLarge, SoftEncryptedVolume,
           SoftBadBlockMap, BanSbMagic, BanSbChecksum, BanInodeChecksum,
           BanCatalogChecksum, BanIoError, BanLoadFailed
  <1>6. \A c \in SoftCodes \cup BanCodes \cup WarnCodes : c \in Int /\ c # ComKernelLoadOk
    BY DEF SoftCodes, BanCodes, WarnCodes, ComKernelLoadOk, SoftNoVolume, SoftIsUsfs,
           SoftNotAFile, SoftKernelTooSmall, SoftKernelTooLarge, SoftEncryptedVolume,
           SoftBadBlockMap, BanSbMagic, BanSbChecksum, BanInodeChecksum,
           BanCatalogChecksum, BanIoError, BanLoadFailed, WarnVolumeDirty,
           WarnVolumeLocked, WarnStateError, WarnVersionMismatch
  <1> QED
    BY <1>3, <1>4, <1>5, <1>6, QuietBasics

(* The checks of owfs_load_file pass on a file of a size the loader takes, *)
(* and the code of the first that fails is not a success.                   *)
LEMMA LoadChecked ==
  ASSUME NEW inode \in Inodes, FailedLoadChecks(inode) = {}
  PROVE  "FILE" \in inode.entry_type /\ inode.size_bytes \in KERNEL_MIN .. KERNEL_MAX
  <1>1. DOMAIN LoadChecks(inode) = 1 .. 3
    BY DEF LoadChecks
  <1>2. \A i \in 1 .. 3 : ~LoadChecks(inode)[i][1]
    BY <1>1 DEF FailedLoadChecks
  <1>3. /\ LoadChecks(inode)[1] = <<"FILE" \notin inode.entry_type, SoftNotAFile>>
        /\ LoadChecks(inode)[2] = <<inode.size_bytes < KERNEL_MIN, SoftKernelTooSmall>>
        /\ LoadChecks(inode)[3] = <<inode.size_bytes > KERNEL_MAX, SoftKernelTooLarge>>
    BY DEF LoadChecks
  <1>4. "FILE" \in inode.entry_type
    <2>1. LoadChecks(inode)[1][1] = ("FILE" \notin inode.entry_type)
      BY <1>3
    <2>2. ~LoadChecks(inode)[1][1]
      BY <1>2
    <2> QED
      BY <2>1, <2>2
  <1>5. ~(inode.size_bytes < KERNEL_MIN)
    <2>1. LoadChecks(inode)[2][1] = (inode.size_bytes < KERNEL_MIN)
      BY <1>3
    <2>2. ~LoadChecks(inode)[2][1]
      BY <1>2
    <2> QED
      BY <2>1, <2>2
  <1>6. ~(inode.size_bytes > KERNEL_MAX)
    <2>1. LoadChecks(inode)[3][1] = (inode.size_bytes > KERNEL_MAX)
      BY <1>3
    <2>2. ~LoadChecks(inode)[3][1]
      BY <1>2
    <2> QED
      BY <2>1, <2>2
  <1> QED
    BY <1>4, <1>5, <1>6, OwfsAssumption DEF Inodes

LEMMA LoadRefused ==
  ASSUME NEW inode, FailedLoadChecks(inode) # {}
  PROVE  Unloadable(inode) \in Int /\ Unloadable(inode) # ComKernelLoadOk
  <1> DEFINE F == FailedLoadChecks(inode)
  <1>1. F \subseteq 1 .. 3
    BY DEF FailedLoadChecks, LoadChecks
  <1>2. \E i \in F : \A j \in F : i <= j
    BY <1>1, SmallestCheck
  <1>3. PICK i \in 1 .. 3 : Unloadable(inode) = LoadChecks(inode)[i][2]
    BY <1>1, <1>2 DEF Unloadable
  <1> QED
    BY <1>3 DEF LoadChecks, SoftNotAFile, SoftKernelTooSmall, SoftKernelTooLarge,
                ComKernelLoadOk

-----------------------------------------------------------------------------
(* The inductive invariant.  What the properties say of a finished load    *)
(* must be known of the walk that leads to it: no load has succeeded       *)
(* before, so the log cannot hold its code; a failed read leaves the       *)
(* driver in no state from which it goes on.                                *)
Walking == dpc \in {"enumerating", "loading"}

LogSound    == log \in Seq(Int) /\ (dpc # "loaded" => Quiet(log))
InodeSound  == ino \in Inodes /\ idx \in Nat
VolumeSound == /\ vol \in Volumes
               /\ dpc = "probed" /\ IsSuccess(rc) => Bootable(vol.sb)
FaultStops  == /\ Walking \/ dpc = "start" => ~ioFailed
               /\ dpc = "probed" /\ IsSuccess(rc) => ~ioFailed
               /\ dpc = "listed" /\ ioFailed => found \in {-1, -3, -4}
LoadSound   == dpc = "loading" => /\ "FILE" \in ino.entry_type /\ ino.crc
                                  /\ ino.size_bytes \in KERNEL_MIN .. KERNEL_MAX
                                  /\ idx <= ino.block_count

IInv == /\ LogSound /\ InodeSound /\ VolumeSound /\ FaultStops /\ LoadSound
        /\ RefusedVolumeUntouched /\ SuccessMeansComplete /\ ReturnedCodeIsShown

LEMMA InitIInv == Init => IInv
  <1> SUFFICES ASSUME Init PROVE IInv
    OBVIOUS
  <1>1. NoInode \in Inodes
    BY DEF NoInode, Inodes
  <1>2. Quiet(<<>>)
    BY QuietBasics
  <1> QED
    BY <1>1, <1>2 DEF Init, IInv, LogSound, InodeSound, VolumeSound, FaultStops, LoadSound,
       Walking, RefusedVolumeUntouched, SuccessMeansComplete, ReturnedCodeIsShown

(* Until a load succeeds, what is raised keeps its code out of the log. *)
LEMMA StillQuiet ==
  ASSUME NEW codes, Quiet(log), Quiet(codes), Raise(codes)
  PROVE  Quiet(log') /\ log' \in Seq(Int)
  BY QuietKeep DEF Raise, Quiet

LEMMA ProbePreserves == IInv /\ Probe => IInv'
  <1> SUFFICES ASSUME IInv, Probe PROVE IInv'
    OBVIOUS
  <1>1. UNCHANGED <<vol, found, entries, ino, idx, buf, image, size>> /\ dpc' = "probed"
    BY DEF Probe
  <1>2. Quiet(log) /\ ~ioFailed
    BY DEF Probe, IInv, LogSound, FaultStops
  <1>3. CASE Raise(<<BanIoError>>) /\ rc' = BanIoError
    <2>1. Quiet(log') /\ log' \in Seq(Int)
      BY <1>2, <1>3, QuietRaised, StillQuiet
    <2>2. ~IsSuccess(rc')
      BY <1>3 DEF IsSuccess, ComcodeBlock, BanIoError
    <2> QED
      BY <1>1, <2>1, <2>2 DEF IInv, LogSound, InodeSound, VolumeSound, FaultStops,
         LoadSound, Walking, RefusedVolumeUntouched, SuccessMeansComplete,
         ReturnedCodeIsShown, IsSuccess
  <1>4. CASE /\ FailedChecks(vol.sb) # {}
             /\ Raise(<<FirstFailed(vol.sb)[3]>>) /\ rc' = FirstFailed(vol.sb)[2]
    <2>1. Quiet(log') /\ log' \in Seq(Int)
      BY <1>2, <1>4, ProbeRefused, StillQuiet
    <2>2. ~IsSuccess(rc')
      BY <1>4, ProbeRefused
    <2> QED
      BY <1>1, <2>1, <2>2 DEF IInv, LogSound, InodeSound, VolumeSound, FaultStops,
         LoadSound, Walking, RefusedVolumeUntouched, SuccessMeansComplete,
         ReturnedCodeIsShown, IsSuccess
  <1>5. CASE FailedChecks(vol.sb) = {} /\ Raise(Warnings(vol.sb)) /\ UNCHANGED ioFailed
    <2>1. Quiet(log') /\ log' \in Seq(Int)
      BY <1>2, <1>5, QuietWarnings, StillQuiet
    <2>2. Bootable(vol'.sb)
      BY <1>1, <1>5, ProbeChecked
    <2> QED
      BY <1>1, <1>2, <1>5, <2>1, <2>2 DEF IInv, LogSound, InodeSound, VolumeSound, FaultStops,
         LoadSound, Walking, RefusedVolumeUntouched, SuccessMeansComplete,
         ReturnedCodeIsShown, IsSuccess
  <1> QED
    BY <1>3, <1>4, <1>5 DEF Probe

LEMMA EnumeratePreserves == IInv /\ Enumerate => IInv'
  <1> SUFFICES ASSUME IInv, Enumerate PROVE IInv'
    OBVIOUS
  <1>1. /\ UNCHANGED <<vol, rc, entries, buf, image, size>>
        /\ vol \in Volumes /\ Bootable(vol.sb) /\ ~ioFailed /\ Quiet(log)
    BY DEF Enumerate, IInv, VolumeSound, FaultStops, LogSound
  <1>2. PICK r \in InodeReads(0) :
          /\ ino' = r.inode /\ idx' = 0
          /\ ioFailed' = (ioFailed \/ r.io)
          /\ \/ r.outcome # "ok" /\ EnumerateReturns(-1, r.raised)
             \/ /\ r.outcome = "ok" /\ "CATALOG" \notin r.inode.entry_type
                /\ EnumerateReturns(-2, <<BanInodeChecksum>>)
             \/ /\ r.outcome = "ok" /\ "CATALOG" \in r.inode.entry_type
                /\ dpc' = "enumerating"
                /\ UNCHANGED <<found, log>>
    BY DEF Enumerate
  <1>3. Quiet(r.raised) /\ r.inode \in Inodes /\ (r.outcome = "ok" => ~r.io)
    BY <1>1, InodeReadFacts
  <1>4. Quiet(log') /\ log' \in Seq(Int)
    BY <1>1, <1>2, <1>3, QuietRaised, StillQuiet DEF EnumerateReturns, Quiet
  <1>5. \/ dpc' = "listed" /\ found' = -1
        \/ dpc' \in {"listed", "enumerating"} /\ ~ioFailed'
    BY <1>1, <1>2, <1>3 DEF EnumerateReturns
  <1> QED
    BY <1>1, <1>2, <1>3, <1>4, <1>5 DEF IInv, LogSound, InodeSound, VolumeSound, FaultStops,
       LoadSound, Walking, RefusedVolumeUntouched, SuccessMeansComplete, ReturnedCodeIsShown

LEMMA EnumerateBlockPreserves == IInv /\ EnumerateBlock => IInv'
  <1> SUFFICES ASSUME IInv, EnumerateBlock PROVE IInv'
    OBVIOUS
  <1>1. /\ UNCHANGED <<vol, rc, ino, image, size>>
        /\ vol \in Volumes /\ Bootable(vol.sb) /\ ~ioFailed /\ Quiet(log)
        /\ ino \in Inodes /\ idx \in Nat /\ log \in Seq(Int)
    BY DEF EnumerateBlock, IInv, VolumeSound, RefusedVolumeUntouched, FaultStops, Walking,
           LogSound, InodeSound
  <1>2. PICK f \in Fetches(ino, idx) :
          /\ ioFailed' = (ioFailed \/ f.io)
          /\ \/ /\ f.block = 0
                /\ EnumerateReturns(IF f.at = "map" THEN -3 ELSE -4, f.raised)
                /\ UNCHANGED idx
             \/ /\ f.block # 0 /\ dpc' \in {"listed", "enumerating"}
                /\ idx' \in {idx, idx + 1}
                /\ Raise(Scan(Entries(f.block), Room).raised)
    BY DEF EnumerateBlock, EnumerateReturns, NextCatalogBlock
  <1>3. Quiet(f.raised) /\ (f.block # 0 => ~f.io)
    BY FetchFacts
  <1>4. Quiet(Scan(Entries(f.block), Room).raised)
    BY <1>1, ScanFacts
  <1>5. Quiet(log') /\ log' \in Seq(Int)
    BY <1>1, <1>2, <1>3, <1>4, StillQuiet DEF EnumerateReturns
  <1>6. \/ dpc' = "listed" /\ found' \in {-3, -4}
        \/ dpc' \in {"listed", "enumerating"} /\ ~ioFailed'
    BY <1>1, <1>2, <1>3 DEF EnumerateReturns
  <1>7. idx' \in Nat
    BY <1>1, <1>2
  <1> QED
    BY <1>1, <1>5, <1>6, <1>7 DEF IInv, LogSound, InodeSound, VolumeSound, FaultStops,
       LoadSound, Walking, RefusedVolumeUntouched, SuccessMeansComplete, ReturnedCodeIsShown

LEMMA EnumerateEndPreserves == IInv /\ EnumerateEnd => IInv'
  <1> SUFFICES ASSUME IInv, EnumerateEnd PROVE IInv'
    OBVIOUS
  <1>1. /\ UNCHANGED <<vol, rc, entries, ino, idx, buf, image, size, ioFailed>>
        /\ dpc' = "listed" /\ ~ioFailed /\ Quiet(log) /\ Bootable(vol.sb)
        /\ Raise(When(entries # <<>>, ComCatalogEnumOk))
    BY DEF EnumerateEnd, EnumerateReturns, IInv, FaultStops, Walking, LogSound,
           RefusedVolumeUntouched
  <1>2. Quiet(When(entries # <<>>, ComCatalogEnumOk))
    BY QuietRaised DEF When
  <1>3. Quiet(log') /\ log' \in Seq(Int)
    BY <1>1, <1>2, StillQuiet
  <1> QED
    BY <1>1, <1>3 DEF IInv, LogSound, InodeSound, VolumeSound, FaultStops,
       LoadSound, Walking, RefusedVolumeUntouched, SuccessMeansComplete, ReturnedCodeIsShown

LEMMA PropagatedFacts ==
  ASSUME Quiet(log')
  PROVE  /\ Propagated # ComKernelLoadOk
         /\ IF log' = <<>> THEN Propagated = BanLoadFailed
                           ELSE Propagated = D!Newest(log')
  <1>1. CASE log' = <<>>
    BY <1>1 DEF Propagated, BanLoadFailed, ComKernelLoadOk
  <1>2. CASE log' # <<>>
    BY <1>2, QuietNewest DEF Propagated
  <1> QED
    BY <1>1, <1>2

(* A load that fails, its code passed on or raised here, is sound. *)
LEMMA FailedLoadSound ==
  ASSUME IInv, dpc \in {"listed", "loading"}, UNCHANGED vol, ino' \in Inodes, idx' \in Nat,
         dpc' = "loaded", rc' # ComKernelLoadOk, log' \in Seq(Int),
         IF log' = <<>> THEN rc' = BanLoadFailed ELSE rc' = D!Newest(log')
  PROVE  IInv'
  <1>1. (Bootable(vol.sb))' /\ vol' \in Volumes
    BY DEF IInv, RefusedVolumeUntouched, VolumeSound, Bootable
  <1> QED
    BY <1>1 DEF IInv, LogSound, InodeSound, VolumeSound, FaultStops,
       LoadSound, Walking, RefusedVolumeUntouched, SuccessMeansComplete, ReturnedCodeIsShown

LEMMA LoadFilePreserves ==
  \A num : IInv /\ LoadFile(num) /\ found \notin {-1, -3, -4} => IInv'
  <1> SUFFICES ASSUME NEW num, IInv, LoadFile(num), found \notin {-1, -3, -4} PROVE IInv'
    OBVIOUS
  <1>1. /\ UNCHANGED vol /\ dpc = "listed" /\ Quiet(log) /\ log \in Seq(Int)
        /\ vol \in Volumes /\ Bootable(vol.sb)
    BY DEF LoadFile, IInv, LogSound, VolumeSound, RefusedVolumeUntouched
  <1>2. ~ioFailed
    BY <1>1 DEF IInv, FaultStops
  <1>3. PICK r \in InodeReads(num) :
          /\ ino' = r.inode /\ idx' = 0
          /\ ioFailed' = (ioFailed \/ r.io)
          /\ \/ r.outcome # "ok"
                /\ Raise(r.raised) /\ LoadReturns(Propagated)
             \/ /\ r.outcome = "ok" /\ FailedLoadChecks(r.inode) # {}
                /\ Raise(<<Unloadable(r.inode)>>) /\ LoadReturns(Unloadable(r.inode))
             \/ /\ r.outcome = "ok" /\ FailedLoadChecks(r.inode) = {}
                /\ dpc' = "loading"
                /\ UNCHANGED <<rc, log>>
    BY DEF LoadFile
  <1>4. /\ Quiet(r.raised) /\ r.inode \in Inodes
        /\ r.outcome = "ok" => r.inode.crc /\ ~r.io
    BY <1>1, InodeReadFacts
  <1>5. CASE Raise(r.raised) /\ LoadReturns(Propagated)
    <2>1. Quiet(log') /\ log' \in Seq(Int)
      BY <1>1, <1>4, <1>5, StillQuiet
    <2>2. dpc' = "loaded" /\ rc' = Propagated
      BY <1>5 DEF LoadReturns
    <2> QED
      BY <1>1, <1>3, <1>4, <2>1, <2>2, PropagatedFacts, FailedLoadSound
  <1>6. CASE /\ FailedLoadChecks(r.inode) # {}
             /\ Raise(<<Unloadable(r.inode)>>) /\ LoadReturns(Unloadable(r.inode))
    <2>1. rc' \in Int /\ rc' # ComKernelLoadOk /\ dpc' = "loaded"
      BY <1>6, LoadRefused DEF LoadReturns
    <2>2. log' \in Seq(Int) /\ log' # <<>> /\ D!Newest(log') = rc'
      BY <1>1, <1>6, <2>1, NewestRaised DEF Raise, LoadReturns
    <2> QED
      BY <1>1, <1>3, <1>4, <2>1, <2>2, FailedLoadSound
  <1>7. CASE /\ r.outcome = "ok" /\ FailedLoadChecks(r.inode) = {}
             /\ dpc' = "loading" /\ UNCHANGED <<rc, log>>
    <2>1. /\ "FILE" \in r.inode.entry_type /\ r.inode.size_bytes \in KERNEL_MIN .. KERNEL_MAX
          /\ r.inode.crc /\ r.inode.block_count \in Nat
      BY <1>4, <1>7, LoadChecked DEF Inodes
    <2>2. LoadSound'
      BY <1>3, <2>1 DEF LoadSound
    <2>3. ~ioFailed'
      BY <1>2, <1>3, <1>4, <1>7
    <2>4. LogSound' /\ InodeSound'
      BY <1>1, <1>3, <1>4, <1>7 DEF LogSound, InodeSound
    <2>5. VolumeSound' /\ FaultStops' /\ RefusedVolumeUntouched'
      BY <1>1, <1>7, <2>3 DEF VolumeSound, FaultStops, Walking, RefusedVolumeUntouched, Bootable
    <2> QED
      BY <1>7, <2>2, <2>4, <2>5 DEF IInv, SuccessMeansComplete, ReturnedCodeIsShown
  <1> QED
    BY <1>3, <1>5, <1>6, <1>7

LEMMA LoadBlockPreserves == IInv /\ LoadBlock => IInv'
  <1> SUFFICES ASSUME IInv, LoadBlock PROVE IInv'
    OBVIOUS
  <1>1. /\ UNCHANGED <<vol, found, entries, ino, size>>
        /\ dpc = "loading" /\ Quiet(log) /\ log \in Seq(Int) /\ ~ioFailed
        /\ ino \in Inodes /\ idx \in Nat /\ idx < ino.block_count
    BY DEF LoadBlock, IInv, LogSound, InodeSound, FaultStops, Walking
  <1>2. PICK f \in Fetches(ino, idx) :
          /\ ioFailed' = (ioFailed \/ f.io)
          /\ \/ /\ f.block = 0
                /\ Raise(f.raised) /\ LoadReturns(Propagated)
                /\ UNCHANGED idx
             \/ /\ f.block # 0
                /\ idx' = idx + 1
                /\ UNCHANGED <<dpc, rc, log>>
    BY DEF LoadBlock
  <1>3. Quiet(f.raised) /\ (f.block # 0 => ~f.io)
    BY FetchFacts
  <1>4. CASE Raise(f.raised) /\ LoadReturns(Propagated) /\ UNCHANGED idx
    <2>1. Quiet(log') /\ log' \in Seq(Int)
      BY <1>1, <1>3, <1>4, StillQuiet
    <2>2. dpc' = "loaded" /\ rc' = Propagated
      BY <1>4 DEF LoadReturns
    <2>3. idx' \in Nat /\ ino' \in Inodes
      BY <1>1, <1>4
    <2> QED
      BY <1>1, <2>1, <2>2, <2>3, PropagatedFacts, FailedLoadSound
  <1>5. CASE f.block # 0 /\ idx' = idx + 1 /\ UNCHANGED <<dpc, rc, log>>
    <2>1. idx' \in Nat /\ idx' <= ino.block_count
      BY <1>1, <1>5 DEF Inodes
    <2>2. ~ioFailed'
      BY <1>1, <1>2, <1>3, <1>5
    <2>3. LoadSound'
      BY <1>1, <1>5, <2>1 DEF IInv, LoadSound
    <2>4. VolumeSound' /\ FaultStops' /\ RefusedVolumeUntouched'
      BY <1>1, <1>5, <2>2 DEF IInv, VolumeSound, FaultStops, Walking, RefusedVolumeUntouched,
         Bootable
    <2> QED
      BY <1>1, <1>5, <2>1, <2>3, <2>4 DEF IInv, LogSound, InodeSound, SuccessMeansComplete,
         ReturnedCodeIsShown
  <1> QED
    BY <1>2, <1>4, <1>5

LEMMA LoadEndPreserves == IInv /\ LoadEnd => IInv'
  <1> SUFFICES ASSUME IInv, LoadEnd PROVE IInv'
    OBVIOUS
  <1>1. /\ UNCHANGED <<vol, found, entries, ino, idx, buf, image, ioFailed>>
        /\ dpc = "loading" /\ dpc' = "loaded" /\ rc' = ComKernelLoadOk
        /\ Raise(<<ComKernelLoadOk>>) /\ idx >= ino.block_count
    BY DEF LoadEnd, LoadReturns
  <1>2. /\ ~ioFailed /\ log \in Seq(Int) /\ ino \in Inodes /\ idx \in Nat
        /\ idx <= ino.block_count
        /\ "FILE" \in ino.entry_type /\ ino.crc /\ ino.size_bytes \in KERNEL_MIN .. KERNEL_MAX
    BY <1>1 DEF IInv, FaultStops, Walking, LogSound, InodeSound, LoadSound
  <1>3. idx = ino.block_count
    BY <1>1, <1>2 DEF Inodes
  <1>4. log' \in Seq(Int) /\ log' # <<>> /\ D!Newest(log') = ComKernelLoadOk
    BY <1>1, <1>2, NewestRaised DEF Raise, ComKernelLoadOk
  <1>5. SuccessMeansComplete' /\ ReturnedCodeIsShown'
    BY <1>1, <1>2, <1>3, <1>4 DEF SuccessMeansComplete, ReturnedCodeIsShown
  <1>6. VolumeSound' /\ RefusedVolumeUntouched'
    BY <1>1 DEF IInv, VolumeSound, RefusedVolumeUntouched, Bootable
  <1> QED
    BY <1>1, <1>2, <1>4, <1>5, <1>6 DEF IInv, LogSound, InodeSound, FaultStops, Walking, LoadSound

LEMMA StutterPreserves == IInv /\ UNCHANGED vars => IInv'
  BY DEF vars, IInv, LogSound, InodeSound, VolumeSound, FaultStops, LoadSound, Walking,
         RefusedVolumeUntouched, SuccessMeansComplete, ReturnedCodeIsShown, Bootable

(* The invariant holds of every state of the driver. *)
THEOREM DriverInvariant == Spec => []IInv
  <1>1. \A i \in 1 .. found : found \notin {-1, -3, -4}
    OBVIOUS
  <1>2. IInv /\ [Next]_vars => IInv'
    BY <1>1, ProbePreserves, EnumeratePreserves, EnumerateBlockPreserves, EnumerateEndPreserves,
       LoadFilePreserves, LoadBlockPreserves, LoadEndPreserves, StutterPreserves
       DEF Next, Step
  <1> QED
    BY <1>2, InitIInv, PTL DEF Spec

-----------------------------------------------------------------------------
(* owfs_load_file reports C+ KERNEL_LOAD_OK only of a file whose inode it  *)
(* checked and whose blocks it all read, on any volume and whatever the    *)
(* disk does (owfs.c:281-338).                                              *)
THEOREM SuccessIsComplete == Spec => []SuccessMeansComplete
  BY DriverInvariant, PTL DEF IInv

(* The code a load returns is the one the fail screen reads back           *)
(* (owfs.c:287-292, main.c:25-30).                                          *)
THEOREM ReturnedIsShown == Spec => []ReturnedCodeIsShown
  BY DriverInvariant, PTL DEF IInv

(* owfs_enumerate and owfs_load_file run on no volume the probe refused    *)
(* (owfs.c:135-175).                                                        *)
THEOREM RefusedUntouched == Spec => []RefusedVolumeUntouched
  BY DriverInvariant, PTL DEF IInv

-----------------------------------------------------------------------------
(* Arithmetic of blocks. *)
LEMMA DivMod ==
  \A y \in Nat, m \in Nat \ {0} :
    y \div m \in Int /\ y % m \in 0 .. m - 1 /\ y = m * (y \div m) + (y % m)
  OBVIOUS

LEMMA Quotient ==
  ASSUME NEW m \in Nat \ {0}, NEW p \in Int, NEW q \in Int,
         NEW r \in 0 .. m - 1, NEW s \in 0 .. m - 1, m * p + r = m * q + s
  PROVE  p = q /\ r = s
  <1>1. ASSUME NEW a \in Int, NEW b \in Int, a >= b + 1 PROVE m * a >= m * b + m
    <2>1. m * a = m * b + m * (a - b)
      OBVIOUS
    <2>2. m * (a - b) >= m
      BY <1>1
    <2> QED
      BY <2>1, <2>2
  <1>2. ~(p >= q + 1)
    BY <1>1
  <1>3. ~(q >= p + 1)
    BY <1>1
  <1> QED
    BY <1>2, <1>3

(* The byte j of block i has number i * m + j. *)
LEMMA BlockAndOffset ==
  ASSUME NEW m \in Nat \ {0}, NEW i \in Nat, NEW j \in 0 .. m - 1
  PROVE  (i * m + j) \div m = i /\ (i * m + j) % m = j
  <1> DEFINE y == i * m + j
  <1>1. y \in Nat
    OBVIOUS
  <1>2. y = m * i + j
    OBVIOUS
  <1> HIDE DEF y
  <1>3. y \div m \in Int /\ y % m \in 0 .. m - 1 /\ y = m * (y \div m) + (y % m)
    BY <1>1, DivMod
  <1>4. y \div m = i /\ y % m = j
    BY <1>2, <1>3, Quotient
  <1> QED
    BY <1>4 DEF y

(* The number of blocks of a file covers it, and one less does not. *)
LEMMA BlocksCover ==
  ASSUME NEW m \in Nat \ {0}, NEW s \in Nat
  PROVE  LET n == (s + m - 1) \div m
         IN  n \in Nat /\ s <= n * m /\ n * m < s + m
  <1> DEFINE y == s + m - 1
             n == y \div m
             r == y % m
  <1>1. y \in Nat /\ y = s + (m - 1)
    OBVIOUS
  <1> HIDE DEF y
  <1>2. n \in Int /\ r \in 0 .. m - 1 /\ y = m * n + r
    BY <1>1, DivMod
  <1> HIDE DEF n, r
  <1>3. m * n = n * m
    BY <1>2
  <1>4. s <= n * m /\ n * m < s + m
    BY <1>1, <1>2, <1>3
  <1>5. n >= 0
    <2>1. ASSUME n <= -1 PROVE FALSE
      <3>1. m * n <= -m
        BY <1>2, <2>1
      <3> QED
        BY <1>1, <1>2, <3>1
    <2> QED
      BY <1>2, <2>1
  <1> QED
    BY <1>2, <1>4, <1>5 DEF n, y

-----------------------------------------------------------------------------
(* Finite sets of positions. *)
LEMMA LeastOf ==
  ASSUME NEW S, S \subseteq Nat, S # {}
  PROVE  \E x \in S : \A y \in S : x <= y
  <1>1. \E x \in S : \A y \in S : ~(<<y, x>> \in OpToRel(<, Nat))
    BY WFMin, NatLessThanWellFounded
  <1>2. \A x, y \in S : x < y => <<x, y>> \in OpToRel(<, Nat)
    BY DEF OpToRel
  <1>3. \E x \in S : \A y \in S : ~(y < x)
    BY <1>1, <1>2, Zenon
  <1> QED
    BY <1>3

Rank(S, i) == Cardinality({j \in S : j <= i})

(* A set of positions has a k-th, for every k up to its size. *)
LEMMA NthExists ==
  ASSUME NEW n \in Nat, NEW S, S \subseteq 1 .. n, NEW k \in 1 .. Cardinality(S)
  PROVE  \E i \in S : Rank(S, i) = k
  <1> DEFINE upto(i) == {j \in S : j <= i}
  <1>1. IsFiniteSet(S) /\ Cardinality(S) \in Nat
    <2>1. IsFiniteSet(1 .. n)
      BY FS_Interval
    <2> QED
      BY <2>1, FS_Subset, FS_CardinalityType
  <1>2. ASSUME NEW i \in Nat PROVE IsFiniteSet(upto(i)) /\ Cardinality(upto(i)) \in Nat
    <2>1. upto(i) \subseteq S
      OBVIOUS
    <2> HIDE DEF upto
    <2> QED
      BY <1>1, <2>1, FS_Subset, FS_CardinalityType
  <1>3. \A j \in S : j \in Nat /\ 1 <= j /\ j <= n
    OBVIOUS
  <1>4. upto(n) = S /\ upto(0) = {}
    <2>1. \A j \in S : j <= n /\ ~(j <= 0)
      BY <1>3
    <2> QED
      BY <2>1, Zenon
  <1>5. ASSUME NEW i \in Nat \ {0}, i \in S
        PROVE  upto(i) = upto(i - 1) \cup {i} /\ i \notin upto(i - 1)
    <2>1. \A j \in S : j <= i <=> j <= i - 1 \/ j = i
      BY <1>3
    <2>2. ~(i <= i - 1)
      OBVIOUS
    <2>3. \A j : j \in upto(i) <=> j \in upto(i - 1) \cup {i}
      BY <1>5, <2>1
    <2> QED
      BY <2>2, <2>3
  <1>6. ASSUME NEW i \in Nat \ {0}, i \notin S
        PROVE  upto(i) = upto(i - 1)
    <2>1. \A j \in S : j <= i <=> j <= i - 1
      BY <1>3, <1>6
    <2> QED
      BY <2>1
  <1> HIDE DEF upto
  <1> DEFINE K == {i \in Nat : Cardinality(upto(i)) >= k}
  <1>7. K \subseteq Nat /\ n \in K
    BY <1>1, <1>4
  <1>8. 0 \notin K
    BY <1>4, FS_EmptySet
  <1> HIDE DEF K
  <1>9. PICK i \in K : \A y \in K : i <= y
    BY <1>7, LeastOf
  <1>10. i \in Nat \ {0} /\ i - 1 \in Nat /\ i - 1 \notin K
    BY <1>7, <1>8, <1>9
  <1>11. Cardinality(upto(i - 1)) < k /\ Cardinality(upto(i)) >= k
    BY <1>2, <1>9, <1>10 DEF K
  <1>12. CASE i \in S
    <2>1. Cardinality(upto(i)) = Cardinality(upto(i - 1)) + 1
      BY <1>2, <1>5, <1>10, <1>12, FS_AddElement
    <2>2. Cardinality(upto(i)) = k
      BY <1>1, <1>2, <1>10, <1>11, <2>1
    <2> QED
      BY <1>12, <2>2 DEF upto, Rank
  <1>13. ~(i \notin S)
    BY <1>1, <1>2, <1>6, <1>10, <1>11
  <1> QED
    BY <1>12, <1>13

-----------------------------------------------------------------------------
(* What one catalog block adds to the menu fits the room that is left. *)
Listed == [inode : Nat, type : SUBSET {"FILE", "CATALOG", "DELETED"}]

LEMMA ScanFits ==
  ASSUME NEW es \in Seq(CatalogEntries), NEW room \in Nat
  PROVE  /\ Scan(es, room).found \in Seq(Listed)
         /\ Len(Scan(es, room).found) <= room
         /\ Scan(es, room).raised \in Seq(MblCodes)
  <1> DEFINE good == {i \in DOMAIN es : IsListed(es[i])}
             over == {i \in good : Cardinality({j \in good : j < i}) >= room}
             seen == {i \in DOMAIN es : \A j \in over : i < j}
             bad  == {i \in seen : IsLive(es[i]) /\ ~IsListed(es[i])}
             list == seen \cap good
             nth(k) == CHOOSE i \in list : Rank(list, i) = k
             f == [k \in 1 .. Cardinality(list) |-> [inode |-> es[nth(k)].inode_number,
                                                     type |-> es[nth(k)].entry_type]]
  <1>1. /\ Scan(es, room).found = f
        /\ Scan(es, room).raised = [i \in 1 .. Cardinality(bad) |-> BanCatalogChecksum]
    BY DEF Scan, Rank
  <1> DEFINE n == Len(es)
  <1>2. n \in Nat /\ DOMAIN es = 1 .. n
    OBVIOUS
  <1> HIDE DEF n
  <1>3. /\ good \subseteq 1 .. n /\ list \subseteq good /\ bad \subseteq 1 .. n
        /\ list \subseteq 1 .. n
    BY <1>2
  <1>4. \A i \in list, j \in over : i < j
    OBVIOUS
  <1>5. \A i \in good : Cardinality({j \in good : j < i}) >= room => i \in over
    OBVIOUS
  <1> HIDE DEF good, over, seen, bad, list
  <1>6. IsFiniteSet(1 .. n)
    BY <1>2, FS_Interval
  <1>7. /\ IsFiniteSet(good) /\ IsFiniteSet(list) /\ IsFiniteSet(bad)
        /\ Cardinality(list) \in Nat /\ Cardinality(bad) \in Nat
    BY <1>3, <1>6, FS_Subset, FS_CardinalityType
  <1>8. ASSUME NEW k \in 1 .. Cardinality(list)
        PROVE  nth(k) \in list /\ Rank(list, nth(k)) = k
    <2>1. \E i \in list : Rank(list, i) = k
      <3> HIDE DEF nth
      <3> QED BY <1>2, <1>3, NthExists
    <2> QED
      BY <2>1
  <1> HIDE DEF nth
  <1>9. \A j \in list : j \in Nat
    <2>1. 1 .. n \subseteq Nat
      BY <1>2
    <2> QED
      BY <1>3, <2>1
  <1>10. ASSUME Cardinality(list) > room PROVE FALSE
    <2>1. room + 1 \in 1 .. Cardinality(list)
      BY <1>7, <1>10
    <2> DEFINE i == nth(room + 1)
               a == {j \in list : j <= i}
               b == {j \in good : j < i}
    <2>2. i \in list /\ Cardinality(a) = room + 1
      BY <1>8, <2>1 DEF Rank
    <2>3. i \in Nat /\ \A j \in list : j \in Nat
      BY <1>9, <2>2
    <2> HIDE DEF i
    <2>4. \A j \in list : j <= i => j < i \/ j = i
      BY <2>3
    <2>5. a \ {i} \subseteq b /\ a \subseteq list /\ b \subseteq good /\ i \in a
      <3>1. i <= i
        BY <2>3
      <3> QED
        BY <1>3, <2>2, <2>4, <3>1
    <2> HIDE DEF a, b
    <2>6. IsFiniteSet(a) /\ IsFiniteSet(b) /\ IsFiniteSet(a \ {i})
      BY <1>7, <2>5, FS_Subset, FS_RemoveElement
    <2>7. Cardinality(a \ {i}) = room
      <3>1. Cardinality(a \ {i}) = Cardinality(a) - 1
        BY <2>5, <2>6, FS_RemoveElement
      <3> QED
        BY <2>2, <3>1
    <2>8. Cardinality(b) >= room /\ Cardinality(b) \in Nat
      BY <2>5, <2>6, <2>7, FS_Subset, FS_CardinalityType
    <2>9. i \in over
      BY <1>3, <1>5, <2>2, <2>8 DEF b
    <2> QED
      BY <1>4, <2>2, <2>3, <2>9
  <1>11. \A k \in 1 .. Cardinality(list) : es[nth(k)] \in CatalogEntries
    <2>1. \A k \in 1 .. Cardinality(list) : nth(k) \in DOMAIN es
      BY <1>2, <1>3, <1>8
    <2>2. \A i \in DOMAIN es : es[i] \in CatalogEntries
      OBVIOUS
    <2> QED
      BY <2>1, <2>2
  <1>12. \A k \in 1 .. Cardinality(list) :
           [inode |-> es[nth(k)].inode_number, type |-> es[nth(k)].entry_type] \in Listed
    BY <1>11 DEF CatalogEntries, Listed
  <1> DEFINE c == Cardinality(list)
             d == Cardinality(bad)
  <1>13. f \in [1 .. c -> Listed]
    BY <1>12
  <1>14. c \in Nat /\ d \in Nat /\ c <= room
    BY <1>7, <1>10
  <1>15. BanCatalogChecksum \in MblCodes
    BY DEF MblCodes, BanCodes
  <1> HIDE DEF f, c, d
  <1>16. f \in Seq(Listed) /\ Len(f) = c
    BY <1>13, <1>14
  <1>17. [i \in 1 .. d |-> BanCatalogChecksum] \in Seq(MblCodes)
    BY <1>15, <1>14
  <1> QED
    BY <1>1, <1>14, <1>16, <1>17 DEF d

-----------------------------------------------------------------------------
(* Types of what the helpers return. *)
LEMMA CodesTyped ==
  /\ <<BanIoError>> \in Seq(MblCodes) /\ <<SoftBadBlockMap>> \in Seq(MblCodes)
  /\ <<BanInodeChecksum>> \in Seq(MblCodes) /\ <<ComCatalogEnumOk>> \in Seq(MblCodes)
  /\ <<ComKernelLoadOk>> \in Seq(MblCodes) /\ <<>> \in Seq(MblCodes)
  /\ {BanIoError, BanLoadFailed, ComVolumeProbeOk, ComKernelLoadOk} \subseteq MblCodes
  BY DEF MblCodes, BanCodes, SoftCodes, ComCodes

LEMMA WarningsTyped == \A sb : Warnings(sb) \in Seq(MblCodes)
  <1> SUFFICES ASSUME NEW sb PROVE Warnings(sb) \in Seq(MblCodes)
    OBVIOUS
  <1>1. ASSUME NEW b, NEW c \in MblCodes PROVE When(b, c) \in Seq(MblCodes)
    BY DEF When
  <1>2. /\ WarnVolumeDirty \in MblCodes /\ WarnVolumeLocked \in MblCodes
        /\ WarnStateError \in MblCodes /\ WarnVersionMismatch \in MblCodes
    BY DEF MblCodes, WarnCodes
  <1> QED
    BY <1>1, <1>2 DEF Warnings

LEMMA ProbeCodesTyped ==
  ASSUME FailedChecks(vol.sb) # {}
  PROVE  FirstFailed(vol.sb)[2] \in MblCodes /\ <<FirstFailed(vol.sb)[3]>> \in Seq(MblCodes)
  <1> DEFINE F == FailedChecks(vol.sb)
  <1>1. F \subseteq 1 .. 6
    BY DEF FailedChecks, ProbeChecks
  <1>2. \E i \in F : \A j \in F : i <= j
    BY <1>1, SmallestCheck
  <1>3. PICK i \in 1 .. 6 : FirstFailed(vol.sb) = ProbeChecks(vol.sb)[i]
    BY <1>1, <1>2 DEF FirstFailed
  <1>4. ProbeChecks(vol.sb)[i][2] \in MblCodes /\ ProbeChecks(vol.sb)[i][3] \in MblCodes
    BY DEF ProbeChecks, MblCodes, SoftCodes, BanCodes, WarnCodes
  <1> QED
    BY <1>3, <1>4

LEMMA LoadCodesTyped ==
  ASSUME NEW inode, FailedLoadChecks(inode) # {}
  PROVE  Unloadable(inode) \in MblCodes
  <1> DEFINE F == FailedLoadChecks(inode)
  <1>1. F \subseteq 1 .. 3
    BY DEF FailedLoadChecks, LoadChecks
  <1>2. \E i \in F : \A j \in F : i <= j
    BY <1>1, SmallestCheck
  <1>3. PICK i \in 1 .. 3 : Unloadable(inode) = LoadChecks(inode)[i][2]
    BY <1>1, <1>2 DEF Unloadable
  <1> QED
    BY <1>3 DEF LoadChecks, MblCodes, SoftCodes

LEMMA KeepTyped ==
  ASSUME NEW t \in Seq(MblCodes)
  PROVE  D!Keep(t) \in Seq(MblCodes) /\ Len(D!Keep(t)) <= DIAG_MAX
  <1> DEFINE n == Len(t)
  <1>1. n \in Nat /\ DIAG_MAX \in Nat \ {0}
    BY OwfsAssumption
  <1>2. CASE n <= DIAG_MAX
    BY <1>2 DEF D!Keep
  <1>3. CASE ~(n <= DIAG_MAX)
    <2>1. D!Keep(t) = SubSeq(t, n - DIAG_MAX + 1, n)
      BY <1>3 DEF D!Keep
    <2>2. n - DIAG_MAX + 1 \in 1 .. n /\ n - (n - DIAG_MAX + 1) + 1 = DIAG_MAX
      BY <1>1, <1>3
    <2>3. /\ SubSeq(t, n - DIAG_MAX + 1, n) \in Seq(MblCodes)
          /\ Len(SubSeq(t, n - DIAG_MAX + 1, n)) = DIAG_MAX
      BY <1>1, <1>3, <2>2
    <2> QED
      BY <1>1, <2>1, <2>3
  <1> QED
    BY <1>2, <1>3

LEMMA RaiseTyped ==
  ASSUME NEW codes \in Seq(MblCodes), log \in Seq(MblCodes), Raise(codes)
  PROVE  log' \in Seq(MblCodes) /\ Len(log') <= DIAG_MAX
  <1>1. log \o codes \in Seq(MblCodes)
    OBVIOUS
  <1> QED
    BY <1>1, KeepTyped DEF Raise

LEMMA PropagatedTyped ==
  ASSUME log' \in Seq(MblCodes)
  PROVE  Propagated \in MblCodes
  <1>1. CASE log' = <<>>
    BY <1>1, CodesTyped DEF Propagated
  <1>2. CASE log' # <<>>
    BY <1>2 DEF Propagated, D!Newest
  <1> QED
    BY <1>1, <1>2

LEMMA EntriesTyped == vol \in Volumes => \A b : Entries(b) \in Seq(CatalogEntries)
  <1> SUFFICES ASSUME vol \in Volumes, NEW b PROVE Entries(b) \in Seq(CatalogEntries)
    OBVIOUS
  <1>1. CASE b \in DOMAIN vol.entries
    BY <1>1, OwfsAssumption DEF Entries
  <1>2. CASE b \notin DOMAIN vol.entries
    <2>1. Garbage \in CatalogEntries
      BY DEF Garbage, CatalogEntries
    <2> QED
      BY <1>2, <2>1 DEF Entries
  <1> QED
    BY <1>1, <1>2

LEMMA InodeRaisedTyped ==
  ASSUME NEW num, NEW r \in InodeReads(num)
  PROVE  r.raised \in Seq(MblCodes) /\ r.io \in BOOLEAN
  <1>1. \/ r = InodeRead("range", <<>>, FALSE, NoInode)
        \/ r = InodeRead("io", <<BanIoError>>, TRUE, NoInode)
        \/ r = InodeRead("free", <<>>, FALSE, NoInode)
        \/ r = InodeRead("checksum", <<BanInodeChecksum>>, FALSE, NoInode)
        \/ r = InodeRead("ok", <<>>, FALSE, vol.inodes[num])
    BY DEF InodeReads
  <1>2. r.raised \in {<<>>, <<BanIoError>>, <<BanInodeChecksum>>}
    BY <1>1 DEF InodeRead
  <1>3. \A o, l, n : \A b \in BOOLEAN : InodeRead(o, l, b, n).io \in BOOLEAN
    BY DEF InodeRead
  <1>4. r.io \in BOOLEAN
    BY <1>1, <1>3
  <1> QED
    BY <1>2, <1>4, CodesTyped

(* A block that is handed on was read, so the device has it. *)
LEMMA ReadFits == \A b \in Nat : /\ TRUE \in ReadOk(b) => b < DISK_BLOCKS
                                /\ ReadOk(b) \subseteq BOOLEAN
  BY DEF ReadOk

LEMMA PointerTyped ==
  ASSUME vol \in Volumes, NEW b, NEW k \in Nat, NEW p \in Pointer(b, k)
  PROVE  p \in Nat
  <1>1. DISK_BLOCKS \in Nat /\ POINTERS \in Nat
    BY OwfsAssumption
  <1>2. CASE k < POINTERS /\ b \in DOMAIN vol.pointers
    <2>1. vol.pointers[b] \in [1 .. POINTERS -> Nat]
      BY <1>2, OwfsAssumption
    <2>2. k + 1 \in 1 .. POINTERS
      BY <1>1, <1>2
    <2> QED
      BY <1>2, <2>1, <2>2 DEF Pointer
  <1>3. CASE ~(k < POINTERS /\ b \in DOMAIN vol.pointers)
    BY <1>1, <1>3 DEF Pointer
  <1> QED
    BY <1>2, <1>3

(* What a fetch comes to: nothing mapped, the mapped block read, or a failed read. *)
Staged(m) == [m EXCEPT !.buf = m.block]

FetchOf(m, f) ==
  \/ m.block = 0 /\ f = m
  \/ m.block # 0 /\ TRUE \in ReadOk(m.block) /\ f = Staged(m)
  \/ m.block # 0 /\ f = Unreadable("read") /\ FALSE \in ReadOk(m.block)

LEMMA Fetched ==
  ASSUME NEW inode, NEW i, NEW f \in Fetches(inode, i)
  PROVE  \E m \in BlockMap(inode, i) : FetchOf(m, f)
  <1>1. PICK m \in BlockMap(inode, i) :
          f \in IF m.block = 0 THEN {m}
                ELSE {IF ok THEN Staged(m) ELSE Unreadable("read") :
                        ok \in ReadOk(m.block)}
    BY DEF Fetches, Staged
  <1>2. CASE m.block = 0
    BY <1>1, <1>2 DEF FetchOf
  <1>3. CASE m.block # 0
    <2>1. PICK ok \in ReadOk(m.block) :
            f = IF ok THEN Staged(m) ELSE Unreadable("read")
      BY <1>1, <1>3
    <2>2. ok = TRUE \/ ok = FALSE
      BY DEF ReadOk
    <2> QED
      BY <1>3, <2>1, <2>2 DEF FetchOf
  <1> QED
    BY <1>2, <1>3

LEMMA MappedTyped ==
  ASSUME vol \in Volumes, NEW inode \in Inodes, NEW i \in Nat, buf \in 0 .. DISK_BLOCKS,
         NEW m \in BlockMap(inode, i)
  PROVE  \/ m = Unreadable("map")
         \/ \E p \in Nat, b \in 0 .. DISK_BLOCKS : m = Mapped(p, b)
  <1>1. DIRECT_BLOCKS \in Nat \ {0} /\ DISK_BLOCKS \in Nat
    BY OwfsAssumption
  <1>2. inode.direct_blocks \in [1 .. DIRECT_BLOCKS -> Nat] /\ inode.indirect_block \in Nat
    BY DEF Inodes
  <1>3. CASE i < DIRECT_BLOCKS
    <2>1. inode.direct_blocks[i + 1] \in Nat
      BY <1>1, <1>2, <1>3
    <2> QED
      BY <1>3, <2>1 DEF BlockMap
  <1>4. CASE ~(i < DIRECT_BLOCKS) /\ inode.indirect_block = 0
    BY <1>4 DEF BlockMap
  <1>5. CASE ~(i < DIRECT_BLOCKS) /\ inode.indirect_block # 0
    <2>1. i - DIRECT_BLOCKS \in Nat
      BY <1>1, <1>5
    <2> DEFINE x == inode.indirect_block
               k == i - DIRECT_BLOCKS
    <2>2. \/ m = Unreadable("map")
          \/ TRUE \in ReadOk(x) /\ \E p \in Pointer(x, k) : m = Mapped(p, x)
      BY <1>5 DEF BlockMap, ReadOk
    <2> HIDE DEF x, k
    <2>3. TRUE \in ReadOk(x) => x \in 0 .. DISK_BLOCKS
      <3>1. x \in Nat
        BY <1>2 DEF x
      <3>2. TRUE \in ReadOk(x) => x < DISK_BLOCKS
        BY <3>1, ReadFits, Zenon
      <3> QED
        BY <1>1, <3>1, <3>2
    <2>4. \A p \in Pointer(x, k) : p \in Nat
      BY <2>1, PointerTyped DEF k
    <2> QED
      BY <2>2, <2>3, <2>4
  <1> QED
    BY <1>3, <1>4, <1>5

LEMMA FetchTyped ==
  ASSUME vol \in Volumes, NEW inode \in Inodes, NEW i \in Nat, buf \in 0 .. DISK_BLOCKS,
         NEW f \in Fetches(inode, i)
  PROVE  /\ f.raised \in Seq(MblCodes) /\ f.io \in BOOLEAN
         /\ f.buf \in 0 .. DISK_BLOCKS /\ f.block \in Nat
         /\ f.block # 0 => f.buf = f.block
  <1>1. PICK m \in BlockMap(inode, i) : FetchOf(m, f)
    BY Fetched
  <1>2. \/ m = Unreadable("map")
        \/ \E p \in Nat, b \in 0 .. DISK_BLOCKS : m = Mapped(p, b)
    BY MappedTyped
  <1>3. DISK_BLOCKS \in Nat
    BY OwfsAssumption
  <1>4. ASSUME NEW at, f = Unreadable(at)
        PROVE  /\ f.raised \in Seq(MblCodes) /\ f.io \in BOOLEAN
               /\ f.buf \in 0 .. DISK_BLOCKS /\ f.block \in Nat
               /\ f.block # 0 => f.buf = f.block
    <2>1. f.raised = <<BanIoError>> /\ f.buf = 0 /\ f.block = 0
      BY <1>4 DEF Unreadable
    <2>2. f.io \in BOOLEAN
      BY <1>4 DEF Unreadable
    <2> QED
      BY <1>3, <2>1, <2>2, CodesTyped
  <1>5. ASSUME m = Unreadable("map") PROVE m.block = 0
    BY <1>5 DEF Unreadable
  <1>6. ASSUME NEW p \in Nat, NEW b \in 0 .. DISK_BLOCKS, m = Mapped(p, b), f # Unreadable("read")
        PROVE  /\ f.raised \in Seq(MblCodes) /\ f.io \in BOOLEAN
               /\ f.buf \in 0 .. DISK_BLOCKS /\ f.block \in Nat
               /\ f.block # 0 => f.buf = f.block
    <2>1. m.block = p /\ m.io = FALSE /\ m.raised = When(p = 0, SoftBadBlockMap) /\ m.buf = b
      BY <1>6 DEF Mapped
    <2>2. m.raised \in Seq(MblCodes)
      BY <2>1, CodesTyped DEF When
    <2>3. CASE m.block = 0 /\ f = m
      BY <1>6, <2>1, <2>2, <2>3
    <2>4. CASE m.block # 0 /\ TRUE \in ReadOk(m.block) /\ f = Staged(m)
      <3>1. f.block = p /\ f.buf = p /\ f.io = FALSE /\ f.raised = m.raised
        BY <1>6, <2>4 DEF Mapped, Staged
      <3>2. p < DISK_BLOCKS
        BY <2>1, <2>4, ReadFits, Zenon
      <3>3. p \in 0 .. DISK_BLOCKS
        BY <1>3, <3>2
      <3> QED
        BY <2>2, <3>1, <3>3
    <2> QED
      BY <1>1, <1>6, <2>3, <2>4 DEF FetchOf
  <1> QED
    BY <1>1, <1>2, <1>4, <1>5, <1>6 DEF FetchOf

-----------------------------------------------------------------------------
(* What a walk over a consistent inode reads and copies. *)

(* The block of an index is the one the inode names, or its read failed. *)
LEMMA FetchMapped ==
  ASSUME vol \in Volumes, NEW inode \in Inodes, WellMapped(inode),
         NEW i \in 0 .. inode.block_count - 1, NEW f \in Fetches(inode, i)
  PROVE  IF f.block = 0 THEN f.io = TRUE ELSE f.block = BlockOf(inode, i)
  <1> DEFINE p == BlockOf(inode, i)
  <1>1. /\ i < DIRECT_BLOCKS + POINTERS
        /\ i >= DIRECT_BLOCKS => inode.indirect_block \in DOMAIN vol.pointers
        /\ p \in 1 .. DISK_BLOCKS - 1
    BY DEF WellMapped, IsMapped
  <1>2. DIRECT_BLOCKS \in Nat /\ POINTERS \in Nat /\ DISK_BLOCKS \in Nat /\ i \in Nat
    <2>1. inode.block_count \in Nat
      BY DEF Inodes
    <2> QED
      BY <2>1, OwfsAssumption
  <1>3. ASSUME NEW m \in BlockMap(inode, i)
        PROVE  m = Unreadable("map") \/ \E b : m = Mapped(p, b)
    <2>1. CASE i < DIRECT_BLOCKS
      BY <1>3, <2>1 DEF BlockMap, BlockOf
    <2>2. CASE ~(i < DIRECT_BLOCKS)
      <3>1. inode.indirect_block \in DOMAIN vol.pointers /\ i - DIRECT_BLOCKS < POINTERS
        BY <1>1, <1>2, <2>2
      <3>2. inode.indirect_block # 0
        BY <3>1, OwfsAssumption
      <3>3. Pointer(inode.indirect_block, i - DIRECT_BLOCKS) = {p}
        BY <2>2, <3>1 DEF Pointer, BlockOf
      <3> HIDE DEF p
      <3> QED
        BY <1>3, <2>2, <3>2, <3>3 DEF BlockMap
    <2> QED
      BY <2>1, <2>2
  <1> HIDE DEF p
  <1>4. PICK m \in BlockMap(inode, i) : FetchOf(m, f)
    BY Fetched
  <1>5. CASE m = Unreadable("map") \/ f = Unreadable("read")
    <2>1. m = Unreadable("map") => m.block = 0
      BY DEF Unreadable
    <2>2. f = Unreadable("map") \/ f = Unreadable("read")
      BY <1>4, <1>5, <2>1 DEF FetchOf
    <2> QED
      BY <2>2 DEF Unreadable
  <1>6. ASSUME NEW b, m = Mapped(p, b), f # Unreadable("read")
        PROVE  f.block = p /\ f.block # 0
    <2>1. m.block = p /\ p # 0
      BY <1>1, <1>6 DEF Mapped
    <2>2. f = Staged(m)
      BY <1>4, <1>6, <2>1 DEF FetchOf
    <2> QED
      BY <1>6, <2>1, <2>2 DEF Staged, Mapped
  <1> QED
    BY <1>3, <1>4, <1>5, <1>6 DEF p

Appended(s, B, c) == s \o SubSeq(B, 1, c)

LEMMA AppendTyped ==
  ASSUME NEW T, NEW s \in Seq(T), NEW n \in Nat, NEW B \in [1 .. n -> T], NEW c \in 0 .. n
  PROVE  Appended(s, B, c) \in Seq(T)
  BY DEF Appended

(* How many bytes the first n blocks hold. *)
Upto(inode, n) == IF n * BLOCK_SIZE < inode.size_bytes THEN n * BLOCK_SIZE
                                                       ELSE inode.size_bytes
FileByte(inode, k) == <<BlockOf(inode, (k - 1) \div BLOCK_SIZE), ((k - 1) % BLOCK_SIZE) + 1>>

LEMMA CopiedTyped ==
  ASSUME NEW inode \in Inodes, NEW i \in Nat
  PROVE  Copied(inode, i) \in 0 .. BLOCK_SIZE
  <1> DEFINE left == inode.size_bytes - i * BLOCK_SIZE
  <1>1. BLOCK_SIZE \in Nat \ {0} /\ UINT32 \in Nat /\ UINT32 > 0
    BY OwfsAssumption
  <1>2. left \in Int
    BY <1>1 DEF Inodes
  <1> HIDE DEF left
  <1>3. left % UINT32 \in Nat
    BY <1>1, <1>2
  <1>4. LastBytes(inode, i) \in 0 .. BLOCK_SIZE
    <2>1. LastBytes(inode, i) = IF left % UINT32 < BLOCK_SIZE THEN left % UINT32 ELSE BLOCK_SIZE
      BY DEF LastBytes, left
    <2> QED
      BY <1>1, <1>3, <2>1
  <1> QED
    BY <1>1, <1>4 DEF Copied

(* Block i of a consistent file starts at byte i * BLOCK_SIZE, and what is *)
(* copied of it reaches the next block or the end of the file.             *)
LEMMA CopiedOfFile ==
  ASSUME NEW inode \in Inodes, WellFormedFile(inode), NEW i \in Nat, i < inode.block_count
  PROVE  /\ Upto(inode, i) = i * BLOCK_SIZE
         /\ Upto(inode, i + 1) = i * BLOCK_SIZE + Copied(inode, i)
  <1> DEFINE s == inode.size_bytes
             n == inode.block_count
             m == BLOCK_SIZE
  <1>1. m \in Nat \ {0} /\ KERNEL_MAX \in Nat /\ UINT32 \in Nat /\ UINT32 > KERNEL_MAX + m
    BY OwfsAssumption
  <1>2. s \in Nat /\ n \in Nat /\ s <= KERNEL_MAX /\ n = (s + m - 1) \div m
    BY <1>1, OwfsAssumption DEF Inodes, WellFormedFile
  <1>3. s <= n * m /\ n * m < s + m
    BY <1>1, <1>2, BlocksCover
  <1> HIDE DEF s, n, m
  <1>4. ASSUME NEW a \in Nat, NEW b \in Nat, a <= b PROVE a * m <= b * m
    <2>1. b * m = a * m + (b - a) * m /\ (b - a) * m >= 0
      BY <1>1, <1>4
    <2> QED
      BY <1>1, <2>1
  <1>5. (i + 1) * m = i * m + m /\ (i + 1) * m <= n * m /\ i * m \in Nat
    BY <1>1, <1>2, <1>4 DEF n
  <1>6. i * m < s
    BY <1>1, <1>2, <1>3, <1>5
  <1>7. Upto(inode, i) = i * m
    BY <1>6 DEF Upto, s, m
  <1>8. CASE i + 1 = n
    <2>1. s - i * m \in 1 .. m
      BY <1>1, <1>2, <1>3, <1>5, <1>6, <1>8
    <2> DEFINE left == s - i * m
    <2>2. left \in 1 .. m
      BY <2>1
    <2> HIDE DEF left
    <2>3. left % UINT32 = left
      BY <1>1, <2>2
    <2>4. Copied(inode, i) = left
      BY <1>1, <1>8, <2>2, <2>3 DEF Copied, LastBytes, s, n, m, left
    <2>5. Upto(inode, i + 1) = s
      <3>1. ~((i + 1) * m < s)
        BY <1>1, <1>2, <1>3, <1>5, <1>8
      <3> QED
        BY <3>1 DEF Upto, s, m
    <2>6. i * m + left = s
      BY <1>2, <1>5 DEF left
    <2> QED
      BY <1>7, <2>4, <2>5, <2>6 DEF m
  <1>9. CASE i + 1 # n
    <2>1. i + 2 <= n
      BY <1>2, <1>9 DEF n
    <2>2. (i + 2) * m <= n * m /\ (i + 2) * m = i * m + m + m
      BY <1>1, <1>2, <1>4, <2>1
    <2>3. (i + 1) * m < s
      BY <1>1, <1>2, <1>3, <1>5, <2>2
    <2>4. Upto(inode, i + 1) = (i + 1) * m
      BY <2>3 DEF Upto, s, m
    <2>5. Copied(inode, i) = m
      BY <1>9 DEF Copied, n, m
    <2> QED
      BY <1>5, <1>7, <2>4, <2>5 DEF m
  <1> QED
    BY <1>8, <1>9

LEMMA UptoBounds ==
  ASSUME NEW inode \in Inodes, WellFormedFile(inode)
  PROVE  Upto(inode, 0) = 0 /\ Upto(inode, inode.block_count) = inode.size_bytes
  <1>1. BLOCK_SIZE \in Nat \ {0} /\ inode.size_bytes \in Nat /\ inode.block_count \in Nat
    BY OwfsAssumption DEF Inodes
  <1>2. inode.size_bytes <= inode.block_count * BLOCK_SIZE
    BY <1>1, BlocksCover DEF WellFormedFile
  <1>3. inode.block_count * BLOCK_SIZE \in Nat /\ 0 * BLOCK_SIZE = 0
    BY <1>1
  <1> QED
    BY <1>1, <1>2, <1>3 DEF Upto

-----------------------------------------------------------------------------
(* The invariant of the data: nothing is at the load address before a      *)
(* load, and during one of a consistent file it is the file's first blocks.*)
ImageSound ==
  /\ dpc \in {"start", "probed", "enumerating", "listed"} => image = <<>>
  /\ dpc = "loading" /\ WellFormedFile(ino)
       => /\ Len(image) = Upto(ino, idx)
          /\ \A k \in 1 .. Len(image) : image[k] = FileByte(ino, k)

DataInv == TypeOK /\ ImageSound /\ LoadedIsFile /\ WellFormedLoads

LEMMA Sizes ==
  /\ {DISK_BLOCKS, KERNEL_MIN, KERNEL_MAX} \subseteq Nat
  /\ {BLOCK_SIZE, DIRECT_BLOCKS, POINTERS, MENU_MAX, DIAG_MAX} \subseteq Nat \ {0}
  BY OwfsAssumption

LEMMA InitDataInv == Init => DataInv
  <1> SUFFICES ASSUME Init PROVE DataInv
    OBVIOUS
  <1>1. \A S : <<>> \in Seq(S) /\ Len(<<>>) = 0
    OBVIOUS
  <1>2. DISK_BLOCKS \in Nat /\ KERNEL_MAX \in Nat /\ MENU_MAX \in Nat /\ DIAG_MAX \in Nat
    BY Sizes
  <1>3. TypeOK
    <2>1. /\ entries = <<>> /\ image = <<>> /\ log = <<>> /\ found = 0 /\ size = 0
          /\ buf = 0 /\ idx = 0 /\ rc = 0 /\ dpc = "start" /\ ioFailed = FALSE
      BY DEF Init
    <2>2. 0 \in -4 .. MENU_MAX /\ 0 \in 0 .. DISK_BLOCKS /\ 0 \in 0 .. KERNEL_MAX
          /\ 0 <= MENU_MAX /\ 0 <= DIAG_MAX
      BY <1>2
    <2> QED
      BY <1>1, <2>1, <2>2 DEF TypeOK
  <1> QED
    BY <1>3 DEF Init, DataInv, ImageSound, LoadedIsFile, WellFormedLoads

(* Before a load, the type invariant is all there is to show. *)
LEMMA EarlyData ==
  ASSUME DataInv, TypeOK', dpc \in {"start", "probed", "enumerating", "listed"},
         dpc' \in {"start", "probed", "enumerating", "listed"}, UNCHANGED image
  PROVE  DataInv'
  BY DEF DataInv, ImageSound, LoadedIsFile, WellFormedLoads

LEMMA ProbeData == IInv /\ DataInv /\ Probe => DataInv'
  <1> SUFFICES ASSUME DataInv, Probe PROVE DataInv'
    OBVIOUS
  <1>1. /\ UNCHANGED <<vol, found, entries, ino, idx, buf, image, size>>
        /\ dpc = "start" /\ dpc' = "probed" /\ log \in Seq(MblCodes) /\ ioFailed \in BOOLEAN
    BY DEF Probe, DataInv, TypeOK
  <1>2. \E codes \in Seq(MblCodes) :
           Raise(codes) /\ rc' \in MblCodes /\ ioFailed' \in {ioFailed, TRUE}
    <2>1. CASE Raise(<<BanIoError>>) /\ rc' = BanIoError /\ ioFailed' = TRUE
      BY <2>1, CodesTyped
    <2>2. CASE /\ FailedChecks(vol.sb) # {}
               /\ Raise(<<FirstFailed(vol.sb)[3]>>) /\ rc' = FirstFailed(vol.sb)[2]
               /\ UNCHANGED ioFailed
      BY <2>2, ProbeCodesTyped
    <2>3. CASE Raise(Warnings(vol.sb)) /\ rc' = ComVolumeProbeOk /\ UNCHANGED ioFailed
      BY <2>3, WarningsTyped, CodesTyped
    <2> QED
      BY <2>1, <2>2, <2>3 DEF Probe
  <1>3. log' \in Seq(MblCodes) /\ Len(log') <= DIAG_MAX
    BY <1>1, <1>2, RaiseTyped
  <1>4. TypeOK'
    BY <1>1, <1>2, <1>3 DEF DataInv, TypeOK
  <1> QED
    BY <1>1, <1>4, EarlyData

LEMMA EnumerateData == IInv /\ DataInv /\ Enumerate => DataInv'
  <1> SUFFICES ASSUME DataInv, Enumerate PROVE DataInv'
    OBVIOUS
  <1>1. /\ UNCHANGED <<vol, rc, entries, buf, image, size>> /\ dpc = "probed"
        /\ log \in Seq(MblCodes) /\ Len(log) <= DIAG_MAX /\ ioFailed \in BOOLEAN
        /\ found \in -4 .. MENU_MAX /\ MENU_MAX \in Nat
    BY Sizes DEF Enumerate, DataInv, TypeOK
  <1>2. PICK r \in InodeReads(0) :
          /\ idx' = 0
          /\ ioFailed' = (ioFailed \/ r.io)
          /\ \/ EnumerateReturns(-1, r.raised)
             \/ EnumerateReturns(-2, <<BanInodeChecksum>>)
             \/ dpc' = "enumerating" /\ UNCHANGED <<found, log>>
    BY DEF Enumerate
  <1>3. r.raised \in Seq(MblCodes) /\ r.io \in BOOLEAN
    BY InodeRaisedTyped
  <1>4. log' \in Seq(MblCodes) /\ Len(log') <= DIAG_MAX
    BY <1>1, <1>2, <1>3, CodesTyped, RaiseTyped DEF EnumerateReturns
  <1>5. found' \in -4 .. MENU_MAX /\ dpc' \in {"listed", "enumerating"} /\ ioFailed' \in BOOLEAN
    BY <1>1, <1>2, <1>3 DEF EnumerateReturns
  <1>6. TypeOK'
    BY <1>1, <1>2, <1>4, <1>5 DEF DataInv, TypeOK
  <1> QED
    BY <1>1, <1>5, <1>6, EarlyData

LEMMA EnumerateBlockData == IInv /\ DataInv /\ EnumerateBlock => DataInv'
  <1> SUFFICES ASSUME IInv, DataInv, EnumerateBlock PROVE DataInv'
    OBVIOUS
  <1>1. /\ UNCHANGED <<vol, rc, ino, image, size>> /\ dpc = "enumerating"
        /\ log \in Seq(MblCodes) /\ Len(log) <= DIAG_MAX /\ ioFailed \in BOOLEAN
        /\ found \in -4 .. MENU_MAX /\ MENU_MAX \in Nat /\ buf \in 0 .. DISK_BLOCKS
        /\ entries \in Seq(Listed) /\ Len(entries) <= MENU_MAX /\ idx \in Nat
    BY Sizes DEF EnumerateBlock, DataInv, TypeOK, Listed
  <1>2. vol \in Volumes /\ ino \in Inodes
    BY DEF IInv, VolumeSound, InodeSound
  <1>3. PICK f \in Fetches(ino, idx) :
          /\ buf' = f.buf
          /\ ioFailed' = (ioFailed \/ f.io)
          /\ \/ /\ EnumerateReturns(IF f.at = "map" THEN -3 ELSE -4, f.raised)
                /\ UNCHANGED <<entries, idx>>
             \/ LET scan == Scan(Entries(f.block), Room) IN
                /\ entries' = entries \o scan.found
                /\ \/ EnumerateReturns(Len(entries'), scan.raised) /\ UNCHANGED idx
                   \/ idx' = idx + 1 /\ Raise(scan.raised) /\ UNCHANGED <<dpc, found>>
    BY DEF EnumerateBlock, NextCatalogBlock
  <1>4. f.raised \in Seq(MblCodes) /\ f.io \in BOOLEAN /\ f.buf \in 0 .. DISK_BLOCKS
    BY <1>1, <1>2, FetchTyped
  <1> DEFINE scan == Scan(Entries(f.block), Room)
  <1>5. Room \in Nat
    BY <1>1 DEF Room
  <1>6. /\ scan.found \in Seq(Listed) /\ Len(scan.found) <= Room
        /\ scan.raised \in Seq(MblCodes)
    BY <1>2, <1>5, EntriesTyped, ScanFits
  <1> HIDE DEF scan
  <1>7. entries \o scan.found \in Seq(Listed) /\ Len(entries \o scan.found) <= MENU_MAX
        /\ Len(entries \o scan.found) \in Nat
    BY <1>1, <1>5, <1>6 DEF Room
  <1>8. CASE /\ EnumerateReturns(IF f.at = "map" THEN -3 ELSE -4, f.raised)
             /\ UNCHANGED <<entries, idx>>
    <2>1. log' \in Seq(MblCodes) /\ Len(log') <= DIAG_MAX
      BY <1>1, <1>4, <1>8, RaiseTyped DEF EnumerateReturns
    <2>2. found' \in -4 .. MENU_MAX /\ dpc' = "listed"
      BY <1>1, <1>8 DEF EnumerateReturns
    <2>3. TypeOK'
      BY <1>1, <1>3, <1>4, <1>8, <2>1, <2>2 DEF DataInv, TypeOK
    <2> QED
      BY <1>1, <2>2, <2>3, EarlyData
  <1>9. CASE /\ entries' = entries \o scan.found
             /\ EnumerateReturns(Len(entries'), scan.raised) /\ UNCHANGED idx
    <2>1. log' \in Seq(MblCodes) /\ Len(log') <= DIAG_MAX
      BY <1>1, <1>6, <1>9, RaiseTyped DEF EnumerateReturns
    <2>2. found' \in -4 .. MENU_MAX /\ dpc' = "listed"
      BY <1>1, <1>7, <1>9 DEF EnumerateReturns
    <2>3. TypeOK'
      BY <1>1, <1>3, <1>4, <1>7, <1>9, <2>1, <2>2 DEF DataInv, TypeOK, Listed
    <2> QED
      BY <1>1, <2>2, <2>3, EarlyData
  <1>10. CASE /\ entries' = entries \o scan.found
              /\ idx' = idx + 1 /\ Raise(scan.raised) /\ UNCHANGED <<dpc, found>>
    <2>1. log' \in Seq(MblCodes) /\ Len(log') <= DIAG_MAX
      BY <1>1, <1>6, <1>10, RaiseTyped
    <2>2. idx' \in Nat /\ dpc' = "enumerating"
      BY <1>1, <1>10
    <2>3. TypeOK'
      BY <1>1, <1>3, <1>4, <1>7, <1>10, <2>1, <2>2 DEF DataInv, TypeOK, Listed
    <2> QED
      BY <1>1, <2>2, <2>3, EarlyData
  <1> QED
    BY <1>3, <1>8, <1>9, <1>10 DEF scan

LEMMA EnumerateEndData == IInv /\ DataInv /\ EnumerateEnd => DataInv'
  <1> SUFFICES ASSUME DataInv, EnumerateEnd PROVE DataInv'
    OBVIOUS
  <1>1. /\ UNCHANGED <<vol, rc, entries, ino, idx, buf, image, size, ioFailed>>
        /\ dpc = "enumerating" /\ dpc' = "listed" /\ found' = Len(entries)
        /\ Raise(When(entries # <<>>, ComCatalogEnumOk))
        /\ log \in Seq(MblCodes) /\ MENU_MAX \in Nat
        /\ entries \in Seq(Listed) /\ Len(entries) <= MENU_MAX
    BY Sizes DEF EnumerateEnd, EnumerateReturns, DataInv, TypeOK, Listed
  <1>2. When(entries # <<>>, ComCatalogEnumOk) \in Seq(MblCodes)
    BY CodesTyped DEF When
  <1>3. log' \in Seq(MblCodes) /\ Len(log') <= DIAG_MAX
    BY <1>1, <1>2, RaiseTyped
  <1>4. found' \in -4 .. MENU_MAX
    BY <1>1
  <1>5. TypeOK'
    BY <1>1, <1>3, <1>4 DEF DataInv, TypeOK
  <1> QED
    BY <1>1, <1>5, EarlyData

-----------------------------------------------------------------------------
(* The load. *)
LEMMA SameFile ==
  ASSUME UNCHANGED <<vol, ino>>
  PROVE  /\ (WellFormedFile(ino))' <=> WellFormedFile(ino)
         /\ \A k : (FileByte(ino, k))' = FileByte(ino, k)
         /\ (Content(ino))' = Content(ino)
  <1>1. /\ \A j : (BlockOf(ino, j))' = BlockOf(ino, j)
        /\ DOMAIN vol'.pointers = DOMAIN vol.pointers
    BY DEF BlockOf
  <1>2. (WellMapped(ino))' <=> WellMapped(ino)
    BY <1>1 DEF WellMapped, IsMapped
  <1> QED
    BY <1>1, <1>2 DEF WellFormedFile, FileByte, Content

LEMMA FileIsLoadable ==
  ASSUME NEW inode \in Inodes, "FILE" \in inode.entry_type,
         inode.size_bytes \in KERNEL_MIN .. KERNEL_MAX
  PROVE  FailedLoadChecks(inode) = {}
  <1>1. DOMAIN LoadChecks(inode) = 1 .. 3
    BY DEF LoadChecks
  <1>2. ~(inode.size_bytes < KERNEL_MIN) /\ ~(inode.size_bytes > KERNEL_MAX)
    BY Sizes
  <1>3. ~LoadChecks(inode)[1][1] /\ ~LoadChecks(inode)[2][1] /\ ~LoadChecks(inode)[3][1]
    BY <1>2 DEF LoadChecks
  <1>4. \A i \in 1 .. 3 : ~LoadChecks(inode)[i][1]
    BY <1>3
  <1> QED
    BY <1>1, <1>4 DEF FailedLoadChecks

LEMMA LoadFileData == \A num : IInv /\ DataInv /\ LoadFile(num) => DataInv'
  <1> SUFFICES ASSUME NEW num, IInv, DataInv, LoadFile(num) PROVE DataInv'
    OBVIOUS
  <1>1. /\ UNCHANGED <<vol, found, entries, buf, image, size>> /\ dpc = "listed"
        /\ log \in Seq(MblCodes) /\ Len(log) <= DIAG_MAX /\ ioFailed \in BOOLEAN
        /\ vol \in Volumes /\ image = <<>>
    BY DEF LoadFile, IInv, VolumeSound, DataInv, TypeOK, ImageSound
  <1>2. PICK r \in InodeReads(num) :
          /\ ino' = r.inode /\ idx' = 0
          /\ ioFailed' = (ioFailed \/ r.io)
          /\ \/ /\ r.outcome # "ok"
                /\ Raise(r.raised) /\ LoadReturns(Propagated)
             \/ /\ r.outcome = "ok" /\ FailedLoadChecks(r.inode) # {}
                /\ Raise(<<Unloadable(r.inode)>>) /\ LoadReturns(Unloadable(r.inode))
             \/ dpc' = "loading" /\ UNCHANGED <<rc, log>>
    BY DEF LoadFile
  <1>3. /\ r.raised \in Seq(MblCodes) /\ r.io \in BOOLEAN /\ r.inode \in Inodes
        /\ r.outcome # "ok" => r.inode = NoInode
    BY <1>1, InodeRaisedTyped, InodeReadFacts
  <1>4. ASSUME NEW code \in MblCodes, LoadReturns(code), ~(WellFormedFile(ino))',
               log' \in Seq(MblCodes), Len(log') <= DIAG_MAX
        PROVE  DataInv'
    <2>1. rc' \in MblCodes /\ dpc' = "loaded"
      BY <1>4 DEF LoadReturns
    <2>2. idx' \in Nat /\ ioFailed' \in BOOLEAN
      BY <1>1, <1>2, <1>3
    <2>3. TypeOK'
      BY <1>1, <1>4, <2>1, <2>2 DEF DataInv, TypeOK
    <2> QED
      BY <1>4, <2>1, <2>3 DEF DataInv, ImageSound, LoadedIsFile, WellFormedLoads
  <1>5. CASE r.outcome # "ok" /\ Raise(r.raised) /\ LoadReturns(Propagated)
    <2>1. log' \in Seq(MblCodes) /\ Len(log') <= DIAG_MAX
      BY <1>1, <1>3, <1>5, RaiseTyped
    <2>2. Propagated \in MblCodes
      BY <2>1, PropagatedTyped
    <2>3. ~(WellFormedFile(ino))'
      BY <1>2, <1>3, <1>5 DEF WellFormedFile, NoInode
    <2> QED
      BY <1>4, <1>5, <2>1, <2>2, <2>3
  <1>6. CASE /\ FailedLoadChecks(r.inode) # {}
             /\ Raise(<<Unloadable(r.inode)>>) /\ LoadReturns(Unloadable(r.inode))
    <2>1. Unloadable(r.inode) \in MblCodes
      BY <1>6, LoadCodesTyped
    <2>2. log' \in Seq(MblCodes) /\ Len(log') <= DIAG_MAX
      <3>1. <<Unloadable(r.inode)>> \in Seq(MblCodes)
        BY <2>1
      <3> QED
        BY <1>1, <1>6, <3>1, RaiseTyped
    <2>3. ~(WellFormedFile(ino))'
      BY <1>2, <1>3, <1>6, FileIsLoadable DEF WellFormedFile
    <2> QED
      BY <1>4, <1>6, <2>1, <2>2, <2>3
  <1>7. CASE dpc' = "loading" /\ UNCHANGED <<rc, log>>
    <2>1. idx' \in Nat /\ ioFailed' \in BOOLEAN
      BY <1>1, <1>2, <1>3
    <2>2. TypeOK'
      BY <1>1, <1>7, <2>1 DEF DataInv, TypeOK
    <2>3. Upto(r.inode, 0) = 0
      BY <1>3, Sizes DEF Upto, Inodes
    <2>4. image' = <<>> /\ Len(image') = Upto(ino', idx')
      BY <1>1, <1>2, <2>3
    <2>5. ImageSound'
      BY <1>7, <2>4 DEF ImageSound, Upto
    <2> QED
      BY <1>7, <2>2, <2>5 DEF DataInv, LoadedIsFile, WellFormedLoads
  <1> QED
    BY <1>2, <1>5, <1>6, <1>7

(* One more block of a consistent file. *)
LEMMA BlockAppended ==
  ASSUME vol \in Volumes, ino \in Inodes, idx \in Nat, idx < ino.block_count,
         WellFormedFile(ino), NEW T, image \in Seq(T),
         Len(image) = Upto(ino, idx), \A k \in 1 .. Len(image) : image[k] = FileByte(ino, k),
         NEW b, b = BlockOf(ino, idx), Bytes(b) \in [1 .. BLOCK_SIZE -> T],
         NEW new, new = Appended(image, Bytes(b), Copied(ino, idx))
  PROVE  /\ Len(new) = Upto(ino, idx + 1)
         /\ \A k \in 1 .. Len(new) : new[k] = FileByte(ino, k)
  <1> DEFINE c == Copied(ino, idx)
             m == BLOCK_SIZE
             n == idx * m
  <1>1. m \in Nat \ {0} /\ c \in 0 .. m /\ n \in Nat
    <2>1. m \in Nat \ {0} /\ c \in 0 .. m
      BY Sizes, CopiedTyped
    <2> HIDE DEF m
    <2> QED
      BY <2>1
  <1>2. Len(image) = n /\ Upto(ino, idx + 1) = n + c
    BY CopiedOfFile
  <1>3. /\ Len(new) = n + c
        /\ \A k \in 1 .. n : new[k] = image[k]
        /\ \A j \in 1 .. c : new[n + j] = Bytes(b)[j]
    <2> DEFINE B == Bytes(b)
    <2>1. B \in [1 .. m -> T]
      OBVIOUS
    <2>2. new = Appended(image, B, c)
      OBVIOUS
    <2> HIDE DEF c, m, n, B
    <2>3. image \in Seq(T)
      OBVIOUS
    <2>4. m \in Nat
      BY <1>1
    <2>5. c \in 0 .. m
      BY <1>1
    <2>6. Len(Appended(image, B, c)) = Len(image) + c
      BY ONLY <2>1, <2>3, <2>4, <2>5 DEF Appended
    <2>7. \A k \in 1 .. Len(image) : Appended(image, B, c)[k] = image[k]
      BY ONLY <2>1, <2>3, <2>4, <2>5 DEF Appended
    <2>8. \A j \in 1 .. c : Appended(image, B, c)[Len(image) + j] = B[j]
      BY ONLY <2>1, <2>3, <2>4, <2>5 DEF Appended
    <2> QED
      BY ONLY <1>2, <2>2, <2>6, <2>7, <2>8 DEF B
  <1>4. ASSUME NEW j \in 1 .. c PROVE Bytes(b)[j] = FileByte(ino, n + j)
    <2>1. j - 1 \in 0 .. m - 1 /\ (n + j) - 1 = idx * m + (j - 1)
      BY <1>1
    <2>2. (idx * m + (j - 1)) \div m = idx /\ (idx * m + (j - 1)) % m = j - 1
      BY <1>1, <2>1, BlockAndOffset
    <2>3. FileByte(ino, n + j) = <<b, (j - 1) + 1>>
      BY <2>1, <2>2 DEF FileByte
    <2>4. j \in 1 .. BLOCK_SIZE /\ (j - 1) + 1 = j
      BY <1>1
    <2> QED
      BY <2>3, <2>4 DEF Bytes
  <1> HIDE DEF c, m, n
  <1>5. ASSUME NEW k \in 1 .. n + c PROVE new[k] = FileByte(ino, k)
    <2>1. CASE k \in 1 .. n
      BY <1>2, <1>3, <2>1
    <2>2. CASE k \notin 1 .. n
      <3>1. k - n \in 1 .. c /\ k = n + (k - n)
        BY <1>1, <2>2
      <3> QED
        BY <1>3, <1>4, <3>1
    <2> QED
      BY <2>1, <2>2
  <1> QED
    BY <1>2, <1>3, <1>5

LEMMA LoadBlockData == IInv /\ DataInv /\ LoadBlock => DataInv'
  <1> SUFFICES ASSUME IInv, DataInv, LoadBlock PROVE DataInv'
    OBVIOUS
  <1> DEFINE T == (0 .. DISK_BLOCKS) \X (1 .. BLOCK_SIZE)
  <1>1. /\ UNCHANGED <<vol, found, entries, ino, size>> /\ dpc = "loading"
        /\ idx \in Nat /\ idx < ino.block_count /\ buf \in 0 .. DISK_BLOCKS
        /\ log \in Seq(MblCodes) /\ Len(log) <= DIAG_MAX /\ ioFailed \in BOOLEAN
        /\ image \in Seq(T)
    BY DEF LoadBlock, DataInv, TypeOK
  <1>2. vol \in Volumes /\ ino \in Inodes /\ Quiet(log) /\ ino.block_count \in Nat
    BY <1>1 DEF IInv, VolumeSound, InodeSound, LogSound, Inodes
  <1>3. PICK f \in Fetches(ino, idx) :
          /\ buf' = f.buf
          /\ ioFailed' = (ioFailed \/ f.io)
          /\ \/ /\ f.block = 0
                /\ Raise(f.raised) /\ LoadReturns(Propagated)
                /\ UNCHANGED <<image, idx>>
             \/ /\ f.block # 0
                /\ image' = image \o SubSeq(Bytes(f.buf), 1, Copied(ino, idx))
                /\ idx' = idx + 1
                /\ UNCHANGED <<dpc, rc, log>>
    BY DEF LoadBlock
  <1>4. /\ f.raised \in Seq(MblCodes) /\ f.io \in BOOLEAN /\ f.buf \in 0 .. DISK_BLOCKS
        /\ f.block # 0 => f.buf = f.block
    BY <1>1, <1>2, FetchTyped
  <1>5. ASSUME WellFormedFile(ino)
        PROVE  IF f.block = 0 THEN f.io = TRUE ELSE f.block = BlockOf(ino, idx)
    <2>1. idx \in 0 .. ino.block_count - 1 /\ WellMapped(ino)
      BY <1>1, <1>2, <1>5 DEF WellFormedFile
    <2> QED
      BY <1>2, <2>1, FetchMapped
  <1>6. CASE /\ f.block = 0 /\ Raise(f.raised) /\ LoadReturns(Propagated)
             /\ UNCHANGED <<image, idx>>
    <2>1. log' \in Seq(MblCodes) /\ Len(log') <= DIAG_MAX
      BY <1>1, <1>4, <1>6, RaiseTyped
    <2>2. Quiet(log')
      BY <1>2, <1>6, FetchFacts, StillQuiet
    <2>3. rc' = Propagated /\ dpc' = "loaded" /\ rc' \in MblCodes /\ rc' # ComKernelLoadOk
      BY <1>6, <2>1, <2>2, PropagatedTyped, PropagatedFacts DEF LoadReturns
    <2>4. ioFailed' \in BOOLEAN /\ (WellFormedFile(ino) => ioFailed')
      BY <1>1, <1>3, <1>4, <1>5, <1>6
    <2>5. TypeOK'
      BY <1>1, <1>3, <1>4, <1>6, <2>1, <2>3, <2>4 DEF DataInv, TypeOK
    <2> QED
      BY <1>1, <2>3, <2>4, <2>5, SameFile DEF DataInv, ImageSound, LoadedIsFile, WellFormedLoads
  <1>7. CASE /\ f.block # 0
             /\ image' = image \o SubSeq(Bytes(f.buf), 1, Copied(ino, idx))
             /\ idx' = idx + 1
             /\ UNCHANGED <<dpc, rc, log>>
    <2>1. Bytes(f.buf) \in [1 .. BLOCK_SIZE -> T]
      BY <1>4 DEF Bytes
    <2>2. BLOCK_SIZE \in Nat /\ Copied(ino, idx) \in 0 .. BLOCK_SIZE
      BY <1>1, <1>2, Sizes, CopiedTyped
    <2> HIDE DEF T
    <2>3. image' \in Seq(T)
      BY <1>1, <1>7, <2>1, <2>2, AppendTyped DEF Appended
    <2>4. ioFailed' \in BOOLEAN /\ idx' \in Nat
      BY <1>1, <1>3, <1>4, <1>7
    <2>5. TypeOK'
      BY <1>1, <1>3, <1>4, <1>7, <2>3, <2>4 DEF DataInv, TypeOK, T
    <2>6. ASSUME WellFormedFile(ino)
          PROVE  /\ Len(image') = Upto(ino, idx + 1)
                 /\ \A k \in 1 .. Len(image') : image'[k] = FileByte(ino, k)
      <3>1. f.buf = BlockOf(ino, idx)
        BY <1>4, <1>5, <1>7, <2>6
      <3>2. Len(image) = Upto(ino, idx) /\ \A k \in 1 .. Len(image) : image[k] = FileByte(ino, k)
        BY <1>1, <2>6 DEF DataInv, ImageSound
      <3> QED
        BY <1>1, <1>2, <1>7, <2>1, <2>6, <3>1, <3>2, BlockAppended DEF Appended
    <2>7. (Upto(ino, idx))' = Upto(ino, idx + 1)
      BY <1>1, <1>7 DEF Upto
    <2>8. ImageSound'
      BY <1>1, <1>7, <2>6, <2>7, SameFile DEF ImageSound
    <2> QED
      BY <1>1, <1>7, <2>5, <2>8 DEF DataInv, LoadedIsFile, WellFormedLoads
  <1> QED
    BY <1>3, <1>6, <1>7

LEMMA LoadEndData == IInv /\ DataInv /\ LoadEnd => DataInv'
  <1> SUFFICES ASSUME IInv, DataInv, LoadEnd PROVE DataInv'
    OBVIOUS
  <1>1. /\ UNCHANGED <<vol, found, entries, ino, idx, buf, image, ioFailed>>
        /\ dpc = "loading" /\ dpc' = "loaded" /\ rc' = ComKernelLoadOk
        /\ size' = ino.size_bytes /\ Raise(<<ComKernelLoadOk>>) /\ idx >= ino.block_count
        /\ log \in Seq(MblCodes) /\ idx \in Nat
    BY DEF LoadEnd, LoadReturns, DataInv, TypeOK
  <1>2. /\ ino \in Inodes /\ ino.size_bytes \in KERNEL_MIN .. KERNEL_MAX
        /\ idx <= ino.block_count
    BY <1>1 DEF IInv, InodeSound, LoadSound
  <1>3. idx = ino.block_count
    BY <1>1, <1>2 DEF Inodes
  <1>4. log' \in Seq(MblCodes) /\ Len(log') <= DIAG_MAX /\ rc' \in MblCodes
    BY <1>1, CodesTyped, RaiseTyped
  <1>5. size' \in 0 .. KERNEL_MAX
    BY <1>1, <1>2, Sizes
  <1>6. TypeOK'
    BY <1>1, <1>4, <1>5 DEF DataInv, TypeOK
  <1>7. ASSUME WellFormedFile(ino) PROVE image = Content(ino)
    <2>1. Len(image) = ino.size_bytes
      BY <1>1, <1>2, <1>3, <1>7, UptoBounds DEF DataInv, ImageSound
    <2>2. \A k \in 1 .. ino.size_bytes : image[k] = FileByte(ino, k)
      BY <1>1, <1>7, <2>1 DEF DataInv, ImageSound
    <2>3. image = [k \in 1 .. ino.size_bytes |-> image[k]]
      BY <2>1 DEF DataInv, TypeOK
    <2> QED
      BY <2>2, <2>3 DEF Content, FileByte
  <1>8. LoadedIsFile'
    BY <1>1, <1>7, SameFile DEF LoadedIsFile
  <1> QED
    BY <1>1, <1>6, <1>8 DEF DataInv, ImageSound, WellFormedLoads

LEMMA StutterData == DataInv /\ UNCHANGED vars => DataInv'
  <1> SUFFICES ASSUME DataInv, UNCHANGED vars PROVE DataInv'
    OBVIOUS
  <1>1. UNCHANGED <<vol, dpc, rc, found, entries, ino, idx, buf, image, size, log, ioFailed>>
    BY DEF vars
  <1>2. TypeOK'
    BY <1>1 DEF DataInv, TypeOK
  <1>3. ImageSound'
    BY <1>1, SameFile DEF DataInv, ImageSound, Upto
  <1> QED
    BY <1>1, <1>2, <1>3, SameFile DEF DataInv, LoadedIsFile, WellFormedLoads

(* The data invariant holds of every state of the driver. *)
THEOREM DriverData == Spec => []DataInv
  <1>1. IInv /\ DataInv /\ [Next]_vars => DataInv'
    BY ProbeData, EnumerateData, EnumerateBlockData, EnumerateEndData, LoadFileData,
       LoadBlockData, LoadEndData, StutterData DEF Next, Step
  <1> QED
    BY <1>1, InitDataInv, DriverInvariant, PTL DEF Spec

(* The driver's variables keep their types: the menu's entry list never    *)
(* outgrows kmain's array and the recorder its ring.                        *)
THEOREM DriverTyped == Spec => []TypeOK
  BY DriverData, PTL DEF DataInv

(* What a successful load of a consistent file puts at the load address is *)
(* the file, byte for byte (owfs.c:311-330), for every block size, number  *)
(* of direct blocks and pointers and every file up to the kernel's limit.  *)
THEOREM LoadsTheFile == Spec => []LoadedIsFile
  BY DriverData, PTL DEF DataInv

(* A consistent file is loaded unless the disk fails (owfs.c:281-338).     *)
THEOREM LoadsUnlessDiskFails == Spec => []WellFormedLoads
  BY DriverData, PTL DEF DataInv

-----------------------------------------------------------------------------
(* Induction up to n, and a loop's values, with a set and a function where *)
(* the library's theorems take operators.                                   *)
LEMMA Upwards ==
  ASSUME NEW n \in Nat, NEW Good, 0 \in Good,
         \A k \in 1 .. n : k - 1 \in Good => k \in Good
  PROVE  \A k \in 0 .. n : k \in Good
  <1> DEFINE Bad == {k \in 0 .. n : k \notin Good}
  <1>1. ASSUME Bad # {} PROVE FALSE
    <2>1. Bad \subseteq Nat
      OBVIOUS
    <2>2. PICK m \in Bad : \A j \in Bad : m <= j
      <3> HIDE DEF Bad
      <3> QED
        BY <1>1, <2>1, LeastOf
    <2>3. m \in 1 .. n /\ m \notin Good
      BY <2>2
    <2>4. m - 1 \in 0 .. n /\ ~(m <= m - 1)
      BY <2>3
    <2>5. m - 1 \in Good
      BY <2>2, <2>4
    <2> QED
      BY <2>3, <2>5
  <1> QED
    BY <1>1

(* f takes the values of a loop of n passes that starts with a. *)
Loop(f, n, a, S, pass) ==
  /\ f \in [0 .. n -> S] /\ f[0] = a
  /\ \A k \in 1 .. n : f[k] = pass[k][f[k - 1]]

LEMMA LoopExists ==
  ASSUME NEW n \in Nat, NEW S, NEW a \in S, NEW pass \in [1 .. n -> [S -> S]]
  PROVE  \E f : Loop(f, n, a, S, pass)
  <1> DEFINE Good == {m \in 0 .. n : \E f : Loop(f, m, a, S, pass)}
  <1>1. 0 \in Good
    <2> DEFINE h == [k \in 0 .. 0 |-> a]
    <2>1. Loop(h, 0, a, S, pass)
      BY DEF Loop
    <2> QED
      BY <2>1
  <1>2. ASSUME NEW m \in 1 .. n, m - 1 \in Good PROVE m \in Good
    <2>1. PICK f : Loop(f, m - 1, a, S, pass)
      BY <1>2
    <2> DEFINE g == [k \in 0 .. m |-> IF k = m THEN pass[m][f[m - 1]] ELSE f[k]]
    <2>2. m - 1 \in 0 .. m - 1 /\ pass[m] \in [S -> S] /\ m # 0
      OBVIOUS
    <2>3. f[m - 1] \in S
      BY <2>1, <2>2 DEF Loop
    <2>4. \A k \in 0 .. m - 1 : f[k] \in S
      BY <2>1 DEF Loop
    <2>5. g \in [0 .. m -> S] /\ g[0] = a
      BY <2>1, <2>2, <2>3, <2>4 DEF Loop
    <2>6. ASSUME NEW k \in 1 .. m PROVE g[k] = pass[k][g[k - 1]]
      BY <2>1 DEF Loop
    <2>7. Loop(g, m, a, S, pass)
      <3> HIDE DEF g
      <3> QED
        BY <2>5, <2>6 DEF Loop
    <2> QED
      BY <2>7
  <1>3. n \in Good
    <2> HIDE DEF Good
    <2>1. \A k \in 0 .. n : k \in Good
      BY <1>1, <1>2, Upwards
    <2> QED
      BY <2>1
  <1> QED
    BY <1>3

-----------------------------------------------------------------------------
(* Ranks: how many of a set of positions are not behind a position. *)
LEMMA RankTyped ==
  ASSUME NEW n \in Nat, NEW S, S \subseteq 1 .. n
  PROVE  /\ IsFiniteSet(S) /\ Cardinality(S) \in Nat
         /\ \A i : Rank(S, i) \in Nat /\ Rank(S, i) <= Cardinality(S)
         /\ Rank(S, 0) = 0 /\ Rank(S, n) = Cardinality(S)
  <1>1. IsFiniteSet(S) /\ Cardinality(S) \in Nat
    <2>1. IsFiniteSet(1 .. n)
      BY FS_Interval
    <2> QED
      BY <2>1, FS_Subset, FS_CardinalityType
  <1>2. ASSUME NEW i PROVE Rank(S, i) \in Nat /\ Rank(S, i) <= Cardinality(S)
    <2> DEFINE a == {j \in S : j <= i}
    <2>1. a \subseteq S
      OBVIOUS
    <2> HIDE DEF a
    <2>2. Cardinality(a) \in Nat /\ Cardinality(a) <= Cardinality(S)
      BY <1>1, <2>1, FS_Subset, FS_CardinalityType
    <2> QED
      BY <2>2 DEF Rank, a
  <1>3. {j \in S : j <= 0} = {} /\ {j \in S : j <= n} = S
    <2>1. \A j \in S : ~(j <= 0) /\ j <= n
      OBVIOUS
    <2> QED
      BY <2>1, Zenon
  <1>4. Rank(S, 0) = 0 /\ Rank(S, n) = Cardinality(S)
    BY <1>3, FS_EmptySet DEF Rank
  <1> QED
    BY <1>1, <1>2, <1>4

LEMMA RankStep ==
  ASSUME NEW n \in Nat, NEW S, S \subseteq 1 .. n, NEW i \in 1 .. n
  PROVE  /\ i \in S => Rank(S, i) = Rank(S, i - 1) + 1
         /\ i \notin S => Rank(S, i) = Rank(S, i - 1)
         /\ Cardinality({j \in S : j < i}) = Rank(S, i - 1)
  <1> DEFINE upto(k) == {j \in S : j <= k}
  <1>1. \A j \in S : j \in Nat /\ 1 <= j /\ j <= n
    OBVIOUS
  <1>2. IsFiniteSet(upto(i - 1)) /\ Cardinality(upto(i - 1)) \in Nat
    <2>1. IsFiniteSet(S)
      BY RankTyped
    <2>2. upto(i - 1) \subseteq S
      OBVIOUS
    <2> HIDE DEF upto
    <2> QED
      BY <2>1, <2>2, FS_Subset, FS_CardinalityType
  <1>3. ASSUME i \in S PROVE Rank(S, i) = Rank(S, i - 1) + 1
    <2>1. \A j \in S : j <= i <=> j <= i - 1 \/ j = i
      BY <1>1
    <2>2. i \notin upto(i - 1)
      OBVIOUS
    <2>3. upto(i) = upto(i - 1) \cup {i}
      BY <1>3, <2>1
    <2> HIDE DEF upto
    <2>4. Cardinality(upto(i)) = Cardinality(upto(i - 1)) + 1
      BY <1>2, <2>2, <2>3, FS_AddElement
    <2> QED
      BY <2>4 DEF upto, Rank
  <1>4. ASSUME i \notin S PROVE Rank(S, i) = Rank(S, i - 1)
    <2>1. \A j \in S : j <= i <=> j <= i - 1
      BY <1>1, <1>4
    <2>2. upto(i) = upto(i - 1)
      BY <2>1
    <2> QED
      BY <2>2 DEF Rank
  <1>5. {j \in S : j < i} = upto(i - 1)
    <2>1. \A j \in S : j < i <=> j <= i - 1
      BY <1>1
    <2> QED
      BY <2>1
  <1> QED
    BY <1>3, <1>4, <1>5 DEF Rank

LEMMA RankMonotone ==
  ASSUME NEW n \in Nat, NEW S, S \subseteq 1 .. n, NEW i \in 0 .. n, NEW k \in 0 .. n, i <= k
  PROVE  Rank(S, i) <= Rank(S, k) /\ (k \in S /\ i < k => Rank(S, i) < Rank(S, k))
  <1>1. ASSUME NEW a \in 0 .. n, NEW b \in 0 .. n, a <= b PROVE Rank(S, a) <= Rank(S, b)
    <2> DEFINE x == {j \in S : j <= a}
               y == {j \in S : j <= b}
    <2>1. x \subseteq y /\ y \subseteq S
      <3>1. \A j \in S : j <= a => j <= b
        BY <1>1
      <3> QED
        BY <3>1, Zenon
    <2>2. IsFiniteSet(S)
      BY RankTyped
    <2> HIDE DEF x, y
    <2>3. IsFiniteSet(y)
      BY <2>1, <2>2, FS_Subset
    <2>4. Cardinality(x) <= Cardinality(y)
      BY <2>1, <2>3, FS_Subset
    <2> QED
      BY <2>4 DEF Rank, x, y
  <1>2. ASSUME k \in S, i < k PROVE Rank(S, i) < Rank(S, k)
    <2>1. k \in 1 .. n /\ k - 1 \in 0 .. n /\ i <= k - 1
      BY <1>2
    <2>2. Rank(S, k) = Rank(S, k - 1) + 1
      BY <1>2, <2>1, RankStep
    <2>3. Rank(S, i) <= Rank(S, k - 1)
      BY <1>1, <2>1
    <2>4. Rank(S, i) \in Nat /\ Rank(S, k - 1) \in Nat
      BY RankTyped
    <2> QED
      BY <2>2, <2>3, <2>4
  <1> QED
    BY <1>1, <1>2
-----------------------------------------------------------------------------
(* The reference list of a block: the entry of rank k is its k-th. *)
Passing(es) == {i \in DOMAIN es : IsListed(es[i])}
View(e)     == [inode |-> e.inode_number, type |-> e.entry_type]

LEMMA SelectedLoop ==
  ASSUME NEW es \in Seq(CatalogEntries)
  PROVE  \E f : /\ f \in [0 .. Len(es) -> Seq(Listed)] /\ f[0] = <<>>
                /\ \A k \in 1 .. Len(es) :
                     f[k] = IF IsListed(es[k]) THEN Append(f[k - 1], View(es[k])) ELSE f[k - 1]
                /\ Selected(es) = f[Len(es)]
  <1> DEFINE n == Len(es)
             S == Seq(Listed)
             next(k, s) == IF IsListed(es[k]) THEN Append(s, View(es[k])) ELSE s
             pass == [k \in 1 .. n |-> [s \in S |-> next(k, s)]]
             IsUpto(f) == f = [k \in 0 .. n |-> IF k = 0 THEN <<>> ELSE next(k, f[k - 1])]
  <1>1. n \in Nat /\ <<>> \in S
    OBVIOUS
  <1>2. ASSUME NEW k \in 1 .. n, NEW s \in S PROVE next(k, s) \in S
    <2>1. es[k] \in CatalogEntries
      OBVIOUS
    <2>2. View(es[k]) \in Listed
      BY <2>1 DEF View, Listed, CatalogEntries
    <2> QED
      BY <2>2
  <1> HIDE DEF next
  <1>3. pass \in [1 .. n -> [S -> S]]
    BY <1>2
  <1>4. \E f : Loop(f, n, <<>>, S, pass)
    <2> HIDE DEF n, S, pass
    <2> QED
      BY <1>1, <1>3, LoopExists
  <1>5. PICK f : Loop(f, n, <<>>, S, pass)
    BY <1>4
  <1>6. f \in [0 .. n -> S] /\ f[0] = <<>>
    BY <1>5 DEF Loop
  <1>7. \A k \in 1 .. n : f[k - 1] \in S /\ f[k] = next(k, f[k - 1])
    <2> TAKE k \in 1 .. n
    <2>1. f[k - 1] \in S
      BY <1>6
    <2>2. f[k] = pass[k][f[k - 1]]
      BY <1>5 DEF Loop
    <2> QED
      BY <2>1, <2>2
  <1>8. IsUpto(f)
    BY <1>6, <1>7
  <1> DEFINE g == CHOOSE g : IsUpto(g)
  <1>9. IsUpto(g)
    BY <1>8
  <1>10. Selected(es) = g[n]
    BY DEF Selected, next, IsListed, IsLive, View
  <1> HIDE DEF g
  <1>11. g[0] = <<>> /\ \A k \in 1 .. n : g[k] = next(k, g[k - 1])
    BY <1>9
  <1>12. \A k \in 0 .. n : g[k] \in S
    <2> DEFINE Good == {k \in 0 .. n : g[k] \in S}
    <2>1. 0 \in Good
      <3>1. g[0] \in S /\ 0 \in 0 .. n
        <4> HIDE DEF S, n
        <4> QED
          BY <1>1, <1>11
      <3> QED
        BY <3>1
    <2>2. ASSUME NEW k \in 1 .. n, k - 1 \in Good PROVE k \in Good
      <3>1. g[k - 1] \in S
        BY <2>2
      <3>2. g[k] \in S
        <4> HIDE DEF S, n
        <4> QED
          BY <1>2, <1>11, <3>1
      <3> QED
        BY <3>2
    <2>3. \A k \in 0 .. n : k \in Good
      <3> HIDE DEF Good, n
      <3> QED
        BY <1>1, <2>1, <2>2, Upwards
    <2> QED
      BY <2>3
  <1>13. g \in [0 .. n -> S]
    BY <1>9, <1>12
  <1> QED
    BY <1>10, <1>11, <1>13 DEF next

LEMMA SelectedRanked ==
  ASSUME NEW es \in Seq(CatalogEntries)
  PROVE  /\ Selected(es) \in Seq(Listed)
         /\ Len(Selected(es)) = Cardinality(Passing(es))
         /\ \A i \in Passing(es) : Selected(es)[Rank(Passing(es), i)] = View(es[i])
  <1> DEFINE n == Len(es)
             P == Passing(es)
  <1>1. n \in Nat /\ DOMAIN es = 1 .. n /\ P \subseteq 1 .. n
    BY DEF Passing
  <1>2. PICK f : /\ f \in [0 .. n -> Seq(Listed)] /\ f[0] = <<>>
                 /\ \A k \in 1 .. n :
                      f[k] = IF IsListed(es[k]) THEN Append(f[k - 1], View(es[k])) ELSE f[k - 1]
                 /\ Selected(es) = f[n]
    BY SelectedLoop
  <1>3. \A k \in 1 .. n : k \in P <=> IsListed(es[k])
    BY <1>1 DEF Passing
  <1> HIDE DEF n, P
  <1> DEFINE Ranked(k) == /\ Len(f[k]) = Rank(P, k)
                          /\ \A i \in P : i <= k => f[k][Rank(P, i)] = View(es[i])
             Good == {k \in 0 .. n : Ranked(k)}
  <1>4. 0 \in Good
    <2>1. Len(f[0]) = 0 /\ Rank(P, 0) = 0
      BY <1>1, <1>2, RankTyped
    <2>2. \A i \in P : ~(i <= 0)
      BY <1>1
    <2> QED
      BY <1>1, <2>1, <2>2
  <1>5. ASSUME NEW k \in 1 .. n, k - 1 \in Good PROVE k \in Good
    <2> DEFINE s == f[k - 1]
    <2>1. /\ s \in Seq(Listed) /\ Len(s) = Rank(P, k - 1) /\ Len(s) \in Nat
          /\ \A i \in P : i <= k - 1 => s[Rank(P, i)] = View(es[i])
      BY <1>1, <1>2, <1>5
    <2>2. \A i \in P : i \in Nat /\ i \in 1 .. n /\ (i <= k => i <= k - 1 \/ i = k)
      BY <1>1
    <2>3. CASE k \in P
      <3>1. f[k] = Append(s, View(es[k]))
        BY <1>2, <1>3, <2>3
      <3> HIDE DEF s
      <3>2. Rank(P, k) = Len(s) + 1
        BY <1>1, <2>1, <2>3, RankStep
      <3>3. /\ Len(f[k]) = Len(s) + 1 /\ f[k][Len(s) + 1] = View(es[k])
            /\ \A j \in 1 .. Len(s) : f[k][j] = s[j]
        BY <2>1, <3>1
      <3>4. ASSUME NEW i \in P, i <= k - 1 PROVE f[k][Rank(P, i)] = View(es[i])
        <4>1. Rank(P, i) <= Len(s) /\ Rank(P, i) \in Nat
          <5>1. i \in 0 .. n /\ k - 1 \in 0 .. n
            BY <1>1, <2>2
          <5> QED
            BY <1>1, <2>1, <3>4, <5>1, RankMonotone, RankTyped
        <4>2. Rank(P, i) > 0
          <5>1. 0 \in 0 .. n /\ i \in 0 .. n /\ 0 <= i /\ 0 < i
            BY <1>1, <2>2
          <5>2. Rank(P, 0) < Rank(P, i)
            BY <1>1, <3>4, <5>1, RankMonotone
          <5> QED
            BY <1>1, <5>2, RankTyped
        <4>3. Rank(P, i) \in 1 .. Len(s)
          BY <2>1, <4>1, <4>2
        <4> QED
          BY <2>1, <3>3, <3>4, <4>3
      <3>5. Ranked(k)
        BY <2>2, <3>2, <3>3, <3>4
      <3> QED
        BY <3>5
    <2>4. CASE k \notin P
      <3>1. f[k] = s
        BY <1>2, <1>3, <2>4
      <3> HIDE DEF s
      <3>2. Rank(P, k) = Rank(P, k - 1)
        BY <1>1, <2>4, RankStep
      <3>3. \A i \in P : i <= k => i <= k - 1
        BY <2>2, <2>4
      <3>4. Ranked(k)
        BY <2>1, <3>1, <3>2, <3>3
      <3> QED
        BY <3>4
    <2> QED
      BY <2>3, <2>4
  <1>6. Ranked(n)
    <2>1. \A k \in 0 .. n : k \in Good
      <3> HIDE DEF Good
      <3> QED
        BY <1>1, <1>4, <1>5, Upwards
    <2> QED
      BY <1>1, <2>1
  <1>7. Selected(es) \in Seq(Listed)
    BY <1>1, <1>2
  <1>8. \A i \in P : i <= n
    BY <1>1
  <1>9. Rank(P, n) = Cardinality(P)
    BY <1>1, RankTyped
  <1> QED
    BY <1>2, <1>6, <1>7, <1>8, <1>9 DEF P

(* The scan of a block finds the first entries of that list, as many as    *)
(* there is room for.                                                       *)
LEMMA ScanIsFirst ==
  ASSUME NEW es \in Seq(CatalogEntries), NEW room \in Nat
  PROVE  /\ Scan(es, room).found = FirstOf(room, Selected(es))
         /\ Scan(es, room).full <=> Len(Selected(es)) > room
  <1> DEFINE n    == Len(es)
             good == Passing(es)
             over == {i \in good : Cardinality({j \in good : j < i}) >= room}
             seen == {i \in DOMAIN es : \A j \in over : i < j}
             list == seen \cap good
             nth(k) == CHOOSE i \in list : Rank(list, i) = k
             c == Cardinality(list)
             s == Selected(es)
             f == [k \in 1 .. c |-> View(es[nth(k)])]
  <1>1. Scan(es, room).found = f /\ Scan(es, room).full = (over # {})
    BY DEF Scan, Rank, Passing, View
  <1>2. n \in Nat /\ DOMAIN es = 1 .. n /\ good \subseteq 1 .. n
    BY DEF Passing
  <1>3. /\ s \in Seq(Listed) /\ Len(s) = Cardinality(good)
        /\ \A i \in good : s[Rank(good, i)] = View(es[i])
    BY SelectedRanked
  <1> HIDE DEF n, good, s
  <1>4. /\ Cardinality(good) \in Nat
        /\ \A i : Rank(good, i) \in Nat /\ Rank(good, i) <= Cardinality(good)
    BY <1>2, RankTyped
  <1>5. \A i \in good : i \in over <=> Rank(good, i) > room
    <2> TAKE i \in good
    <2>1. i \in 1 .. n
      BY <1>2
    <2>2. /\ Cardinality({j \in good : j < i}) = Rank(good, i - 1)
          /\ Rank(good, i) = Rank(good, i - 1) + 1
      BY <1>2, <2>1, RankStep
    <2> QED
      BY <1>4, <2>2
  <1>6. over \subseteq good /\ over \subseteq 1 .. n
    BY <1>2
  <1>7. \A i : i \in list <=> i \in good /\ \A j \in over : i < j
    BY <1>2
  <1> HIDE DEF over, seen, list
  <1>8. \A i \in good : i \in list <=> Rank(good, i) <= room
    <2> TAKE i \in good
    <2>1. i \in 1 .. n /\ i \in 0 .. n
      BY <1>2
    <2>2. ASSUME Rank(good, i) <= room, NEW j \in over PROVE i < j
      <3>1. j \in good /\ j \in 1 .. n /\ j \in 0 .. n /\ Rank(good, j) > room
        BY <1>2, <1>5, <1>6
      <3>2. j <= i => Rank(good, j) <= Rank(good, i)
        BY <1>2, <2>1, <3>1, RankMonotone
      <3> QED
        BY <1>4, <2>1, <2>2, <3>1, <3>2
    <2>3. ASSUME i \in list PROVE Rank(good, i) <= room
      <3>1. i \notin over
        <4>1. ~(i < i)
          BY <2>1
        <4> QED
          BY <1>7, <2>3, <4>1
      <3> QED
        BY <1>4, <1>5, <3>1
    <2> QED
      BY <1>7, <2>2, <2>3
  <1>9. list \subseteq good /\ list \subseteq 1 .. n
    BY <1>2, <1>7
  <1>10. \A i \in list : Rank(list, i) = Rank(good, i)
    <2> TAKE i \in list
    <2>1. \A j \in good : j <= i => j \in list
      <3> TAKE j \in good
      <3>1. j \in 0 .. n /\ i \in 0 .. n /\ i \in good
        BY <1>2, <1>9
      <3>2. j <= i => Rank(good, j) <= Rank(good, i)
        BY <1>2, <3>1, RankMonotone
      <3> QED
        BY <1>4, <1>8, <3>1, <3>2
    <2>2. {j \in list : j <= i} = {j \in good : j <= i}
      BY <1>9, <2>1, Zenon
    <2> QED
      BY <2>2 DEF Rank
  <1>11. c \in Nat /\ c <= Cardinality(good) /\ \A i : Rank(list, i) <= c /\ Rank(list, i) \in Nat
    <2>1. IsFiniteSet(good) /\ IsFiniteSet(list)
      BY <1>2, <1>9, RankTyped
    <2>2. Cardinality(list) <= Cardinality(good)
      BY <1>9, <2>1, FS_Subset
    <2> QED
      BY <1>2, <1>9, <2>2, RankTyped
  <1>12. ASSUME NEW k \in 1 .. c PROVE nth(k) \in list /\ Rank(list, nth(k)) = k
    <2>1. \E i \in list : Rank(list, i) = k
      <3> HIDE DEF nth
      <3> QED BY <1>2, <1>9, NthExists
    <2> QED
      BY <2>1
  <1> HIDE DEF nth, c
  <1>13. c <= room
    <2>1. CASE c = 0
      BY <2>1
    <2>2. CASE c # 0
      <3>1. c \in 1 .. c
        BY <1>11, <2>2
      <3>2. nth(c) \in list /\ Rank(list, nth(c)) = c
        BY <1>12, <3>1
      <3> QED
        BY <1>8, <1>9, <1>10, <3>2
    <2> QED
      BY <2>1, <2>2
  <1>14. ASSUME NEW k \in 1 .. Cardinality(good), k <= room PROVE k <= c
    <2>1. PICK i \in good : Rank(good, i) = k
      BY <1>2, NthExists
    <2>2. i \in list
      BY <1>8, <1>14, <2>1
    <2> QED
      BY <1>10, <1>11, <2>1, <2>2
  <1>15. c = IF Cardinality(good) < room THEN Cardinality(good) ELSE room
    <2> DEFINE m == IF Cardinality(good) < room THEN Cardinality(good) ELSE room
    <2>1. m \in Nat /\ m <= room /\ m <= Cardinality(good)
      BY <1>4
    <2>2. m # 0 => m <= c
      <3>1. m # 0 => m \in 1 .. Cardinality(good)
        BY <1>4, <2>1
      <3> QED
        BY <1>14, <2>1, <3>1
    <2>3. c <= m
      BY <1>11, <1>13
    <2> QED
      BY <1>11, <2>1, <2>2, <2>3
  <1>16. over # {} <=> Cardinality(good) > room
    <2>1. ASSUME NEW i \in over PROVE Cardinality(good) > room
      <3>1. i \in good /\ Rank(good, i) > room
        BY <1>5, <1>6
      <3> QED
        BY <1>4, <3>1
    <2>2. ASSUME Cardinality(good) > room PROVE over # {}
      <3>1. room + 1 \in 1 .. Cardinality(good)
        BY <1>4, <2>2
      <3>2. PICK i \in good : Rank(good, i) = room + 1
        BY <1>2, <3>1, NthExists
      <3>3. i \in over
        BY <1>5, <3>2
      <3> QED
        BY <3>3
    <2> QED
      BY <2>1, <2>2
  <1>17. f = FirstOf(room, s)
    <2>1. FirstOf(room, s) = SubSeq(s, 1, c)
      BY <1>3, <1>15 DEF FirstOf
    <2>2. SubSeq(s, 1, c) = [k \in 1 .. c |-> s[k]]
      <3>1. c \in Nat /\ c <= Len(s)
        BY <1>3, <1>11
      <3> QED
        BY <1>3, <3>1
    <2>3. \A k \in 1 .. c : s[k] = View(es[nth(k)])
      <3> TAKE k \in 1 .. c
      <3>1. nth(k) \in good /\ Rank(good, nth(k)) = k
        BY <1>9, <1>10, <1>12
      <3> QED
        BY <1>3, <3>1
    <2> QED
      BY <2>1, <2>2, <2>3
  <1> QED
    BY <1>1, <1>3, <1>16, <1>17 DEF s

-----------------------------------------------------------------------------
(* A catalog's blocks one after the other. *)
Glued(f, s, T) ==
  /\ f \in [0 .. Len(s) -> Seq(T)] /\ f[0] = <<>>
  /\ \A k \in 1 .. Len(s) : f[k] = f[k - 1] \o s[k]

LEMMA FlattenLoop ==
  ASSUME NEW T, NEW s \in Seq(Seq(T))
  PROVE  \E f : Glued(f, s, T) /\ FlattenSeq(s) = f[Len(s)]
  <1> DEFINE n == Len(s)
             S == Seq(T)
             next(k, t) == t \o s[k]
             pass == [k \in 1 .. n |-> [t \in S |-> next(k, t)]]
             IsFlat(f) == f = [k \in 1 .. n |-> IF k = 1 THEN s[k] ELSE f[k - 1] \o s[k]]
  <1>1. n \in Nat /\ <<>> \in S /\ \A k \in 1 .. n : s[k] \in S
    OBVIOUS
  <1>2. \A k \in 1 .. n : \A t \in S : next(k, t) \in S
    BY <1>1
  <1> HIDE DEF next
  <1>2a. pass \in [1 .. n -> [S -> S]]
    BY <1>2
  <1>3. PICK f : Loop(f, n, <<>>, S, pass)
    <2>1. \E f : Loop(f, n, <<>>, S, pass)
      <3> HIDE DEF n, S, pass
      <3> QED
        BY <1>1, <1>2a, LoopExists
    <2> QED
      BY <2>1
  <1>4. f \in [0 .. n -> S] /\ f[0] = <<>>
    BY <1>3 DEF Loop
  <1>5. \A k \in 1 .. n : f[k - 1] \in S /\ f[k] = next(k, f[k - 1])
    <2> TAKE k \in 1 .. n
    <2>1. f[k - 1] \in S
      <3>1. k - 1 \in 0 .. n
        BY <1>1
      <3> HIDE DEF S, n
      <3> QED
        BY <1>4, <3>1
    <2>2. f[k] = pass[k][f[k - 1]]
      BY <1>3 DEF Loop
    <2> QED
      BY <2>1, <2>2
  <1>5a. \A k \in 1 .. n : f[k - 1] \in S /\ f[k] = f[k - 1] \o s[k]
    BY <1>5 DEF next
  <1>5b. 1 \in 1 .. n => f[1] = s[1]
    <2>1. ASSUME 1 \in 1 .. n PROVE f[1] = s[1]
      <3>1. f[1] = f[1 - 1] \o s[1] /\ s[1] \in Seq(T)
        BY <1>1, <1>5a, <2>1
      <3>2. f[1 - 1] = <<>>
        BY <1>4
      <3> QED
        BY <3>1, <3>2
    <2> QED
      BY <2>1
  <1> DEFINE h == [k \in 1 .. n |-> f[k]]
             g == CHOOSE g : IsFlat(g)
  <1>6. IsFlat(h)
    <2>1. ASSUME NEW k \in 1 .. n
          PROVE  h[k] = IF k = 1 THEN s[k] ELSE h[k - 1] \o s[k]
      <3>1. CASE k = 1
        BY <1>5b, <3>1
      <3>2. CASE k # 1
        <4>1. k - 1 \in 1 .. n
          BY <1>1, <3>2
        <4> QED
          BY <1>5a, <3>2, <4>1
      <3> QED
        BY <3>1, <3>2
    <2> QED
      BY <2>1
  <1>7. IsFlat(g)
    BY <1>6
  <1>8. n # 0 => FlattenSeq(s) = g[n]
    BY DEF FlattenSeq
  <1>9. n = 0 => FlattenSeq(s) = <<>>
    BY DEF FlattenSeq
  <1> HIDE DEF g, h
  <1>10. \A k \in 1 .. n : g[k] = IF k = 1 THEN s[k] ELSE g[k - 1] \o s[k]
    BY <1>7
  <1>11. \A k \in 0 .. n : k = 0 \/ g[k] = f[k]
    <2> DEFINE Good == {k \in 0 .. n : k = 0 \/ g[k] = f[k]}
    <2>1. 0 \in Good
      BY <1>1
    <2>2. ASSUME NEW k \in 1 .. n, k - 1 \in Good PROVE k \in Good
      <3>1. CASE k = 1
        <4>1. g[1] = s[1]
          BY <1>10, <3>1
        <4> QED
          BY <1>5b, <3>1, <4>1
      <3>2. CASE k # 1
        <4>1. g[k - 1] = f[k - 1]
          BY <1>1, <2>2, <3>2
        <4>2. g[k] = g[k - 1] \o s[k] /\ f[k] = f[k - 1] \o s[k]
          BY <1>5a, <1>10, <3>2
        <4>3. g[k] = f[k]
          BY <4>1, <4>2
        <4> QED
          BY <4>3
      <3> QED
        BY <3>1, <3>2
    <2>3. \A k \in 0 .. n : k \in Good
      <3> HIDE DEF Good, n
      <3> QED
        BY <1>1, <2>1, <2>2, Upwards
    <2> QED
      BY <2>3
  <1>12. FlattenSeq(s) = f[n]
    BY <1>1, <1>4, <1>8, <1>9, <1>11
  <1> QED
    BY <1>4, <1>5a, <1>12 DEF Glued

LEMMA FlattenOneMore ==
  ASSUME NEW T, NEW s \in Seq(Seq(T)), NEW t \in Seq(Seq(T)),
         Len(t) = Len(s) + 1, \A k \in 1 .. Len(s) : t[k] = s[k]
  PROVE  FlattenSeq(t) = FlattenSeq(s) \o t[Len(t)] /\ FlattenSeq(t) \in Seq(T)
  <1>1. PICK f : Glued(f, s, T) /\ FlattenSeq(s) = f[Len(s)]
    BY FlattenLoop
  <1>2. PICK g : Glued(g, t, T) /\ FlattenSeq(t) = g[Len(t)]
    BY FlattenLoop
  <1> DEFINE n == Len(s)
             Good == {k \in 0 .. n : g[k] = f[k]}
  <1>3. n \in Nat /\ Len(t) = n + 1
    OBVIOUS
  <1>4. 0 \in Good
    BY <1>1, <1>2, <1>3 DEF Glued
  <1>5. ASSUME NEW k \in 1 .. n, k - 1 \in Good PROVE k \in Good
    <2>0. f[k] = f[k - 1] \o s[k]
      BY <1>1, Zenon DEF Glued
    <2>1. s[k] = t[k] /\ g[k - 1] = f[k - 1]
      BY <1>5
    <2>2. k \in 1 .. Len(t)
      BY <1>3
    <2>3. g[k] = g[k - 1] \o t[k]
      BY <1>2, <2>2, Zenon DEF Glued
    <2> QED
      <3>1. g[k] = f[k]
        BY <2>0, <2>1, <2>3
      <3>2. k \in 0 .. n
        BY <1>3
      <3> QED
        BY <3>1, <3>2
  <1>6. g[n] = f[n]
    <2>1. \A k \in 0 .. n : k \in Good
      <3> HIDE DEF Good, n
      <3> QED
        BY <1>3, <1>4, <1>5, Upwards
    <2> QED
      BY <1>3, <2>1
  <1>7. n + 1 \in 1 .. Len(t) /\ (n + 1) - 1 = n
    BY <1>3
  <1>8. g[n + 1] = g[n] \o t[n + 1]
    <2>1. g[n + 1] = g[(n + 1) - 1] \o t[n + 1]
      BY <1>2, <1>7, Zenon DEF Glued
    <2> QED
      BY <1>7, <2>1
  <1>9. g[n + 1] \in Seq(T)
    BY <1>2, <1>7 DEF Glued
  <1> QED
    BY <1>1, <1>2, <1>3, <1>6, <1>8, <1>9

Chosen(root, j) == Selected(Entries(BlockOf(root, j - 1)))
Blocks(root, n) == [j \in 1 .. n |-> Chosen(root, j)]

LEMMA ListingTyped ==
  ASSUME vol \in Volumes, NEW root, NEW n \in Nat
  PROVE  Blocks(root, n) \in Seq(Seq(Listed)) /\ Len(Blocks(root, n)) = n
  <1>1. ASSUME NEW j PROVE Chosen(root, j) \in Seq(Listed)
    <2>1. Entries(BlockOf(root, j - 1)) \in Seq(CatalogEntries)
      BY EntriesTyped
    <2> QED
      BY <2>1, SelectedRanked DEF Chosen
  <1> DEFINE T == Seq(Listed)
  <1>2. \A j \in 1 .. n : Chosen(root, j) \in T
    BY <1>1
  <1> HIDE DEF T
  <1>3. /\ [j \in 1 .. n |-> Chosen(root, j)] \in Seq(T)
        /\ Len([j \in 1 .. n |-> Chosen(root, j)]) = n
    BY <1>2
  <1> QED
    BY <1>3 DEF T, Blocks

LEMMA ListingGrows ==
  ASSUME vol \in Volumes, NEW root, NEW n \in Nat
  PROVE  /\ Listing(root, 0) = <<>>
         /\ Listing(root, n + 1) = Listing(root, n) \o Selected(Entries(BlockOf(root, n)))
  <1> DEFINE s == Blocks(root, n)
             t == Blocks(root, n + 1)
  <1>1. /\ s \in Seq(Seq(Listed)) /\ t \in Seq(Seq(Listed))
        /\ Len(s) = n /\ Len(t) = n + 1
    <2>1. n + 1 \in Nat
      OBVIOUS
    <2> QED
      BY <2>1, ListingTyped
  <1>2. \A k \in 1 .. n : t[k] = s[k]
    BY DEF Blocks
  <1>3. t[n + 1] = Selected(Entries(BlockOf(root, n)))
    <2>1. n + 1 \in 1 .. n + 1 /\ (n + 1) - 1 = n
      OBVIOUS
    <2>2. t[n + 1] = Chosen(root, n + 1)
      BY <2>1 DEF Blocks
    <2> QED
      BY <2>1, <2>2 DEF Chosen
  <1>4. Listing(root, n) = FlattenSeq(s) /\ Listing(root, n + 1) = FlattenSeq(t)
    BY DEF Listing, Chosen, Blocks
  <1> HIDE DEF s, t
  <1>5. FlattenSeq(t) = FlattenSeq(s) \o t[Len(t)]
    BY <1>1, <1>2, FlattenOneMore
  <1>6. Listing(root, 0) = <<>>
    <2> DEFINE e == Blocks(root, 0)
    <2>1. e \in Seq(Seq(Listed)) /\ Len(e) = 0
      BY ListingTyped
    <2>2. Listing(root, 0) = FlattenSeq(e)
      BY DEF Listing, Chosen, Blocks
    <2> HIDE DEF e
    <2> QED
      BY <2>1, <2>2 DEF FlattenSeq
  <1> QED
    BY <1>1, <1>3, <1>4, <1>5, <1>6

-----------------------------------------------------------------------------
(* A block that is read where pointers are pointers is the one the inode   *)
(* names.                                                                   *)
LEMMA FetchHeld ==
  ASSUME vol \in Volumes, NEW inode \in Inodes, PointersHeld(inode),
         NEW i \in 0 .. inode.block_count - 1, NEW f \in Fetches(inode, i), f.block # 0
  PROVE  f.block = BlockOf(inode, i) /\ IsMapped(inode, i)
  <1> DEFINE p == BlockOf(inode, i)
             x == inode.indirect_block
  <1>1. /\ DIRECT_BLOCKS \in Nat \ {0} /\ POINTERS \in Nat \ {0} /\ DISK_BLOCKS \in Nat
        /\ inode.block_count \in Nat /\ i \in Nat /\ i < inode.block_count
        /\ inode.direct_blocks \in [1 .. DIRECT_BLOCKS -> Nat]
    BY OwfsAssumption DEF Inodes
  <1>2. PICK m \in BlockMap(inode, i) : FetchOf(m, f)
    BY Fetched
  <1>3. m.block # 0 /\ TRUE \in ReadOk(m.block) /\ f.block = m.block /\ m # Unreadable("map")
    <2>1. m.block = 0 => f.block = 0
      BY <1>2 DEF FetchOf
    <2>2. f # Unreadable("read") /\ (m = Unreadable("map") => m.block = 0)
      BY DEF Unreadable
    <2>3. m.block # 0 /\ TRUE \in ReadOk(m.block) /\ f = Staged(m)
      BY <1>2, <2>1, <2>2 DEF FetchOf
    <2>4. m = Unreadable("map") \/ \E q, b : m = Mapped(q, b)
      BY DEF BlockMap
    <2>5. f.block = m.block
      BY <2>2, <2>3, <2>4 DEF Staged, Mapped
    <2> QED
      BY <2>2, <2>3, <2>5
  <1>4. CASE i < DIRECT_BLOCKS
    <2>1. m = Mapped(p, buf)
      BY <1>4 DEF BlockMap, BlockOf
    <2>2. p \in Nat
      BY <1>1, <1>4 DEF BlockOf
    <2>3. m.block = p
      BY <2>1 DEF Mapped
    <2>4. p < DISK_BLOCKS
      BY <1>3, <2>2, <2>3, ReadFits
    <2>5. p \in 1 .. DISK_BLOCKS - 1
      BY <1>1, <1>3, <2>2, <2>3, <2>4
    <2> QED
      BY <1>1, <1>3, <1>4, <2>3, <2>5 DEF IsMapped
  <1>5. CASE ~(i < DIRECT_BLOCKS)
    <2>1. x # 0
      <3>1. x = 0 => m = Mapped(0, buf)
        BY <1>5 DEF BlockMap
      <3> QED
        BY <1>3, <3>1 DEF Mapped
    <2>2. /\ inode.block_count <= DIRECT_BLOCKS + POINTERS
          /\ x \in DOMAIN vol.pointers
      BY <1>1, <1>5, <2>1 DEF PointersHeld
    <2>3. i < DIRECT_BLOCKS + POINTERS /\ i - DIRECT_BLOCKS \in Nat /\ i - DIRECT_BLOCKS < POINTERS
      BY <1>1, <1>5, <2>2
    <2>4. Pointer(x, i - DIRECT_BLOCKS) = {p}
      BY <1>5, <2>2, <2>3 DEF Pointer, BlockOf
    <2>5. p \in Nat
      BY <2>3, <2>4, PointerTyped
    <2>6. \E b : m = Mapped(p, b)
      <3> HIDE DEF p
      <3> QED
        BY <1>3, <1>5, <2>1, <2>4 DEF BlockMap
    <2>7. m.block = p
      BY <2>6 DEF Mapped
    <2>8. p < DISK_BLOCKS
      BY <1>3, <2>5, <2>7, ReadFits
    <2>9. p \in 1 .. DISK_BLOCKS - 1
      BY <1>1, <1>3, <2>5, <2>7, <2>8
    <2> QED
      BY <1>3, <2>2, <2>3, <2>7, <2>9 DEF IsMapped
  <1> QED
    BY <1>4, <1>5

LEMMA FirstOfJoined ==
  ASSUME NEW T, NEW s \in Seq(T), NEW t \in Seq(T), NEW n \in Nat, Len(s) <= n
  PROVE  /\ FirstOf(n, s) = s
         /\ Len(t) > n - Len(s) => /\ s \o FirstOf(n - Len(s), t) = FirstOf(n, s \o t)
                                   /\ Len(s \o FirstOf(n - Len(s), t)) = n
         /\ ~(Len(t) > n - Len(s)) => s \o FirstOf(n - Len(s), t) = s \o t
  <1>1. Len(s) \in Nat /\ Len(t) \in Nat /\ s \o t \in Seq(T) /\ Len(s \o t) = Len(s) + Len(t)
    OBVIOUS
  <1> DEFINE m == n - Len(s)
  <1>2. m \in Nat /\ n = Len(s) + m
    BY <1>1
  <1>3. FirstOf(n, s) = s
    BY <1>1 DEF FirstOf
  <1>4. ASSUME ~(Len(t) > m) PROVE FirstOf(m, t) = t
    <2>1. FirstOf(m, t) = SubSeq(t, 1, Len(t))
      BY <1>1, <1>2, <1>4 DEF FirstOf
    <2> QED
      BY <2>1
  <1>5. ASSUME Len(t) > m
        PROVE  s \o FirstOf(m, t) = FirstOf(n, s \o t) /\ Len(s \o FirstOf(m, t)) = n
    <2> DEFINE a == SubSeq(t, 1, m)
               b == SubSeq(s \o t, 1, n)
    <2>1. FirstOf(m, t) = a
      BY <1>1, <1>2, <1>5 DEF FirstOf
    <2>2. FirstOf(n, s \o t) = b
      <3>1. ~(Len(s \o t) < n)
        BY <1>1, <1>2, <1>5
      <3> QED
        BY <3>1 DEF FirstOf
    <2>3. a \in Seq(T) /\ Len(a) = m /\ \A k \in 1 .. m : a[k] = t[k]
      BY <1>1, <1>2, <1>5
    <2>4. b \in Seq(T) /\ Len(b) = n /\ \A k \in 1 .. n : b[k] = (s \o t)[k]
      <3> DEFINE u == s \o t
      <3>1. u \in Seq(T) /\ n <= Len(u)
        BY <1>1, <1>2, <1>5
      <3> HIDE DEF u
      <3>2. SubSeq(u, 1, n) \in Seq(T) /\ Len(SubSeq(u, 1, n)) = n
            /\ \A k \in 1 .. n : SubSeq(u, 1, n)[k] = u[k]
        BY <3>1
      <3> QED
        BY <3>2 DEF u
    <2> HIDE DEF a, b
    <2>5. s \o a \in Seq(T) /\ Len(s \o a) = n
      BY <1>1, <1>2, <2>3
    <2>6. \A k \in 1 .. n : (s \o a)[k] = (s \o t)[k]
      BY <1>1, <1>2, <1>5, <2>3
    <2>7. s \o a = b
      <3> DEFINE v == s \o a
      <3>1. v \in Seq(T) /\ Len(v) = n /\ \A k \in 1 .. n : v[k] = b[k]
        BY <2>4, <2>5, <2>6
      <3> HIDE DEF v
      <3>2. v = b
        BY <2>4, <3>1
      <3> QED
        BY <3>2 DEF v
    <2> QED
      BY <2>1, <2>2, <2>5, <2>7
  <1> QED
    BY <1>3, <1>4, <1>5

-----------------------------------------------------------------------------
(* The catalog.  While the walk is on, the list is that of the blocks it   *)
(* has passed.                                                              *)
HeldUpto(root, n, list) ==
  PointersHeld(root) => /\ \A j \in 0 .. n - 1 : IsMapped(root, j)
                        /\ list = Listing(root, n)

HeldAll(root, list, total) ==
  PointersHeld(root) =>
    \E n \in 0 .. root.block_count :
      /\ \A j \in 0 .. n - 1 : IsMapped(root, j)
      /\ list = FirstOf(MENU_MAX, Listing(root, n))
      /\ n = root.block_count \/ total = MENU_MAX

CatalogInv ==
  /\ dpc \in {"start", "probed"} => entries = <<>>
  /\ dpc = "enumerating" => /\ ino = vol.inodes[0] /\ idx <= ino.block_count
                            /\ HeldUpto(ino, idx, entries)
  /\ dpc \in {"listed", "loading", "loaded"} /\ found >= 0
       => Len(entries) = found /\ HeldAll(vol.inodes[0], entries, found)

LEMMA SameHeld ==
  ASSUME vol' = vol, NEW root, NEW n, NEW list
  PROVE  /\ HeldUpto(root, n, list)' <=> HeldUpto(root, n, list)
         /\ HeldAll(root, list, n)' <=> HeldAll(root, list, n)
  BY DEF HeldUpto, HeldAll, PointersHeld, IsMapped, Listing, BlockOf, Entries

(* Steps that leave the list alone. *)
LEMMA ListRests ==
  ASSUME CatalogInv, UNCHANGED <<vol, entries, found>>,
         \/ dpc \in {"listed", "loading", "loaded"} /\ dpc' \in {"listed", "loading", "loaded"}
         \/ dpc \in {"start", "probed"} /\ dpc' \in {"start", "probed"}
         \/ UNCHANGED <<dpc, ino, idx>>
  PROVE  CatalogInv'
  <1>1. PICK r, n, l, t, o : r = vol.inodes[0] /\ n = idx /\ l = entries /\ t = found
                                /\ o = ino
    OBVIOUS
  <1>2. /\ HeldAll(r, l, t)' <=> HeldAll(r, l, t)
        /\ HeldUpto(o, n, l)' <=> HeldUpto(o, n, l)
    BY SameHeld
  <1>3. /\ HeldAll(vol.inodes[0], entries, found)' <=> HeldAll(r, l, t)'
        /\ HeldAll(vol.inodes[0], entries, found) <=> HeldAll(r, l, t)
    BY <1>1 DEF HeldAll, PointersHeld, IsMapped, Listing, BlockOf, Entries
  <1>4. UNCHANGED <<ino, idx>> => (HeldUpto(ino, idx, entries)' <=> HeldUpto(o, n, l)')
    BY <1>1 DEF HeldUpto, PointersHeld, IsMapped, Listing, BlockOf, Entries
  <1>5. HeldUpto(ino, idx, entries) <=> HeldUpto(o, n, l)
    BY <1>1
  <1> QED
    BY <1>2, <1>3, <1>4, <1>5 DEF CatalogInv

LEMMA InitCatalogInv == Init => CatalogInv
  BY DEF Init, CatalogInv

LEMMA ProbeCatalog == CatalogInv /\ Probe => CatalogInv'
  <1> SUFFICES ASSUME CatalogInv, Probe PROVE CatalogInv'
    OBVIOUS
  <1>1. UNCHANGED <<vol, entries, found>> /\ dpc = "start" /\ dpc' = "probed"
    BY DEF Probe
  <1> QED
    BY <1>1, ListRests

LEMMA EnumerateCatalog == IInv /\ DataInv /\ CatalogInv /\ Enumerate => CatalogInv'
  <1> SUFFICES ASSUME IInv, DataInv, CatalogInv, Enumerate PROVE CatalogInv'
    OBVIOUS
  <1>1. /\ UNCHANGED <<vol, entries>> /\ entries = <<>> /\ vol \in Volumes
    BY DEF Enumerate, CatalogInv, IInv, VolumeSound
  <1>2. PICK r \in InodeReads(0) :
          /\ ino' = r.inode /\ idx' = 0
          /\ \/ dpc' = "listed" /\ found' \in {-1, -2}
             \/ r.outcome = "ok" /\ dpc' = "enumerating"
    BY DEF Enumerate, EnumerateReturns
  <1>3. CASE dpc' = "listed" /\ found' \in {-1, -2}
    BY <1>3 DEF CatalogInv
  <1>4. CASE r.outcome = "ok" /\ dpc' = "enumerating"
    <2>1. r.inode = vol.inodes[0] /\ r.inode \in Inodes
      BY <1>1, <1>4, InodeReadFacts
    <2>2. PICK root : root = r.inode
      OBVIOUS
    <2>3. root.block_count \in Nat
      BY <2>1, <2>2 DEF Inodes
    <2>4. Listing(root, 0) = <<>>
      BY <1>1, ListingGrows
    <2>5. HeldUpto(root, 0, <<>>)
      BY <2>4 DEF HeldUpto
    <2>6. HeldUpto(root, 0, <<>>)'
      BY <1>1, <2>5, SameHeld
    <2>7. HeldUpto(ino, idx, entries)'
      BY <1>1, <1>2, <2>2, <2>6
         DEF HeldUpto, PointersHeld, IsMapped, Listing, BlockOf, Entries
    <2> QED
      BY <1>1, <1>2, <1>4, <2>1, <2>2, <2>3, <2>7 DEF CatalogInv
  <1> QED
    BY <1>2, <1>3, <1>4

LEMMA EnumerateBlockCatalog == IInv /\ DataInv /\ CatalogInv /\ EnumerateBlock => CatalogInv'
  <1> SUFFICES ASSUME IInv, DataInv, CatalogInv, EnumerateBlock PROVE CatalogInv'
    OBVIOUS
  <1>1. /\ UNCHANGED <<vol, ino>> /\ dpc = "enumerating" /\ vol \in Volumes
        /\ MENU_MAX \in Nat /\ entries \in Seq(Listed) /\ Len(entries) <= MENU_MAX
        /\ idx \in Nat /\ idx < ino.block_count /\ ino \in Inodes
    BY Sizes DEF EnumerateBlock, DataInv, TypeOK, Listed, IInv, VolumeSound, InodeSound
  <1>2. PICK root, n, list : root = ino /\ n = idx /\ list = entries
    OBVIOUS
  <1>3. /\ root = vol.inodes[0] /\ root.block_count \in Nat /\ n \in 0 .. root.block_count - 1
        /\ HeldUpto(root, n, list)
    BY <1>1, <1>2 DEF CatalogInv, Inodes
  <1>4. PICK f \in Fetches(ino, idx) :
          \/ /\ f.block = 0
             /\ EnumerateReturns(IF f.at = "map" THEN -3 ELSE -4, f.raised)
          \/ /\ f.block # 0
             /\ LET scan == Scan(Entries(f.block), Room) IN
                /\ entries' = entries \o scan.found
                /\ \/ scan.full /\ EnumerateReturns(Len(entries'), scan.raised)
                   \/ ~scan.full /\ idx' = idx + 1 /\ UNCHANGED <<dpc, found>>
    BY DEF EnumerateBlock, NextCatalogBlock
  <1>5. CASE f.block = 0 /\ EnumerateReturns(IF f.at = "map" THEN -3 ELSE -4, f.raised)
    BY <1>5 DEF CatalogInv, EnumerateReturns
  <1>6. CASE f.block # 0
    <2> DEFINE block == Selected(Entries(f.block))
               room == MENU_MAX - Len(list)
    <2>1. block \in Seq(Listed) /\ room \in Nat /\ list \in Seq(Listed) /\ Len(list) <= MENU_MAX
      BY <1>1, <1>2, EntriesTyped, SelectedRanked
    <2>2. /\ Scan(Entries(f.block), Room).found = FirstOf(room, block)
          /\ Scan(Entries(f.block), Room).full <=> Len(block) > room
      BY <1>1, <1>2, <2>1, EntriesTyped, ScanIsFirst DEF Room
    <2>3. entries' = list \o FirstOf(room, block)
          /\ \/ /\ Len(block) > room /\ dpc' = "listed" /\ found' = Len(entries')
             \/ /\ ~(Len(block) > room) /\ idx' = n + 1 /\ dpc' = "enumerating"
      BY <1>1, <1>2, <1>4, <1>6, <2>2 DEF EnumerateReturns
    <2>4. ASSUME PointersHeld(root)
          PROVE  /\ Listing(root, n + 1) = list \o block
                 /\ \A j \in 0 .. (n + 1) - 1 : IsMapped(root, j)
      <3>1. f.block = BlockOf(root, n) /\ IsMapped(root, n)
        BY <1>1, <1>2, <1>3, <1>6, <2>4, FetchHeld
      <3>2. list = Listing(root, n) /\ \A j \in 0 .. n - 1 : IsMapped(root, j)
        BY <1>3, <2>4 DEF HeldUpto
      <3>3. Listing(root, n + 1) = list \o block
        <4>1. n \in Nat /\ vol \in Volumes
          BY <1>1, <1>3
        <4>2. Listing(root, n + 1) = Listing(root, n) \o Selected(Entries(BlockOf(root, n)))
          BY <4>1, ListingGrows
        <4>3. block = Selected(Entries(BlockOf(root, n)))
          BY <3>1
        <4> HIDE DEF block
        <4> QED
          BY <4>2, <4>3, <3>2
      <3>4. \A j \in 0 .. (n + 1) - 1 : j \in 0 .. n - 1 \/ j = n
        BY <1>3
      <3> QED
        BY <3>1, <3>2, <3>3, <3>4
    <2> HIDE DEF block, room
    <2>5. /\ Len(block) > room => /\ list \o FirstOf(room, block) = FirstOf(MENU_MAX, list \o block)
                                  /\ Len(list \o FirstOf(room, block)) = MENU_MAX
          /\ ~(Len(block) > room) => list \o FirstOf(room, block) = list \o block
      BY <1>1, <2>1, FirstOfJoined DEF room
    <2>6. n + 1 \in 0 .. root.block_count
      BY <1>3
    <2>7. CASE Len(block) > room /\ dpc' = "listed" /\ found' = Len(entries')
      <3>1. found' = MENU_MAX
        BY <2>3, <2>5, <2>7
      <3>2. PICK after : after = list \o FirstOf(room, block)
        OBVIOUS
      <3>3. HeldAll(root, after, MENU_MAX)
        BY <2>4, <2>5, <2>6, <2>7, <3>2 DEF HeldAll
      <3>4. HeldAll(root, after, MENU_MAX)'
        BY <1>1, <3>3, SameHeld
      <3>5. HeldAll(vol.inodes[0], entries, found)'
        BY <1>1, <1>3, <2>3, <3>1, <3>2, <3>4
           DEF HeldAll, PointersHeld, IsMapped, Listing, BlockOf, Entries
      <3> QED
        BY <2>7, <3>5 DEF CatalogInv
    <2>8. CASE ~(Len(block) > room) /\ idx' = n + 1 /\ dpc' = "enumerating"
      <3>1. PICK after : after = list \o block
        OBVIOUS
      <3>2. HeldUpto(root, n + 1, after)
        BY <2>4, <3>1 DEF HeldUpto
      <3>3. PICK m : m = n + 1
        OBVIOUS
      <3>4. HeldUpto(root, m, after)'
        BY <1>1, <3>2, <3>3, SameHeld
      <3>5. HeldUpto(ino, idx, entries)'
        BY <1>1, <1>2, <2>3, <2>5, <2>8, <3>1, <3>3, <3>4
           DEF HeldUpto, PointersHeld, IsMapped, Listing, BlockOf, Entries
      <3> QED
        BY <1>1, <1>2, <1>3, <2>6, <2>8, <3>5 DEF CatalogInv
    <2> QED
      BY <2>3, <2>7, <2>8
  <1> QED
    BY <1>4, <1>5, <1>6

LEMMA EnumerateEndCatalog == IInv /\ DataInv /\ CatalogInv /\ EnumerateEnd => CatalogInv'
  <1> SUFFICES ASSUME IInv, DataInv, CatalogInv, EnumerateEnd PROVE CatalogInv'
    OBVIOUS
  <1>1. /\ UNCHANGED <<vol, entries, ino, idx>> /\ dpc = "enumerating" /\ dpc' = "listed"
        /\ found' = Len(entries) /\ MENU_MAX \in Nat
        /\ entries \in Seq(Listed) /\ Len(entries) <= MENU_MAX
        /\ idx \in Nat /\ idx >= ino.block_count /\ ino \in Inodes
    BY Sizes DEF EnumerateEnd, EnumerateReturns, DataInv, TypeOK, Listed, IInv, InodeSound
  <1>2. PICK root, n, list, total : root = ino /\ n = idx /\ list = entries /\ total = found'
    OBVIOUS
  <1>3. /\ root = vol.inodes[0] /\ root.block_count \in Nat /\ n = root.block_count
        /\ HeldUpto(root, n, list)
    BY <1>1, <1>2 DEF CatalogInv, Inodes
  <1>4. FirstOf(MENU_MAX, list) = list
    BY <1>1, <1>2, FirstOfJoined
  <1>5. HeldAll(root, list, total)
    <2>1. n \in 0 .. root.block_count
      BY <1>3
    <2> QED
      BY <1>3, <1>4, <2>1 DEF HeldAll, HeldUpto
  <1>6. HeldAll(root, list, total)'
    BY <1>1, <1>5, SameHeld
  <1>7. HeldAll(vol.inodes[0], entries, found)'
    BY <1>1, <1>2, <1>3, <1>6
       DEF HeldAll, PointersHeld, IsMapped, Listing, BlockOf, Entries
  <1> QED
    BY <1>1, <1>7 DEF CatalogInv

LEMMA LoadCatalog ==
  CatalogInv /\ ((\E num : LoadFile(num)) \/ LoadBlock \/ LoadEnd) => CatalogInv'
  <1> SUFFICES ASSUME CatalogInv, (\E num : LoadFile(num)) \/ LoadBlock \/ LoadEnd
               PROVE  CatalogInv'
    OBVIOUS
  <1>1. UNCHANGED <<vol, entries, found>>
    BY DEF LoadFile, LoadBlock, LoadEnd
  <1>2. dpc \in {"listed", "loading", "loaded"} /\ dpc' \in {"listed", "loading", "loaded"}
    BY DEF LoadFile, LoadBlock, LoadEnd, LoadReturns
  <1> QED
    BY <1>1, <1>2, ListRests

LEMMA CatalogInvariant == Spec => [](IInv /\ DataInv /\ CatalogInv)
  <1>1. IInv /\ DataInv /\ CatalogInv /\ [Next]_vars => CatalogInv'
    <2> SUFFICES ASSUME IInv, DataInv, CatalogInv, [Next]_vars PROVE CatalogInv'
      OBVIOUS
    <2>1. CASE UNCHANGED vars
      BY <2>1, ListRests DEF vars
    <2> QED
      BY <2>1, ProbeCatalog, EnumerateCatalog, EnumerateBlockCatalog, EnumerateEndCatalog,
         LoadCatalog DEF Next, Step
  <1> QED
    BY <1>1, InitCatalogInv, DriverInvariant, DriverData, PTL DEF Spec

(* The menu is offered the catalog: all its live entries with a matching   *)
(* checksum in order, or as many as the list takes, and a list cut short   *)
(* by a fault has no count (owfs.c:230-279).                                *)
THEOREM ListsTheCatalog == Spec => []ListIsCatalog
  <1>1. IInv /\ CatalogInv => ListIsCatalog
    <2> SUFFICES ASSUME IInv, CatalogInv, dpc \in {"listed", "loading", "loaded"}, found >= 0
                 PROVE  ListIsCatalog
      BY DEF ListIsCatalog
    <2>1. ~(ioFailed /\ dpc = "listed")
      BY DEF IInv, FaultStops
    <2>2. Len(entries) = found /\ HeldAll(vol.inodes[0], entries, found)
      BY DEF CatalogInv
    <2> QED
      BY <2>1, <2>2 DEF ListIsCatalog, HeldAll
  <1> QED
    BY <1>1, CatalogInvariant, PTL
=============================================================================
