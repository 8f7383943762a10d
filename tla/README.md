# Verification of the Modular Bootloader

TLA+ models of the Modular Bootloader (MBL), a UEFI application in C that
probes an OWFS volume, shows a boot menu, loads a kernel and hands the machine
over to it. Paths below are relative to the repository (`src/owfs.c`,
`include/mbl.h`, `tools/owfs_mkfs.py`).

## The system

| Part | Source | State | Operations | Talks to |
| --- | --- | --- | --- | --- |
| BANcode diagnostics | `src/bancode/bancode_boot.c`, `include/bancode/*` | ring of 8 records, head, count | raise, last, count, format | called by driver and kmain |
| Keyboard and clock | `src/kbd.c` | none (firmware's key buffer and clock) | poll, wait, reboot, seconds | ConIn, runtime services |
| Boot menu | `src/menu.c` | selection, window, countdown | menu_run | keyboard, clock, renderer |
| OWFS driver | `src/owfs.c` | superblock copy, staging buffers | probe, enumerate, load_file | disk, diagnostics |
| Disk | `src/bios_disk.c` | none | read_sectors, read_block | Block I/O |
| Boot flow | `src/main.c` | entry list, boot configuration, map key | kmain, fail, probe_failed | all of the above, boot services |
| UEFI entry | `src/efi_entry.c` | the g* protocol pointers | EfiMain, init_gop, init_block_io | firmware, kmain |
| GOP renderer | `src/gop.c` | grid, framebuffer geometry, cursor | vga_* | framebuffer |
| SUCS mode controller | `src/sutf/sucs_mode.c` | active, pending, reboot flag, counter | init, request, commit | kmain, the booted kernel |
| SUTF-8 codec | `src/sutf/sutf8.c` | none | encode, decode | driver (entry names) |
| OWFS formatter | `tools/owfs_mkfs.py` | bitmap, inodes, catalog | add_file, format | its volumes are what the driver reads |
| Image builder | `tools/build_image.py` | none | MBR, GPT, FAT32, OWFS placement | formatter |

The loader is one thread. What runs beside it is the firmware (a clock that
ticks, a key buffer that fills, a memory map that changes while the boot
services are active), the user, and a disk that may fail any read. That is where
the hard behaviour lies: keys, ticks and timeouts interleaving in the menu; a
read that fails between two blocks; one staging buffer for pointers and data;
codes passed back through the last diagnostic recorded; a map key that goes
stale between two firmware calls; a kernel that asks for another encoding mode,
changes its mind, and restarts. There is no persistence in the loader (it never
writes the disk) and no message passing, so there is nothing about crash
recovery or lost messages: a restart begins anew with the disk as it is, which is what a staged mode is lost to
(finding 5).

What makes each part correct: the recorder keeps the newest codes with their own
traps; the menu keeps the selection valid and visible and boots what it shows;
the driver lists exactly the valid live entries and loads exactly the file's
bytes or reports a fault; kmain boots the chosen file or stops, and leaves the
boot services first; the mode controller commits what was asked for last and
nothing else, at the restart that follows; the firmware, the loader and the formatter, written apart, agree
on what is where on the disk.

## Modules

| Module | Models | How it corresponds |
| --- | --- | --- |
| `Bancode` | registry blocks, `mbl_code_is_*`, `bancode_to_trap` and its inverse | pure functions of a code |
| `DiagLog` | what the recorder promises | the last DIAG_MAX codes as a sequence |
| `DiagRing` | `bancode_boot.c` | `ring`, `head`, `count` are the three static objects; `Raise` is `mbl_diag_raise`; refines `DiagLog` |
| `Kbd` | `kbd.c` | `KeyOf` is `kbd_poll` on a stroke, `SecondsRead` is `efi_get_seconds` |
| `Menu` | `menu.c`, `kbd_wait` | variables are `menu_run`'s locals and the screen; a pass of the loop is `Poll` then `Clock` |
| `Owfs` | `owfs.c`, `bios_disk.c` | `Probe`; `Enumerate`, `EnumerateBlock`, `EnumerateEnd`; `LoadFile`, `LoadBlock`, `LoadEnd`: one step per block |
| `BootPromise` | what the loader promises its user | offered, asked, and what the machine does |
| `Boot` | `main.c` | INSTANCEs `Owfs` and `Menu`; one action per stage of kmain, the firmware beside it; EXTENDS `Sucs`, which the kernel uses (`RunKernel`, `UseModes`) until `Restart`; refines `BootPromise` |
| `ModeCalls` | what `sucs_mode.h` says of each of its functions | the active mode, the one asked for last, whether a reboot is owed, the changes; of a restart it says nothing |
| `Sucs` | `sucs_mode.c` | `cfgs` holds the controller's `g_kernel_boot_cfg` ("global") and the block at MBL_BOOTCONFIG ("block"); one action per function; from a start of the machine until its restart either refines `ModeCalls` |
| `StagedMode` | what `sucs_mode.h` says of a restart | extends `Boot` by the history `due`: the mode that was staged when a kernel restarted the machine |
| `Mkfs` | `tools/owfs_mkfs.py` | `Format`; `AllocInode`, `AddIndirect`, `AddBlock`, `WriteInode`, `CatalogInsert` for each file: one step per block allocated; `WriteSuperblock` |
| `Esp` | `tools/build_image.py` | `WriteTables`, `WriteBootSectors`, `WriteDirectories`, `WriteCluster` per cluster of the loader, `WriteFats`, on a disk of sectors; and how the firmware finds the loader there |
| `Formatted` | `Esp`, `Mkfs` and `Owfs` on one disk | `main` of build_image.py; `Start` decodes the finished image by the driver's layout and hands it to `Owfs` |
| `Sutf8` | `sutf8.c`, `owfs_name_to_ascii` | the six frames as tables; `Encode`, `Decode`; `NameChar` is a pass of the loop over a name |
| `LoadedImage` | the loaded image protocol of `efi.h` | the fields with their sizes, aligned; `FieldRead` is what an index into it finds |
| `EfiEntry` | `efi_entry.c` | `gGOP` and `gBlockIO` number the firmware's handles; one action per pass of the loops of `init_gop` and `init_block_io`, `SetMode` and `LocateImage` |
| `Screen` | `gop.c`, `draw_entry` and `draw_list` of `menu.c` | extends `Sutf8` and `EfiEntry`: `Clear` takes the mode the entry left the display in, `DrawList` the name decoded; a call of `vga_write` or `vga_fill` is the sequence of glyphs it renders, into the grid's cells and into the bytes of the frame buffer |
| `MC*` | constants for TLC | one per component |
| `DiagRing_proofs`, `Menu_proofs`, `Owfs_proofs`, `Boot_proofs`, `Mkfs_proofs`, `Formatted_proofs`, `Sutf8_proofs`, `Screen_proofs` | theorems | see below |

Abstractions. A volume is what its sectors decode to; a CRC is the flag whether
it matches; a byte of a file is the pair of its block and its place in it, so a
byte that lands in the wrong place is seen. Block 0 stands for the superblock
and the inode table. A block that holds no pointers, and the memory behind the
pointer block, read as any block number. The screen is the highlighted row, the
window's first row and the entry and seconds in the status line. Drawing,
wording and colours are left out; entry names are in `Sutf8` and `Screen`. In `Boot` the memory map is its
number of descriptors and its key; the pages for it are the firmware's choice,
and may be those of the kernel, whose bytes are then lost. A restart forgets all
but the disk; the kernel's image, and the controller in it, are loaded anew. `Owfs` and `Boot` record diagnostics in a
`DiagLog`, which `DiagRing` is proved to implement.

In `Mkfs` the image is the data region and what lies behind it, a sequence of
cells; a byte of a file is the pair of the file and its place in it, a catalog
entry is the inode it names, and both fill one cell. Bitmap and inode table are
variables. `Esp` writes the sectors before the volume; of a structure it keeps the
fields the firmware goes by. Assigning to a slice of the image does what Python does: cells of
another number change the image's length (`Assigned`). The file names, the
label and times are left out, names longer than their field included.

In `Screen` a byte of the frame buffer is the glyph put there and which of its
pixels, so a pixel in the wrong place or painted over is seen; shapes and colours
are left out. A line of the frame buffer has `pitch` pixels of four bytes, as
the firmware defines it (`Displayed`); `PixelAt` is what `put_pixel` computes.

The definitions headed "Plausible bugs" in each module are variants of the
definition of the same stem (`Delta_NoMinuteWrap` of `Delta`). No specification
uses them; each one in place of its definition makes a property fail, which shows
that the property looks at that piece of code.

## Runs

| Run | Config | Shows |
| --- | --- | --- |
| diag_ring | `MCDiagRing.cfg` | all orders of codes of every class past the ring's capacity; the ring implements the log |
| menu | `MCMenu.cfg` | every interleaving of keys, ticks and the loop, on lists of 0, 1, 2 and 5 entries |
| owfs | `MCOwfs.cfg` | about 1500 volumes, every pattern of failing reads, every listed entry loaded |
| boot | `MCBoot.cfg` | driver, menu, user, clock and memory map together, from the probe to the kernel, which uses the mode controller until the machine restarts |
| formatted | `MCFormatted.cfg` | the loader is found and read by the firmware from the image; every list of files on volumes around every boundary of the bitmap: no block in two places, counts right, every file listed and loaded by the driver |
| screen | `MCScreen.cfg` | from any firmware the display, its largest mode and the first fixed disk are found; names whole, cut and damaged, decoded into the menu's buffer and drawn in the list on the screen that was found, wide or narrow |
| menu_announced | `MCMenuAnnounced.cfg` | violation: the timeout boots the first entry, the status line names the highlighted one |
| owfs_fault_code | `MCOwfsFault.cfg` | violation: a failed load returns a success code |
| boot_services | `MCBootKernelOwns.cfg` | violation: with the pointer EfiMain reads, the kernel is entered with the boot services active |
| staged_mode | `MCStagedMode.cfg` | violation: the mode a kernel staged before a restart is not the next kernel's, which begins with the commit |
| mkfs_backup | `MCFormattedBackup.cfg` | violation: a file with a short last block moves the backup partition table |
| screen_pitch | `MCScreenPitch.cfg` | violation: what is painted is not where the firmware displays it |

Bounds and why they are enough.
- *Ring*: the real size 8 with codes of every class, with and without a trap, so
  that the head wraps and each kind of record overwrites each other kind.
- *Menu*: a window of three rows with lists shorter than, and longer than, the
  window; paging passes both ends. The countdown of three seconds starts at
  second 0 and at 58, so it crosses a minute's end; up to two ticks pass between
  two looks at the clock, which covers a tick that is missed.
- *Owfs*: two direct blocks and two pointers, so catalog and file need no, one or
  all indirect blocks, and one more than there are; two-byte blocks, so a last
  block is full or half full; files one below, at and above both size limits;
  a list capacity of three that is reached inside a block. One part of the
  volume varies at a time. UINT32 = 64 bounds every size in the model, as 2^32
  does 16 MiB.
- *Boot*: two entries, a countdown of two, five disks (bootable, with an entry
  whose file is broken or missing, with an unreadable catalog block, empty,
  refused), two changes of the memory map by others against one descriptor of
  extra room, so the map can outgrow its buffer and can change after it was read; pages
  for it that lie on the kernel or apart from it; a null pointer to
  ExitBootServices, the wrong one that EfiMain reads, and the right one, which its
  comment means (boot_services takes what it reads). Both modes and a value
  that is none, and two commits, so that a switch is made and made back. For
  staged_mode one disk that boots and one key are enough: what counts is a kernel that
  stages, a restart, and a kernel that commits.
- *Formatted*: six sizes of volume, so that the bitmap has one, two and three
  blocks, filled to the last bit or with a block to spare, one volume is too
  small, and the data region runs out in each step of adding a file; five sizes of file: empty, part of a
  block, the direct blocks exactly, the pointer block full with a short last
  block, one block too many; six inodes, so that the table runs out and the
  catalog grows to three blocks; a list of three entries, shorter than the
  catalog. Behind the volume there is nothing, as when the formatter is run by
  itself, or a table further away than all short slices together can move it, as
  build_image.py has it (24 MiB against at most 16 MiB). The loader is a part of a
  cluster, two clusters exactly, or as many as the partition has left with the last
  one short; a sector of the FAT holds two links, so its chain crosses sectors.
- *Screen*: the least and the greatest codepoint of every frame and the last one
  below the trap range, between two letters, so that each can be overlong,
  truncated or damaged by an ASCII, a continuation or any lead byte, and what is
  on both sides of it is seen; a name longer than the buffer of six. A glyph is
  one pixel, since the lines of a glyph are to the frame buffer what the rows
  of cells are. One screen is wider than the layout of eight columns with a pitch
  that exceeds the line, one is narrower and lower; the three machines between them have
  a display that does not work, one with a mode it hides and one that refuses
  SetMode, and disks of every kind `init_block_io` passes over, two it would take,
  or none at all; a list of two entries in two
  rows is scrolled so that a row is drawn over a longer one and left empty.

Fairness. The loader's own steps are weakly fair: nothing else runs on the
machine, and its loops do not block. The clock's tick is weakly fair: time does
not stop. Nothing is assumed of the user, of the disk or of the memory map. The
liveness properties also need `ClockMayFail = FALSE`: with a GetTime that fails
on every call the second always reads 0 and the countdown does not move.

Deadlock checking is off where the program really ends: menu_run returns, the
driver's call returns, kmain ends in the kernel, a reset or a halt, the formatter
has written its image or failed.

## Findings

1. `menu.c:241`: the timeout boots entry 0; the status line, redrawn every second,
   says "Booting" and the highlighted entry's name.
2. `gop.c:50`: the pitch is taken from PixelsPerScanLine, in pixels, and used in bytes
   (`gop.c:22` says "bytes per scanline"), so the lines of the screen are painted over
   each other in its top quarter, and `vga_clear` clears only that quarter. The
   properties of the run `screen` hold of the cells and of the frame buffer's
   bounds nonetheless: nothing is painted outside it.
3. `owfs.c:295`: an inode number past the table, and a free inode, are reported
   without a diagnostic, so the load returns, and the fail screen shows, the code
   raised before (normally C+ CATALOG_ENUM_OK).
4. `main.c:163`: the kernel is entered with the boot services active when pages or
   map cannot be had, when the key is stale, or when `gExitBootServices` is null;
   the status is dropped and there is no retry. Besides, `efi_entry.c:201` reads the
   pointer at index 10 of the loaded image protocol, which by `efi.h:476-490` is
   `Unload` (`LoadedImage`): run on what is really read there, as boot_services does,
   the model never leaves the boot services.
5. `main.c:125`: an encoding mode that a kernel stages does not survive the restart
   that is to apply it (`sucs_mode.h:14-16`, `:44`). kmain initialises the block at
   MBL_BOOTCONFIG to Base at every boot, the controller's own copy is loaded anew
   with the kernel, and nothing saves either. A kernel that begins with
   `sucs_commit_mode_on_boot` finds nothing pending on either configuration. The only
   way to a mode that was asked for is to commit it in the same boot, which the
   function does not refuse and which `sucs_mode.h:14` and `:68` exclude.
6. `owfs_mkfs.py:226`: the last slice of a file is assigned to a whole block, so a
   file that does not end on a block's end shortens the image, and the backup
   GPT, written before, is no longer at the disk's last sectors
   (`memory.md:92-93`). The volume itself stays readable as long as the image
   reaches to its end (`Whole`), which `Start` and BlocksAccounted ask for;
   formatted into an image that ends with the volume, files near its end may be
   cut off.

Smaller observations without a run: `kbd_poll` knows Escape only as a character
(`kbd.c:34-55`), while UEFI consoles send it as the scan code that `efi.h:238`
defines, so the screen that says "Press Esc to reboot." (`main.c:56`) does not heed it
(`Kbd` has it so);
asking for the active mode while a switch is staged withdraws the switch and still
reports that a reboot is required (`sucs_mode.c:51`); nothing reserves the load
address before the pages for the map are allocated (`main.c:157`); the comment of
`build_image.py:5-12` puts the volume at LBA 1152 and the entries of the partition
table at LBA 2 to 5 where the code has 131200 and 2 to 33; `write_fat32_esp` does
not ask whether the loader fits the partition; `test_kernel.asm` is 32-bit code with its
argument on the stack, while kmain enters it in 64-bit mode with it in RDI
(`main.c:175-190`); the disk is the first fixed one the firmware
lists, which need not be the one the loader was started from, and its handle may be
a partition (`efi_entry.c:134`); with no working display `vga_clear` reads through a
null `gGOP` (`gop.c:171`), so EfiAssumption asks for one; a failing GetTime reads as second 0
(`kbd.c:105`), which the menu takes for the next minute's, so one at second 50 takes
ten from the countdown; `draw_status` stops the name at 43 of its 44 bytes and then
appends up to seven more (`menu.c:86-119`), past the buffer for a name of 29 or
more characters; `vga_fill` clears 80 columns, so on a wider screen the tail of a name
of more than 76 characters stays when another entry is drawn over it;
"into printable ASCII" (`owfs.c:90`) lets control characters through, of which NUL ends
the name; `write_root_inode` runs over the fields behind
the direct blocks with more than 160 files and ends the formatter with `struct.error`
once the catalog has more than 56 blocks, where the model's `RootInode` goes on; a file with more blocks than
the pointer block holds ends it in the same way, rather than with a
message of its own (`owfs_mkfs.py:160`, `231`); `mbl_diag_t.fired` ("always true in returned
records", `mbl.h:224`) is written nowhere; `menu.c:11` lists a return value -3 that
is never returned; a volume of a later major version returns S+ NO_VOLUME while
W+ VERSION_MISMATCH is recorded (`owfs.c:163`); block_count and size_bytes of an
inode are not compared, so a file whose inode has too few blocks boots with the
rest of it missing; the addresses of the driver's static buffers are cast to 32 bits
(`owfs.c:137`, `184`), so an image that the firmware loads above 4 GiB would read the
disk into other memory: the model's buffers have no addresses.

## Proofs

`tlapm` checks every step; the backends are Z3, Zenon and, for temporal steps, LS4.

*DiagRing_proofs.* Assumption: DIAG_MAX is a positive natural and codes are
naturals. `RingTypes`, `RingRecordsConsistent` and `RingImplementsLog` hold for
every ring size and every set of codes. TypeOK is inductive alone. For
RecordsConsistent a raise fills the slot at head and leaves every held slot as it
was; slots are counted back from head (`SlotBack`), so the lemma `SlotBackStep`
relates the slot k+1 behind the new head to the slot k behind the old one, and the
rest is arithmetic modulo DIAG_MAX, stated once in `ModOnce`. The refinement shows
that each raise appends the code to the sequence read off the ring and drops the
oldest when it was full (`RaiseImplements`). `TrapRoundTrip` proves that the trap
of a code manages a range that contains the code.

*Menu_proofs.* Assumption `MenuAssumption`: a window of at least one row, start
seconds on the dial, and a loop that looks at the clock at least once a minute
(`MaxLag <= 59`); lists, timeouts, keys and failing clocks are arbitrary. The
inductive invariant joins types, the selection's and window's ranges, the range of
the result, and the link between the last second looked at, the clock and the
ticks not yet seen, without which CountdownExact is not inductive: `DeltaIsLag`
shows that the difference modulo 60 is that number of ticks. `ScrolledShows`
proves that the four clamps leave the selection visible and the window full from
any earlier window. `MenuEnterBootsHighlighted` needs one more invariant: the
screen is current unless a redraw is pending.

*Owfs_proofs.* Assumption `OwfsAssumption`: the inodes, catalog entries and pointer
blocks of a volume are records and arrays of their fields, block 0
never a pointer block, sizes are naturals, the recorder holds at least one code, and the largest kernel
and a block more fit 32 bits; which volumes there are, how many blocks the disk has and which
reads fail is arbitrary. SuccessMeansComplete, ReturnedCodeIsShown and
RefusedVolumeUntouched are statements about finished loads, so the inductive
invariant carries what they need along the walk: no load has succeeded before, so
the log cannot hold C+ KERNEL_LOAD_OK (`LogSound`), without which a fault that
raises nothing could pass that code on; a failed read leaves the driver in no
state from which it goes on (`FaultStops`); a walk in progress is over a checked
inode and not past its end (`LoadSound`). The lemmas `InodeReadFacts`,
`FetchFacts` and `ScanFacts` say what the driver's helpers raise, `NewestRaised`
that a code just raised is the one the recorder returns, however small the ring.

The second invariant, `DataInv`, is about the data. While a consistent file is
loaded, what lies at the load address is the file up to the byte the walk has
reached and the walk is at a block boundary (`ImageSound`); as long as no read
failed, no check can fail either. From it follow `DriverTyped`, `LoadsTheFile` and
`LoadsUnlessDiskFails`.

The third, `CatalogInv`, is about the list: between two blocks of the catalog it
holds what the blocks read so far select, all of it, because a full list ends the
enumeration (`HeldUpto`); once there is a count, it is what a prefix of the blocks selects, cut at the
capacity (`HeldAll`). `ScanIsFirst` shows that the scan of a block, which is stated as the set of
entries taken by their rank, is the beginning of what a loop over the block selects, and
`ListingGrows` that the list over n + 1 blocks is that over n and one block more.
The first attempt failed for a reason: ListIsCatalog used to say that every block of
the list is well mapped, which is false of a root whose indirect block is not a block of pointers, or
has fewer than block_count asks for. Nothing in the block tells the driver, which
reads what lies there as block numbers and may list what it finds behind them. `MCOwfs` has such volumes
now, and the property says what holds: the count and the absence of a fault for every root,
the entries where what is read as pointers are pointers (`PointersHeld`).

*Mkfs_proofs.* Assumption `MkfsAssumption`: sizes are naturals, a block, a
bitmap block and the inode table hold at least something, and the disk goes on
behind the volume (the backup table) for more than an inode can shorten the image;
volumes, bitmap blocks, files and inode tables are of any size. `BitmapCoversData` is
arithmetic: a bitmap of q = ceil(x / (BITS + 1)) blocks has a bit for each of the
x - q blocks that are left. From it, and because alloc_block takes the least
clear bit, `FullIsFull` concludes that a volume reported full is full. The
invariant for `MkfsSuperblockCounts` and `MkfsFullMeansFull` counts the bitmap
against free_blocks and the inode table against free_inodes, which between
alloc_inode and write_inode is one ahead of the table.

`MkfsTypes` rests on a second invariant (`TInv`): the bits that are set are those of
the first blocks, one after the other, because alloc_block takes the least and
nothing is ever freed (`MarksSound`), and what a file has so far is marked
(`AddedSound`). `BlocksHeldOnce` is harder, because an inode's pointers are read
back from the image, where writing a slice can change the image's length and move
everything behind it. The third invariant (`Accounted`) says that while the image
reaches to the last marked block (`Reaches`), the marked blocks are those held, each
by one inode (`Partition`), and as many as the inode counts (`Counted`). A pointer
block too long shortens what lies behind it, never what lies before; `PointersWritten`
and `EntryWritten` show that the marked blocks stay as they are as long as the image
still reaches them, and an image that was cut so far is never whole again.

`MkfsStored` is about the contents. Files have the inodes 1, 2, ... in the order they
are added (`NInv`), which catalog_insert relies on without knowing. The fourth invariant
(`Stored`) says what the cells hold: the bytes of every file that has its inode in the
blocks the inode counts (`StoredIn`), those of the file being added as far as it has come
(`BeingStored`), the entries in the catalog, one per file and zeros behind them
(`CatalogHolds`). It needs one thing that no property mentions: behind the last
marked block the image is clean up to the backup table (`Untouched`). Without it the
rest of a new catalog block could hold old data, and the loop that looks for a free slot
could stop early or run on. Every slice a file's last block is short by moves that table towards
the volume, so the invariant counts the short slices so far, and MkfsAssumption's room
behind the volume keeps the table outside. `EndsAre` concludes that the free slot
catalog_insert finds is the one behind the last entry, whatever cells of other kinds look
like to it.

*Formatted_proofs.* Assumption `EspAssumption`: the sizes are naturals and fit one
another, as build_image.py's do: the structures before the FATs have room, the FAT has a link for
every cluster, there are enough clusters for FAT32 and for the loader. For
`LoaderIsRead` the invariant (`EspInv`) says of each structure that its sector
holds it once it is written, since no later one overlaps it (`Putting`, `Places`), and of the file
how many whole clusters are written and that their links lead from each to the
next and end with the last (`FileSoFar`); `CeilingIs` ties the cluster at which the
loop ends to the number of clusters the size asks for. The firmware's side
starts from the boot sector: what it computes from the fields are the places that were
written, and a link it looks up in a sector of the FAT is the one the FAT in memory had
(`FirmwareFinds`). `ChainIs` unfolds the recursive function that follows a chain:
a function that satisfies its equation exists because it can be
given, and any other agrees with it by induction. `ImageKeepsVolume` takes what is proved
of the formatter over to the composition, in which its steps are its own.

`MenuListsFiles` and `MenuLoadsFiles` join the formatter and the driver. Assumption
`FormattedAssumption`: the disk reaches to the volume's end, the menu takes fewer files than
the root's direct blocks have entries (32 against 160 in the code), the driver's sizes are naturals and
the largest kernel and a block more fit 32 bits. The lemmas of `Owfs_proofs` are
about any set of volumes, so they are instantiated with the volumes a
finished image can decode to (`FormattedVolumes`, `VolumeIs`); the lemmas `Same...` identify
that instance's actions with those of the module's own. The driver's
invariants then hold of the machine from its start (`Machine`). What is left is to follow its walks
on an image that holds what `MkfsStored` says (`Walk`): no read fails, because a marked block lies on the
disk (`MarkedIs`); the list after i blocks of the catalog is the first i * BLOCK_SIZE files
(`CatalogBlock`, `EnumerateBlockWalks`); the block the driver maps an index to is the one
the formatter put that part of the file in, directly or through the pointer
block (`FileMapped`), so every file of a size the loader takes is one that
`WellFormedLoads` and `LoadedIsFile` apply to (`FileWellFormed`).

*Sutf8_proofs.* Assumption `Sutf8Assumption`: the name buffer has room for its end,
texts are sequences of codepoints the encoder accepts, damage is bytes.
`RoundTrip` and the lemma `DecodedEncoded` say that encoder and decoder are
inverse to each other for every codepoint and every sequence of bytes. The
argument: a codepoint is the sum of its digits (`EncodedValue`, frame by frame), two
characters of a frame with the same sum are the same bytes (`SameBytes`, peeling six
bits at a time with `SameShifted`), and lead bytes and codepoints belong to one
frame only (`FramesDisjoint`). `NameInBuffer` and `DecodedIsEncoded` lift this to
owfs_name_to_ascii started on any bytes (`AnyName`), `NamesDecoded` to the names
that Init chooses: those the encoder makes of a text, whole, cut or damaged.

`DamageStaysLocal` is the loop's correctness: `LoopInv` relates how far the loop is in
the name to how much it has shown: before the damage one character for each
codepoint, in it any number of question marks, behind it again one for each. No
byte inside a character starts another, so the loop falls back into step at the
first whole character. Init encodes a text with a recursive function, and
the induction theorems of the library take operators, which the provers
cannot instantiate; `Upwards` and `Iterated` state induction up to n and
the existence of an iteration with a *set* in the operator's place, from the
well-foundedness of <, and serve wherever a recursive function is unfolded.

*Screen_proofs.* Assumptions `EfiAssumption` and `ScreenAssumption`: one of the firmware's
displays works, a mode's lines are at least as long as they show and its bytes
are counted in 32 bits, cells and grid are not empty; displays, modes, disks, fonts, names and layouts are
arbitrary. `EntryInv` says what the loops of EfiMain have passed: no handle before
the one taken would do (`FirstFixedDisk`), and the best mode is the best of those
seen, among those that can be read (`LargestModeDrawn`). The rest of `ScreenInv` is
about the picture: what is rendered is in the grid (`ScreenTyped`); `PixelAt` of a pixel
of the mode is less than what `vga_clear` fills, since put_pixel multiplies by pixels
where bytes are meant, and so nothing is painted outside (`NothingPaintedOutside`);
a row's glyphs lie in its own columns, the filler covers what the name leaves, and
rows drawn later do not touch it (`EntriesShown`).

*Boot_proofs, the mode controller.* Assumption `SucsAssumption`: the initial mode is a mode, and no other
value is one; modes, other values and the number of changes are arbitrary.
`SucsImplementsModeCalls` proves that from a start of the machine until its restart
both configurations implement `ModeCalls`: a request alters nothing in use, and a
commit puts in use the mode asked for last, whatever was asked, withdrawn or handed over
before. When commits come is left to the kernel. The
inductive invariant (`ModeInv`) says that the mode staged is the one asked for last,
and that with no reboot owed it is the active one: without the second half a
request for the active mode, which changes nothing, could leave another mode
pending. `StepCases` reduces every call to one of four things that can happen to
a configuration, and each of these is a step of `ModeCalls` or a stutter.
`BootKeepsModes` takes this over to kmain, which initialises the block, over any number of
boots (`ModeInvAnew`): every step but the restart is such a call or none. Of the restart
it claims nothing, since there the header's promise does not hold (finding 5).

*Boot_proofs, kmain.* Assumption `BootAssumption`: those of `Owfs` and `Menu`, and a memory
map counted in naturals; volumes, menus, strokes, clocks, pointers and map sizes are
arbitrary. For `BootServicesLeft` the invariant (`HandInv`) follows the handoff: until
the map is read the buffer has room for the descriptors there are, less those the map
grew by, and EXTRA more, so a map that does not fit grew by more than the extra room;
from then on the key is the map's until the firmware changes the map; the pointer is
not looked at before. `BootFaultyCatalog` needs that the menu is called only after the
catalog is read: with a negative count it has no entries and can return nothing but a
reboot. `BootImplementsPromise` is the refinement of `BootPromise`: the invariant
(`PathInv`) says that the list is a sequence, which makes its length a count
(`ScanSequence`), that the menu's selection and its value are entries of the list, and
where in kmain each value leads; `PromiseStep` then maps every action of kmain, the
firmware, the user and the kernel to a step of the promise or a stutter.
`BootsTheChosenFile` takes the driver's data invariant over to kmain (`FileInv`): every
step of kmain is a step of the driver, a call of it or leaves it alone, the number loaded is that of
the entry chosen (`DriverInv`, `WalkInv`), and what a success left at the load address stays until the
kernel is entered, or the firmware is known to have taken those pages
(`KernelInv`). `BootTyped` follows from it.

Only model-checked: liveness (MenuReturns, EmptyMenuLeft, DriverReturns, BootSettles),
which is out of the prover's reach, as is the ENABLED behind weak fairness; and the
properties of the violation runs. Every invariant of a passing run is stated by a theorem.

## Not modelled, and why

CRC arithmetic (whether it matches is what matters), wording, colours and the shapes
of glyphs, the text cursor of `gop.c` (nothing calls it), the text of the status line, the
codename table and hex formatter, kmain's assembly beyond the jump, the encodings of
fields in FAT32 and the partition tables (which fields there are, and where the
structures lie, is modelled), the build and test scripts, which keep no state of
the system, and the test kernel: what a kernel may do with the mode controller is
`KernelNext`. The getters of `sucs_mode.c` only read. The parts of `efi.h` and `mbl.h`
that no code of the loader uses are declarations.

Four hazards are without a property. The driver computes sectors in 32 bits
(`bios_disk.c:41`): a block number that wraps lies past every disk of less than
2 TiB, and nothing says what is to become of it. A GetTime that fails is read as second 0
(`kbd.c:105`): the menu's safety properties are proved with it, the countdown is
exact only without. The status line overruns its buffer (`menu.c:90`), as observed above; its text is left out.
block_count and size_bytes of an inode may disagree (`owfs.c:323`): LoadedIsFile is about
inodes where they agree.

## Plan

1. Core (done): `DiagRing`, `Menu`, `Owfs`, `Boot`, their runs and the proofs about
   the recorder, the menu and the driver's verdicts.
2. The formatter (done): `Mkfs`, `Formatted` and the proofs about its counts.
3. Names and screen (done): `Sutf8`, `Screen` and the proofs about the codec.
4. The entry (done): `EfiEntry`, the search for display and disk, and `LoadedImage`.
5. The mode controller (done): `Sucs` in `Boot`, its proof within one boot, and `StagedMode`
   over restarts.
6. The image (done): `Esp`, in `Formatted`.
7. kmain (done): the proofs about `Boot`, its handoff and its refinement of `BootPromise`.
8. The data (done): what the driver lists and loads and kmain enters, who holds which block, damaged
   names, the renderer and the entry, proved for every value of the constants.
9. The image (done): the firmware reads the loader from the ESP, whatever the sizes.
10. The contents (done): what the formatter writes is what the driver lists and loads,
   for volumes and files of any size (`MkfsStored`, `MenuListsFiles`, `MenuLoadsFiles`).
