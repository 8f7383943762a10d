-------------------------------- MODULE Boot --------------------------------
(***************************************************************************)
(* kmain of src/main.c: it composes the OWFS driver (Owfs) and the menu    *)
(* (Menu), publishes the boot configuration, leaves the UEFI boot services *)
(* and enters the kernel.  Beside it run the firmware, whose memory map    *)
(* changes while the boot services are active, its clock, and a user.      *)
(* The kernel then uses the mode controller (Sucs) on the configuration it *)
(* was given, until the machine is started anew.                            *)
(***************************************************************************)
EXTENDS Bancode, Sequences, Sucs

CONSTANTS
  \* Owfs
  Volumes, DISK_BLOCKS, DiskMayFail, BLOCK_SIZE, DIRECT_BLOCKS, POINTERS,
  KERNEL_MIN, KERNEL_MAX, MENU_MAX, UINT32, DIAG_MAX,
  \* Menu
  VISIBLE, TIMEOUT, StartSeconds, ClockMayFail, KeyStrokes, MaxLag,
  \* the firmware
  ExitPointers,   \* the services img[10] may point to, or "NULL"
  MapSizes,       \* descriptors the memory map may have at first
  EXTRA,          \* descriptors that fit the 4096 bytes of extra room
  MaxMapEvents    \* bound: changes of the memory map by others

VARIABLES
  mpc, count, sel, top, need_redraw, last_sec, remaining, result, screen,
  second, pending, elapsed, lag, timedOut,                           \* Menu
  vol, dpc, rc, found, entries, ino, idx, buf, image, size, log, ioFailed,  \* Owfs
  bpc,        \* where kmain is
  cfg,        \* the mbl_boot_config_t at MBL_BOOTCONFIG
  room,       \* mem_map_size after the extra room was added
  pages,      \* the pages kmain has for it: "none", "apart" or "kernel"
  map_key,    \* the map_key kmain holds
  gExitBootServices,   \* "unread" until kmain looks at it
  services,   \* firmware: the boot services are active
  map,        \* firmware: the memory map, its size and its key
  since,      \* history: descriptors the map grew since its size was asked for
  late,       \* history: the map changed after kmain read it
  mapEvents   \* changes of the map by others

menuVars == <<mpc, count, sel, top, need_redraw, last_sec, remaining, result, screen,
              second, pending, elapsed, lag, timedOut>>
owfsVars == <<vol, dpc, rc, found, entries, ino, idx, buf, image, size, log, ioFailed>>
handVars == <<room, pages, map_key, gExitBootServices, services, map, since, late, mapEvents>>
vars     == <<menuVars, owfsVars, bpc, cfg, handVars, sucsVars>>

-----------------------------------------------------------------------------
(* Plausible bugs, each in place of a definition of the next section. *)
MenuCount_Filled == Len(entries)
MenuTimeout_None == 0
Outcome_Swapped(choice) == CASE choice = -1 -> "shutdown"
                             [] choice = -2 -> "reboot"
                             [] choice >= 0 /\ choice < count -> "load"
                             [] OTHER -> "reboot"
Capacity_Exact(needed) == needed
Published_WholeBlocks == [magic |-> "MBL2", boot_drive |-> 0,
                          kernel_size |-> ino.block_count * BLOCK_SIZE]
Published_EntryAsDrive == [magic |-> "MBL2", boot_drive |-> result, kernel_size |-> size]
-----------------------------------------------------------------------------
(* kmain's arguments to menu_run: no entries unless enumeration succeeded. *)
MenuCount   == IF found < 0 THEN 0 ELSE found
MenuTimeout == TIMEOUT

F == INSTANCE Owfs
M == INSTANCE Menu WITH Counts <- 0 .. MENU_MAX, Timeout <- MenuTimeout

ASSUME BootAssumption ==
  /\ F!OwfsAssumption /\ M!MenuAssumption
  /\ MapSizes \subseteq Nat /\ EXTRA \in Nat /\ MaxMapEvents \in Nat

(* What kmain makes of menu_run's value. *)
Outcome(choice) == CASE choice = -1 -> "reboot"
                     [] choice = -2 -> "shutdown"
                     [] choice >= 0 /\ choice < count -> "load"
                     [] OTHER -> "reboot"

(* The buffer for the map, in descriptors. *)
Capacity(needed) == needed + EXTRA

NoConfig  == [magic |-> "none", boot_drive |-> 0, kernel_size |-> 0]
Published == [magic |-> "MBL2", boot_drive |-> 0, kernel_size |-> size]

Final == {"kernel", "running", "failed", "reboot", "shutdown"}

Init ==
  /\ F!Init /\ M!Init
  /\ SucsInit
  /\ bpc = "probe" /\ cfg = NoConfig
  /\ room = 0 /\ pages = "none" /\ map_key = 0 /\ gExitBootServices = "unread"
  /\ services = TRUE /\ map \in [size : MapSizes, key : {1}]
  /\ since = 0 /\ late = FALSE /\ mapEvents = 0

(* All but the disk and the block as when the machine starts. *)
LoaderForgotten ==
  /\ mpc' = "idle" /\ count' = 0 /\ sel' = 0 /\ top' = 0 /\ need_redraw' = FALSE
  /\ last_sec' = 0 /\ remaining' = 0 /\ result' = M!NotReturned /\ screen' = M!BlankScreen
  /\ second' \in StartSeconds /\ pending' = M!NoStroke
  /\ elapsed' = 0 /\ lag' = 0 /\ timedOut' = FALSE
  /\ dpc' = "start" /\ rc' = 0 /\ found' = 0 /\ entries' = <<>> /\ ino' = F!NoInode
  /\ idx' = 0 /\ buf' = 0 /\ image' = <<>> /\ size' = 0 /\ log' = <<>> /\ ioFailed' = FALSE
  /\ room' = 0 /\ pages' = "none" /\ map_key' = 0 /\ gExitBootServices' = "unread"
  /\ services' = TRUE /\ map' \in [size : MapSizes, key : {1}]
  /\ since' = 0 /\ late' = FALSE /\ mapEvents' = 0
  /\ UNCHANGED vol

-----------------------------------------------------------------------------
Probe ==
  /\ bpc = "probe" /\ F!Probe
  /\ bpc' = IF IsSuccess(rc') THEN "enumerate" ELSE "probe_failed"
  /\ UNCHANGED <<menuVars, cfg, handVars, sucsVars>>

(* probe_failed: the screen that only a reset leaves. *)
ProbeFailed ==
  /\ bpc = "probe_failed" /\ pending # M!NoStroke
  /\ pending' = M!NoStroke
  /\ bpc' = IF M!KeyOf(pending) \in {"ESC", "REBOOT"} THEN "reboot" ELSE "probe_failed"
  /\ UNCHANGED <<mpc, count, sel, top, need_redraw, last_sec, remaining, result, screen,
                 second, elapsed, lag, timedOut, owfsVars, cfg, handVars, sucsVars>>

Enumerate ==
  /\ bpc = "enumerate"
  /\ F!Enumerate \/ F!EnumerateBlock \/ F!EnumerateEnd
  /\ bpc' = IF dpc' = "listed" THEN "menu" ELSE "enumerate"
  /\ UNCHANGED <<menuVars, cfg, handVars, sucsVars>>

Menu ==
  /\ bpc = "menu"
  /\ M!Run(MenuCount) \/ M!Step
  /\ UNCHANGED <<owfsVars, bpc, cfg, handVars, sucsVars>>

(* menu_run returned: reset, power off, or begin to load the entry. *)
Chosen ==
  /\ bpc = "menu" /\ mpc = "done"
  /\ bpc' = Outcome(result)
  /\ IF bpc' = "load" THEN F!LoadFile(entries[result + 1].inode) ELSE UNCHANGED owfsVars
  /\ UNCHANGED <<menuVars, cfg, handVars, sucsVars>>

Load ==
  /\ bpc = "load"
  /\ F!LoadBlock \/ F!LoadEnd
  /\ UNCHANGED <<menuVars, bpc, cfg, handVars, sucsVars>>

(* fail(): the fail screen, for good. *)
LoadFailed ==
  /\ bpc = "load" /\ dpc = "loaded"
  /\ rc # ComKernelLoadOk \/ size < KERNEL_MIN
  /\ bpc' = "failed"
  /\ F!Raise(IF rc = ComKernelLoadOk THEN <<SoftKernelTooSmall>> ELSE <<>>)
  /\ UNCHANGED <<menuVars, vol, dpc, rc, found, entries, ino, idx, buf, image, size,
                 ioFailed, cfg, handVars, sucsVars>>

Publish ==
  /\ bpc = "load" /\ dpc = "loaded"
  /\ rc = ComKernelLoadOk /\ size >= KERNEL_MIN
  /\ cfg' = Published
  /\ InitBootConfig("block", Base)
  /\ F!Raise(<<ComBootHandoffOk>>)
  /\ bpc' = "size"
  /\ UNCHANGED <<menuVars, vol, dpc, rc, found, entries, ino, idx, buf, image, size,
                 ioFailed, handVars>>

-----------------------------------------------------------------------------
(* Leaving the boot services: the map's size first... *)
GetMapSize ==
  /\ bpc = "size"
  /\ room' = Capacity(map.size)
  /\ since' = 0
  /\ bpc' = "allocate"
  /\ UNCHANGED <<menuVars, owfsVars, cfg, pages, map_key, gExitBootServices, services, map,
                 late, mapEvents, sucsVars>>

(* ...then pages for it, which changes the map.  Nothing reserves the load *)
(* address, so they may lie on the kernel.  Without pages the kernel is     *)
(* entered all the same...                                                  *)
AllocatePages ==
  /\ bpc = "allocate"
  /\ \/ /\ \E grown \in 0 .. 1 :
             /\ map' = [size |-> map.size + grown, key |-> map.key + 1]
             /\ since' = since + grown
        /\ pages' \in {"apart", "kernel"}
        /\ bpc' = "map"
     \/ /\ bpc' = "jump"
        /\ UNCHANGED <<map, since, pages>>
  /\ UNCHANGED <<menuVars, owfsVars, cfg, room, map_key, gExitBootServices, services,
                 late, mapEvents, sucsVars>>

(* ...then the map itself, if it still fits, which goes into the pages...  *)
GetMap ==
  /\ bpc = "map"
  /\ gExitBootServices' \in ExitPointers
  /\ IF map.size <= room
     THEN /\ map_key' = map.key
          /\ image' = IF pages = "kernel" THEN <<>> ELSE image
          /\ bpc' = IF gExitBootServices' = "NULL" THEN "jump" ELSE "exit"
     ELSE bpc' = "jump" /\ UNCHANGED <<map_key, image>>
  /\ UNCHANGED <<menuVars, vol, dpc, rc, found, entries, ino, idx, buf, size, log, ioFailed,
                 cfg, room, pages, services, map, since, late, mapEvents, sucsVars>>

(* ...and the service the pointer leads to.  ExitBootServices refuses a key *)
(* that is not the map's; the status is not looked at.                      *)
ExitBootServices ==
  /\ bpc = "exit"
  /\ services' = ~(gExitBootServices = "ExitBootServices" /\ map_key = map.key)
  /\ bpc' = "jump"
  /\ UNCHANGED <<menuVars, owfsVars, cfg, room, pages, map_key, gExitBootServices, map,
                 since, late, mapEvents, sucsVars>>

Jump ==
  /\ bpc = "jump"
  /\ bpc' = "kernel"
  /\ UNCHANGED <<menuVars, owfsVars, cfg, handVars, sucsVars>>

-----------------------------------------------------------------------------
(* The kernel.  It owns the memory, so of the loader only the block and    *)
(* what is on the disk remain.                                              *)
RunKernel ==
  /\ bpc = "kernel" /\ bpc' = "running"
  /\ LoaderForgotten /\ UNCHANGED <<cfg, sucsVars>>

UseModes ==
  /\ bpc = "running" /\ KernelNext
  /\ UNCHANGED <<menuVars, owfsVars, bpc, cfg, handVars>>

(* A reset, by the loader, the kernel or the user, or the power switch.    *)
Restart ==
  /\ bpc \in Final /\ bpc' = "probe"
  /\ LoaderForgotten /\ Forgotten
  /\ cfg' = NoConfig

(* The firmware's own allocations, in its timers and drivers. *)
MapChanges ==
  /\ services
  /\ bpc \in {"allocate", "map", "exit"}
  /\ mapEvents < MaxMapEvents
  /\ mapEvents' = mapEvents + 1
  /\ \E grown \in 0 .. 1 :
       /\ map' = [size |-> map.size + grown, key |-> map.key + 1]
       /\ since' = since + grown
  /\ late' = (bpc = "exit")
  /\ UNCHANGED <<menuVars, owfsVars, bpc, cfg, room, pages, map_key,
                 gExitBootServices, services, sucsVars>>

Tick ==
  /\ M!Tick
  /\ UNCHANGED <<owfsVars, bpc, cfg, handVars, sucsVars>>

Press ==
  /\ \/ \E stroke \in KeyStrokes : M!Press(stroke)
     \/ /\ bpc = "probe_failed" /\ pending = M!NoStroke
        /\ pending' \in KeyStrokes
        /\ UNCHANGED <<mpc, count, sel, top, need_redraw, last_sec, remaining, result,
                       screen, second, elapsed, lag, timedOut>>
  /\ UNCHANGED <<owfsVars, bpc, cfg, handVars, sucsVars>>

Step == \/ Probe \/ ProbeFailed \/ Enumerate \/ Menu \/ Chosen \/ Load \/ LoadFailed
        \/ Publish \/ GetMapSize \/ AllocatePages \/ GetMap \/ ExitBootServices \/ Jump

Next == Step \/ MapChanges \/ Tick \/ Press \/ RunKernel \/ UseModes \/ Restart

(* The loader is the only program on the machine, and the clock runs. *)
Spec == Init /\ [][Next]_vars /\ WF_vars(Step) /\ WF_vars(Tick)

-----------------------------------------------------------------------------
Chose == entries[result + 1].inode

(* Types of kmain's own state and of the firmware's. *)
TypeOK ==
  /\ bpc \in Final \cup {"probe", "probe_failed", "enumerate", "menu", "load", "size",
                         "allocate", "map", "exit", "jump"}
  /\ cfg \in [magic : {"none", "MBL2"}, boot_drive : {0}, kernel_size : 0 .. KERNEL_MAX]
  /\ {services, late} \subseteq BOOLEAN /\ pages \in {"none", "apart", "kernel"}
  /\ map \in [size : Nat, key : Nat]
  /\ room \in Nat /\ map_key \in Nat /\ since \in Nat
  /\ gExitBootServices \in ExitPointers \cup {"unread"}
  /\ mapEvents \in 0 .. MaxMapEvents

(* The kernel that is entered is the file the user saw highlighted or the  *)
(* countdown chose: all of its bytes are at the load address, unless the    *)
(* memory map was written over them, and the configuration block gives      *)
(* their number (main.c:105-126, 157-161).                                   *)
KernelIsChosenFile ==
  bpc = "kernel" /\ F!WellFormedFile(vol.inodes[Chose])
    => /\ pages # "kernel" => image = F!Content(vol.inodes[Chose])
       /\ cfg = [magic |-> "MBL2", boot_drive |-> 0,
                 kernel_size |-> Len(F!Content(vol.inodes[Chose]))]

(* Nothing of a catalog that could not be read to its end is booted, even  *)
(* though the entries found before the fault are in g_entries              *)
(* (main.c:80-83).                                                          *)
FaultyCatalogBootsNothing ==
  found < 0 => bpc \in {"menu", "reboot"}

(* The boot services are left whenever the firmware allows it: kmain has   *)
(* their service and pages, the map grew by no more than the extra room     *)
(* between the two calls that read it, and it did not change after the      *)
(* second; that is, the key is taken after the allocation that changes it   *)
(* (main.c:149-165).                                                        *)
ServicesLeft ==
  bpc = "kernel" /\ gExitBootServices = "ExitBootServices" /\ since <= EXTRA /\ ~late
    => ~services

(* From the menu with entries, with a user or without, the machine always  *)
(* comes to an end of kmain: the kernel, the fail screen or a reset.       *)
BootSettles == bpc = "menu" /\ count > 0 ~> bpc \in Final

(* What was asked is what is done: kmain implements BootPromise. *)
Asked == IF (bpc = "reboot" /\ mpc = "idle") \/ (mpc = "done" /\ result = -1) THEN <<"reset">>
         ELSE IF mpc # "done" THEN <<>>
         ELSE IF result = -2 THEN <<"off">>
         ELSE <<"boot", Chose>>
Machine == CASE bpc = "kernel"   -> "kernel"
             [] bpc = "running"  -> "running"
             [] bpc = "failed"   -> "halted"
             [] bpc = "reboot"   -> "reset"
             [] bpc = "shutdown" -> "off"
             [] OTHER            -> "loader"
Promise == INSTANCE BootPromise
             WITH offered <- {entries[i].inode : i \in 1 .. count},
                  asked   <- Asked,
                  machine <- Machine
ImplementsPromise == Promise!Spec

(* memory.md:145: "ExitBootServices: Called before transferring control to *)
(* the bare-metal kernel", and main.c:167, right before the jump: "After   *)
(* ExitBootServices: no UEFI services are available."                      *)
KernelOwnsMachine == bpc = "kernel" => ~services

(* From one start of the machine to the next, with the loader initialising *)
(* the block and the kernel then asking, withdrawing, handing over and      *)
(* committing in any order, every step does to both configurations what     *)
(* ModeCalls promises of a call, so no stale mode is ever committed         *)
(* (main.c:125, sucs_mode.c:23-75).  Nothing is said of the restart itself: *)
(* see StagedModeApplied.                                                    *)
ModesKept == [][~Restart => GlobalCalls!Step /\ BlockCalls!Step]_vars
=============================================================================
