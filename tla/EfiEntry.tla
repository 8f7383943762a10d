------------------------------ MODULE EfiEntry ------------------------------
(***************************************************************************)
(* EfiMain of src/efi_entry.c: which of the firmware's displays, with      *)
(* which of its modes, and which of its disks the loader works with, and    *)
(* what it takes for ExitBootServices.  One step is one pass of a loop over *)
(* handles or modes.                                                        *)
(*                                                                         *)
(* A display tells of each mode its resolution and its pitch in pixels, or *)
(* nothing (QueryMode fails); it may refuse SetMode.  A handle whose        *)
(* protocol cannot be had does not work.                                    *)
(***************************************************************************)
EXTENDS Integers, LoadedImage

CONSTANTS Machines   \* what the firmware may have: displays and disks

(* The firmware's modes, displays and disks, by what the loader reads. *)
GopModes == [readable : BOOLEAN, hres : Nat \ {0}, vres : Nat \ {0}, pitch : Nat \ {0}]
Gops     == [works : BOOLEAN, modes : Seq(GopModes), current : Nat, sets : BOOLEAN]
BlockIos == [works : BOOLEAN, media : BOOLEAN, removable : BOOLEAN, present : BOOLEAN]

ASSUME EfiAssumption ==
  \A machine \in Machines :
    /\ machine.displays \in Seq(Gops) /\ machine.disks \in Seq(BlockIos)
    /\ \E k \in DOMAIN machine.displays : machine.displays[k].works
    /\ \A k \in DOMAIN machine.displays :
         LET d == machine.displays[k] IN
         /\ d.current < Len(d.modes)
         /\ \A m \in DOMAIN d.modes :
              /\ d.modes[m].hres <= d.modes[m].pitch
              /\ d.modes[m].pitch * d.modes[m].vres < 2 ^ 30   \* bytes are counted in UINT32

VARIABLES
  displays, disks,   \* the firmware's handles
  image_handle,      \* whether the firmware gives the loaded image protocol
  gGOP, gBlockIO,    \* the handles taken, 0 for none
  current,           \* the number of the display's mode
  at,                \* the loop's handle or mode
  best,              \* best_mode and best_pixels
  gExitBootServices, \* the field of that protocol it points to, or "NULL"
  epc                \* "gop", "modes", "disk", "image", "entered"

firmware  == <<displays, disks, image_handle>>
entryVars == <<firmware, gGOP, gBlockIO, current, at, best, gExitBootServices, epc>>

-----------------------------------------------------------------------------
(* Plausible bugs, each in place of a definition below. *)
Better_NotKept(b, number, m) ==
  IF m.readable /\ m.hres * m.vres > b.pixels THEN [b EXCEPT !.mode = number] ELSE b
IsFixed_AnyMedium(disk) == disk.works /\ disk.media /\ disk.present

(* The better one of a mode and the best before it. *)
Better(b, number, m) ==
  IF m.readable /\ m.hres * m.vres > b.pixels
  THEN [mode |-> number, pixels |-> m.hres * m.vres] ELSE b

(* The disks that init_block_io takes. *)
IsFixed(disk) == disk.works /\ disk.media /\ ~disk.removable /\ disk.present

EntryInit ==
  /\ \E machine \in Machines : /\ displays = machine.displays /\ disks = machine.disks
                              /\ image_handle = machine.image
  /\ gGOP = 0 /\ gBlockIO = 0 /\ current = 0 /\ gExitBootServices = "NULL"
  /\ at = 0 /\ best = [mode |-> 0, pixels |-> 0] /\ epc = "gop"

(* init_gop: the first display that works... *)
FindGop ==
  /\ epc = "gop" /\ at < Len(displays)
  /\ at' = at + 1
  /\ IF gGOP = 0 /\ displays[at + 1].works
     THEN gGOP' = at + 1 /\ current' = displays[at + 1].current
     ELSE UNCHANGED <<gGOP, current>>
  /\ UNCHANGED <<firmware, gBlockIO, best, gExitBootServices, epc>>
GopFound ==
  /\ epc = "gop" /\ at = Len(displays)
  /\ at' = 0
  /\ epc' = IF gGOP = 0 THEN "disk" ELSE "modes"
  /\ UNCHANGED <<firmware, gGOP, gBlockIO, current, best, gExitBootServices>>

(* ...and the best of its modes, if it is not the one it has. *)
QueryMode ==
  /\ epc = "modes" /\ at < Len(displays[gGOP].modes)
  /\ at' = at + 1
  /\ best' = Better(best, at, displays[gGOP].modes[at + 1])
  /\ UNCHANGED <<firmware, gGOP, gBlockIO, current, gExitBootServices, epc>>
SetMode ==
  /\ epc = "modes" /\ at = Len(displays[gGOP].modes)
  /\ current' = IF best.mode # current /\ displays[gGOP].sets THEN best.mode ELSE current
  /\ at' = 0 /\ epc' = "disk"
  /\ UNCHANGED <<firmware, gGOP, gBlockIO, best, gExitBootServices>>

(* init_block_io. *)
FindDisk ==
  /\ epc = "disk" /\ at < Len(disks)
  /\ at' = at + 1
  /\ IF IsFixed(disks[at + 1]) THEN gBlockIO' = at + 1 /\ epc' = "image"
     ELSE UNCHANGED <<gBlockIO, epc>>
  /\ UNCHANGED <<firmware, gGOP, current, best, gExitBootServices>>
NoDisk ==
  /\ epc = "disk" /\ at = Len(disks)
  /\ epc' = "image"
  /\ UNCHANGED <<firmware, gGOP, gBlockIO, current, at, best, gExitBootServices>>

(* The loaded image protocol, and kmain. *)
LocateImage ==
  /\ epc = "image" /\ epc' = "entered"
  /\ gExitBootServices' = IF image_handle THEN FieldRead(10) ELSE "NULL"
  /\ UNCHANGED <<firmware, gGOP, gBlockIO, current, at, best>>

EntryNext == FindGop \/ GopFound \/ QueryMode \/ SetMode \/ FindDisk \/ NoDisk \/ LocateImage

-----------------------------------------------------------------------------
(* The disk is the first fixed one with a medium, and none only if there is *)
(* no such disk (efi_entry.c:117-156): the driver reads the one or fails.   *)
DiskIsFirstFixed ==
  epc = "entered" =>
    /\ gBlockIO = 0 => \A d \in DOMAIN disks :
                         ~(disks[d].works /\ disks[d].media /\ disks[d].present)
                           \/ disks[d].removable
    /\ gBlockIO > 0 =>
         /\ ~disks[gBlockIO].removable /\ disks[gBlockIO].present
         /\ \A d \in 1 .. gBlockIO - 1 :
              disks[d].removable \/ ~disks[d].present \/ ~disks[d].media \/ ~disks[d].works
=============================================================================
