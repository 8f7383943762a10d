---------------------------- MODULE Screen_proofs ----------------------------
(***************************************************************************)
(* Proofs about EfiMain and the renderer, for any displays, disks, names,  *)
(* fonts and layouts: the disk and the mode that are taken, that nothing is *)
(* rendered outside the grid or painted outside the frame buffer, and what  *)
(* the rows of the menu show.                                               *)
(***************************************************************************)
EXTENDS Screen, Sutf8_proofs

-----------------------------------------------------------------------------
(* EfiMain.  What its loops have passed is not what they look for, and the *)
(* best mode is that of the modes it has seen.                              *)
FirmwareSound ==
  /\ displays \in Seq(Gops) /\ disks \in Seq(BlockIos)
  /\ \E k \in DOMAIN displays : displays[k].works
  /\ \A k \in DOMAIN displays :
       /\ displays[k].current < Len(displays[k].modes)
       /\ \A m \in DOMAIN displays[k].modes :
            displays[k].modes[m].hres <= displays[k].modes[m].pitch

EntryTyped ==
  /\ epc \in {"gop", "modes", "disk", "image", "entered"}
  /\ at \in Nat /\ gBlockIO \in 0 .. Len(disks)
  /\ best \in [mode : Nat, pixels : Nat]

GopTaken ==
  /\ gGOP = 0 => epc = "gop" /\ \A k \in 1 .. at : k \in DOMAIN displays => ~displays[k].works
  /\ gGOP # 0 => gGOP \in DOMAIN displays /\ current \in 0 .. Len(displays[gGOP].modes) - 1
  /\ epc = "gop" => at <= Len(displays) /\ best = [mode |-> 0, pixels |-> 0]
  /\ epc = "modes" => at <= Len(displays[gGOP].modes)

(* The best of the first n modes of a display. *)
BestOf(b, modes, n) ==
  /\ \A m \in 1 .. n : modes[m].readable => modes[m].hres * modes[m].vres <= b.pixels
  /\ (\E m \in 1 .. n : modes[m].readable) =>
       /\ b.mode + 1 \in 1 .. n /\ modes[b.mode + 1].readable
       /\ modes[b.mode + 1].hres * modes[b.mode + 1].vres = b.pixels
  /\ ~(\E m \in 1 .. n : modes[m].readable) => b = [mode |-> 0, pixels |-> 0]

ModeTaken ==
  /\ epc = "modes" => BestOf(best, displays[gGOP].modes, at)
  /\ epc \in {"disk", "image", "entered"} =>
       LET modes == displays[gGOP].modes IN
       /\ BestOf(best, modes, Len(modes))
       /\ displays[gGOP].sets => current = best.mode

DiskTaken ==
  /\ epc \in {"gop", "modes"} => gBlockIO = 0
  /\ epc = "disk" => /\ gBlockIO = 0 /\ at <= Len(disks)
                     /\ \A d \in 1 .. at : ~IsFixed(disks[d])
  /\ epc \in {"image", "entered"} =>
       /\ gBlockIO = 0 => \A d \in 1 .. Len(disks) : ~IsFixed(disks[d])
       /\ gBlockIO # 0 => /\ IsFixed(disks[gBlockIO])
                          /\ \A d \in 1 .. gBlockIO - 1 : ~IsFixed(disks[d])

EntryInv == FirmwareSound /\ EntryTyped /\ GopTaken /\ ModeTaken /\ DiskTaken

LEMMA InitEntryInv == EntryInit => EntryInv
  <1> SUFFICES ASSUME EntryInit PROVE EntryInv
    OBVIOUS
  <1>1. PICK machine \in Machines : displays = machine.displays /\ disks = machine.disks
    BY DEF EntryInit
  <1>2. FirmwareSound
    BY <1>1, EfiAssumption DEF FirmwareSound
  <1>3. /\ gGOP = 0 /\ gBlockIO = 0 /\ at = 0 /\ best = [mode |-> 0, pixels |-> 0] /\ epc = "gop"
    BY DEF EntryInit
  <1>4. Len(displays) \in Nat /\ Len(disks) \in Nat
    BY <1>2 DEF FirmwareSound
  <1>5. EntryTyped
    BY <1>3, <1>4 DEF EntryTyped
  <1>6. GopTaken /\ ModeTaken /\ DiskTaken
    BY <1>3, <1>4 DEF GopTaken, ModeTaken, DiskTaken
  <1> QED
    BY <1>2, <1>5, <1>6 DEF EntryInv

(* What a display tells. *)
LEMMA DisplayFacts ==
  ASSUME FirmwareSound, NEW k \in DOMAIN displays
  PROVE  /\ displays[k] \in Gops /\ displays[k].modes \in Seq(GopModes)
         /\ displays[k].current \in 0 .. Len(displays[k].modes) - 1
         /\ displays[k].works \in BOOLEAN
  <1>1. displays[k] \in Gops
    BY DEF FirmwareSound
  <1>2. /\ displays[k].modes \in Seq(GopModes) /\ displays[k].current \in Nat
        /\ displays[k].works \in BOOLEAN
    BY <1>1 DEF Gops
  <1>3. displays[k].current < Len(displays[k].modes) /\ Len(displays[k].modes) \in Nat
    BY <1>2 DEF FirmwareSound
  <1> QED
    BY <1>1, <1>2, <1>3

LEMMA Product == ASSUME NEW x \in Nat \ {0}, NEW y \in Nat \ {0} PROVE x * y \in Nat \ {0}
  BY SMT

LEMMA ModeFacts ==
  ASSUME NEW modes \in Seq(GopModes), NEW m \in 1 .. Len(modes)
  PROVE  /\ modes[m].hres \in Nat \ {0} /\ modes[m].vres \in Nat \ {0}
         /\ modes[m].pitch \in Nat \ {0} /\ modes[m].readable \in BOOLEAN
         /\ modes[m].hres * modes[m].vres \in Nat \ {0}
  <1>1. modes[m] \in GopModes
    OBVIOUS
  <1>2. /\ modes[m].hres \in Nat \ {0} /\ modes[m].vres \in Nat \ {0}
        /\ modes[m].pitch \in Nat \ {0} /\ modes[m].readable \in BOOLEAN
    BY <1>1 DEF GopModes
  <1> QED
    BY <1>2, Product

(* One more mode. *)
LEMMA BestOfNext ==
  ASSUME NEW modes \in Seq(GopModes), NEW n \in Nat, n < Len(modes),
         NEW b \in [mode : Nat, pixels : Nat], BestOf(b, modes, n)
  PROVE  /\ BestOf(Better(b, n, modes[n + 1]), modes, n + 1)
         /\ Better(b, n, modes[n + 1]) \in [mode : Nat, pixels : Nat]
  <1> DEFINE m == modes[n + 1]
             size(k) == modes[k].hres * modes[k].vres
             c == Better(b, n, m)
  <1>1. n + 1 \in 1 .. Len(modes) /\ n \in 0 .. Len(modes)
    OBVIOUS
  <1>2. size(n + 1) \in Nat \ {0} /\ m.readable \in BOOLEAN
    BY <1>1, ModeFacts
  <1>3. \A k \in 1 .. n : size(k) \in Nat \ {0}
    BY ModeFacts
  <1>4. b.pixels \in Nat /\ b.mode \in Nat
    OBVIOUS
  <1>5. CASE m.readable /\ size(n + 1) > b.pixels
    <2>1. c = [mode |-> n, pixels |-> size(n + 1)]
      BY <1>5 DEF Better
    <2>2. c.mode = n /\ c.pixels = size(n + 1) /\ c \in [mode : Nat, pixels : Nat]
      BY <1>2, <2>1
    <2>3. \A k \in 1 .. n + 1 : modes[k].readable => size(k) <= c.pixels
      <3>1. \A k \in 1 .. n : modes[k].readable => size(k) <= b.pixels
        BY DEF BestOf
      <3> HIDE DEF size, c
      <3> QED
        BY <1>2, <1>3, <1>4, <1>5, <2>2, <3>1
    <2>4. \E k \in 1 .. n + 1 : modes[k].readable
      BY <1>5
    <2>5. c.mode + 1 \in 1 .. n + 1 /\ c.mode + 1 = n + 1
      BY <2>2
    <2>6. modes[c.mode + 1].readable /\ size(c.mode + 1) = c.pixels
      BY <1>5, <2>2, <2>5
    <2> HIDE DEF c
    <2>7. BestOf(c, modes, n + 1)
      BY <2>3, <2>4, <2>5, <2>6 DEF BestOf
    <2> QED
      BY <2>2, <2>7 DEF c
  <1>6. CASE ~(m.readable /\ size(n + 1) > b.pixels)
    <2>1. c = b
      BY <1>6 DEF Better
    <2>2. \A k \in 1 .. n + 1 : modes[k].readable => size(k) <= b.pixels
      <3>1. \A k \in 1 .. n : modes[k].readable => size(k) <= b.pixels
        BY DEF BestOf
      <3> HIDE DEF size
      <3> QED
        BY <1>2, <1>3, <1>4, <1>6, <3>1
    <2>3. CASE \E k \in 1 .. n + 1 : modes[k].readable
      <3>1. \E k \in 1 .. n : modes[k].readable
        <4>1. ASSUME ~(\E k \in 1 .. n : modes[k].readable) PROVE FALSE
          <5>1. b.pixels = 0
            BY <4>1 DEF BestOf
          <5>2. m.readable
            BY <2>3, <4>1
          <5> HIDE DEF size
          <5> QED
            BY <1>2, <1>6, <5>1, <5>2
        <4> QED
          BY <4>1
      <3>2. b.mode + 1 \in 1 .. n /\ modes[b.mode + 1].readable /\ size(b.mode + 1) = b.pixels
        BY <3>1 DEF BestOf
      <3>3. b.mode + 1 \in 1 .. n + 1
        BY <3>2
      <3> QED
        BY <2>1, <2>2, <2>3, <3>2, <3>3 DEF BestOf
    <2>4. CASE ~(\E k \in 1 .. n + 1 : modes[k].readable)
      <3>1. b = [mode |-> 0, pixels |-> 0]
        BY <2>4 DEF BestOf
      <3> QED
        BY <2>1, <2>2, <2>4, <3>1 DEF BestOf
    <2> QED
      BY <2>3, <2>4
  <1> QED
    BY <1>5, <1>6

LEMMA FirmwareKept == FirmwareSound /\ UNCHANGED firmware => FirmwareSound'
  BY DEF FirmwareSound, firmware

LEMMA EntryStutter == EntryInv /\ UNCHANGED entryVars => EntryInv'
  <1> SUFFICES ASSUME EntryInv, UNCHANGED entryVars PROVE EntryInv'
    OBVIOUS
  <1>1. FirmwareSound'
    BY FirmwareKept DEF entryVars, EntryInv
  <1>2. EntryTyped' /\ DiskTaken'
    BY DEF entryVars, firmware, EntryInv, EntryTyped, DiskTaken, IsFixed
  <1>3. GopTaken'
    BY DEF entryVars, firmware, EntryInv, GopTaken
  <1>4. ModeTaken'
    BY DEF entryVars, firmware, EntryInv, ModeTaken, BestOf
  <1> QED
    BY <1>1, <1>2, <1>3, <1>4 DEF EntryInv

LEMMA FindGopInv == EntryInv /\ FindGop => EntryInv'
  <1> SUFFICES ASSUME EntryInv, FindGop PROVE EntryInv'
    OBVIOUS
  <1>1. /\ epc = "gop" /\ epc' = "gop" /\ at \in Nat /\ at' = at + 1 /\ at < Len(displays)
        /\ UNCHANGED <<firmware, displays, disks, gBlockIO, best>>
    BY DEF FindGop, firmware, EntryInv, EntryTyped
  <1>2. FirmwareSound'
    BY <1>1, FirmwareKept DEF EntryInv
  <1>3. at + 1 \in DOMAIN displays /\ Len(displays) \in Nat
    BY <1>1 DEF EntryInv, FirmwareSound
  <1>4. EntryTyped' /\ ModeTaken' /\ DiskTaken'
    BY <1>1, <1>3 DEF EntryInv, EntryTyped, ModeTaken, DiskTaken
  <1>5. GopTaken'
    <2>1. CASE gGOP = 0 /\ displays[at + 1].works
      <3>1. gGOP' = at + 1 /\ current' = displays[at + 1].current
        BY <2>1 DEF FindGop
      <3>2. current' \in 0 .. Len(displays[gGOP'].modes) - 1
        BY <1>3, <3>1, DisplayFacts DEF EntryInv
      <3> QED
        BY <1>1, <1>3, <3>1, <3>2 DEF GopTaken, EntryInv
    <2>2. CASE ~(gGOP = 0 /\ displays[at + 1].works)
      <3>1. UNCHANGED <<gGOP, current>>
        BY <2>2 DEF FindGop
      <3>2. ASSUME gGOP = 0, NEW k \in 1 .. at', k \in DOMAIN displays
            PROVE  ~displays[k].works
        <4>1. k \in 1 .. at \/ k = at + 1
          BY <1>1
        <4> QED
          BY <2>2, <3>2, <4>1 DEF EntryInv, GopTaken
      <3>3. gGOP # 0 => gGOP \in DOMAIN displays /\ current \in 0 .. Len(displays[gGOP].modes) - 1
        BY DEF EntryInv, GopTaken
      <3>4. best = [mode |-> 0, pixels |-> 0]
        BY <1>1 DEF EntryInv, GopTaken
      <3> QED
        BY <1>1, <1>3, <3>1, <3>2, <3>3, <3>4 DEF GopTaken
    <2> QED
      BY <2>1, <2>2
  <1> QED
    BY <1>2, <1>4, <1>5 DEF EntryInv

(* A display works, so the search finds one. *)
LEMMA GopFoundInv == EntryInv /\ GopFound => EntryInv'
  <1> SUFFICES ASSUME EntryInv, GopFound PROVE EntryInv'
    OBVIOUS
  <1>1. /\ epc = "gop" /\ at = Len(displays) /\ at' = 0
        /\ UNCHANGED <<firmware, displays, disks, gGOP, gBlockIO, current, best>>
    BY DEF GopFound, firmware
  <1>2. FirmwareSound'
    BY <1>1, FirmwareKept DEF EntryInv
  <1>3. gGOP # 0
    <2>1. PICK k \in DOMAIN displays : displays[k].works
      BY DEF EntryInv, FirmwareSound
    <2>2. k \in 1 .. at
      BY <1>1 DEF EntryInv, FirmwareSound
    <2> QED
      BY <2>1, <2>2 DEF EntryInv, GopTaken
  <1>4. epc' = "modes"
    BY <1>3 DEF GopFound
  <1>5. gGOP \in DOMAIN displays /\ current \in 0 .. Len(displays[gGOP].modes) - 1
    BY <1>3 DEF EntryInv, GopTaken
  <1>6. Len(displays[gGOP].modes) \in Nat
    BY <1>5, DisplayFacts DEF EntryInv
  <1>7. best = [mode |-> 0, pixels |-> 0]
    BY <1>1 DEF EntryInv, GopTaken
  <1>8. 1 .. 0 = {}
    OBVIOUS
  <1>9. BestOf(best, displays[gGOP].modes, 0)
    BY <1>7, <1>8 DEF BestOf
  <1>10. EntryTyped' /\ DiskTaken'
    BY <1>1, <1>4 DEF EntryInv, EntryTyped, DiskTaken
  <1>11. GopTaken' /\ ModeTaken'
    BY <1>1, <1>3, <1>4, <1>5, <1>6, <1>9 DEF GopTaken, ModeTaken
  <1> QED
    BY <1>2, <1>10, <1>11 DEF EntryInv

LEMMA QueryModeInv == EntryInv /\ QueryMode => EntryInv'
  <1> SUFFICES ASSUME EntryInv, QueryMode PROVE EntryInv'
    OBVIOUS
  <1> DEFINE modes == displays[gGOP].modes
  <1>1. /\ epc = "modes" /\ epc' = "modes" /\ at \in Nat /\ at' = at + 1 /\ at < Len(modes)
        /\ best' = Better(best, at, modes[at + 1])
        /\ UNCHANGED <<firmware, displays, disks, gGOP, gBlockIO, current>>
    BY DEF QueryMode, firmware, EntryInv, EntryTyped
  <1>2. FirmwareSound'
    BY <1>1, FirmwareKept DEF EntryInv
  <1>3. gGOP # 0 /\ gGOP \in DOMAIN displays /\ current \in 0 .. Len(modes) - 1
    BY <1>1 DEF EntryInv, GopTaken
  <1>4. modes \in Seq(GopModes)
    BY <1>3, DisplayFacts DEF EntryInv
  <1>5. BestOf(best, modes, at) /\ best \in [mode : Nat, pixels : Nat]
    BY <1>1 DEF EntryInv, ModeTaken, EntryTyped
  <1>6. BestOf(best', modes, at + 1) /\ best' \in [mode : Nat, pixels : Nat]
    <2> HIDE DEF modes
    <2> QED
      BY <1>1, <1>4, <1>5, BestOfNext
  <1>7. at + 1 <= Len(modes) /\ at + 1 \in Nat
    <2> HIDE DEF modes
    <2> QED
      BY <1>1, <1>4
  <1>8. EntryTyped' /\ DiskTaken'
    BY <1>1, <1>6, <1>7 DEF EntryInv, EntryTyped, DiskTaken
  <1>9. GopTaken'
    BY <1>1, <1>3, <1>7 DEF GopTaken
  <1>10. ModeTaken'
    BY <1>1, <1>6 DEF ModeTaken
  <1> QED
    BY <1>2, <1>8, <1>9, <1>10 DEF EntryInv

LEMMA SetModeInv == EntryInv /\ SetMode => EntryInv'
  <1> SUFFICES ASSUME EntryInv, SetMode PROVE EntryInv'
    OBVIOUS
  <1> DEFINE modes == displays[gGOP].modes
  <1>1. /\ epc = "modes" /\ epc' = "disk" /\ at = Len(modes) /\ at' = 0
        /\ current' = IF best.mode # current /\ displays[gGOP].sets THEN best.mode ELSE current
        /\ UNCHANGED <<firmware, displays, disks, gGOP, gBlockIO, best>>
    BY DEF SetMode, firmware
  <1>2. FirmwareSound'
    BY <1>1, FirmwareKept DEF EntryInv
  <1>3. gGOP # 0 /\ gGOP \in DOMAIN displays /\ current \in 0 .. Len(modes) - 1
    BY <1>1 DEF EntryInv, GopTaken
  <1>4. modes \in Seq(GopModes) /\ Len(modes) \in Nat
    BY <1>3, DisplayFacts DEF EntryInv
  <1>5. BestOf(best, modes, Len(modes)) /\ best \in [mode : Nat, pixels : Nat]
    BY <1>1 DEF EntryInv, ModeTaken, EntryTyped
  <1>6. best.mode \in 0 .. Len(modes) - 1
    <2> HIDE DEF modes
    <2>1. best.mode \in Nat
      BY <1>5
    <2>2. CASE \E m \in 1 .. Len(modes) : modes[m].readable
      <3>1. best.mode + 1 \in 1 .. Len(modes)
        BY <1>5, <2>2 DEF BestOf
      <3> QED
        BY <1>4, <2>1, <3>1
    <2>3. CASE ~(\E m \in 1 .. Len(modes) : modes[m].readable)
      <3>1. best.mode = 0
        BY <1>5, <2>3 DEF BestOf
      <3> QED
        BY <1>3, <1>4, <3>1 DEF EntryInv
    <2> QED
      BY <2>2, <2>3
  <1>7. current' \in 0 .. Len(modes) - 1 /\ (displays[gGOP].sets => current' = best.mode)
    BY <1>1, <1>3, <1>6
  <1>8. Len(disks) \in Nat /\ 1 .. 0 = {}
    BY DEF EntryInv, FirmwareSound
  <1>9. EntryTyped' /\ DiskTaken'
    BY <1>1, <1>8 DEF EntryInv, EntryTyped, DiskTaken
  <1>10. GopTaken'
    BY <1>1, <1>3, <1>7 DEF GopTaken
  <1>11. ModeTaken'
    BY <1>1, <1>5, <1>7 DEF ModeTaken
  <1> QED
    BY <1>2, <1>9, <1>10, <1>11 DEF EntryInv

LEMMA FindDiskInv == EntryInv /\ (FindDisk \/ NoDisk) => EntryInv'
  <1> SUFFICES ASSUME EntryInv, FindDisk \/ NoDisk PROVE EntryInv'
    OBVIOUS
  <1>1. /\ epc = "disk" /\ epc' \in {"disk", "image"} /\ at \in Nat /\ gBlockIO = 0
        /\ at <= Len(disks) /\ \A d \in 1 .. at : ~IsFixed(disks[d])
        /\ UNCHANGED <<firmware, displays, disks, gGOP, current, best>>
    BY DEF FindDisk, NoDisk, firmware, EntryInv, EntryTyped, DiskTaken
  <1>2. FirmwareSound' /\ Len(disks) \in Nat
    BY <1>1, FirmwareKept DEF EntryInv, FirmwareSound
  <1>3. GopTaken'
    BY <1>1 DEF EntryInv, GopTaken
  <1>4. ModeTaken'
    BY <1>1 DEF EntryInv, ModeTaken
  <1>5. best' \in [mode : Nat, pixels : Nat]
    BY <1>1 DEF EntryInv, EntryTyped
  <1>6. CASE NoDisk
    <2>1. at = Len(disks) /\ epc' = "image" /\ UNCHANGED <<at, gBlockIO>>
      BY <1>6 DEF NoDisk
    <2>2. EntryTyped' /\ DiskTaken'
      BY <1>1, <1>2, <1>5, <2>1 DEF EntryTyped, DiskTaken, IsFixed
    <2> QED
      BY <1>2, <1>3, <1>4, <2>2 DEF EntryInv
  <1>7. CASE FindDisk
    <2>1. at < Len(disks) /\ at' = at + 1
      BY <1>7 DEF FindDisk
    <2>2. CASE IsFixed(disks[at + 1])
      <3>1. gBlockIO' = at + 1 /\ epc' = "image"
        BY <1>7, <2>2 DEF FindDisk
      <3>2. at + 1 # 0 /\ (at + 1) - 1 = at /\ at + 1 \in 0 .. Len(disks) /\ at + 1 \in Nat
        BY <1>1, <1>2, <2>1
      <3>3. EntryTyped' /\ DiskTaken'
        BY <1>1, <1>5, <2>1, <2>2, <3>1, <3>2 DEF EntryTyped, DiskTaken, IsFixed
      <3> QED
        BY <1>2, <1>3, <1>4, <3>3 DEF EntryInv
    <2>3. CASE ~IsFixed(disks[at + 1])
      <3>1. UNCHANGED <<gBlockIO, epc>>
        BY <1>7, <2>3 DEF FindDisk
      <3>2. \A d \in 1 .. at + 1 : d \in 1 .. at \/ d = at + 1
        BY <1>1
      <3>3. \A d \in 1 .. at + 1 : ~IsFixed(disks[d])
        BY <1>1, <2>3, <3>2
      <3>4. at + 1 <= Len(disks) /\ at + 1 \in Nat
        BY <1>1, <1>2, <2>1
      <3>5. EntryTyped' /\ DiskTaken'
        BY <1>1, <1>2, <1>5, <2>1, <3>1, <3>3, <3>4 DEF EntryTyped, DiskTaken, IsFixed
      <3> QED
        BY <1>2, <1>3, <1>4, <3>5 DEF EntryInv
    <2> QED
      BY <2>2, <2>3
  <1> QED
    BY <1>6, <1>7

LEMMA LocateImageInv == EntryInv /\ LocateImage => EntryInv'
  <1> SUFFICES ASSUME EntryInv, LocateImage PROVE EntryInv'
    OBVIOUS
  <1>1. /\ epc = "image" /\ epc' = "entered"
        /\ UNCHANGED <<firmware, displays, disks, gGOP, gBlockIO, current, at, best>>
    BY DEF LocateImage, firmware
  <1>2. FirmwareSound'
    BY <1>1, FirmwareKept DEF EntryInv
  <1>3. EntryTyped' /\ DiskTaken'
    BY <1>1 DEF EntryInv, EntryTyped, DiskTaken, IsFixed
  <1>4. GopTaken' /\ ModeTaken'
    BY <1>1 DEF EntryInv, GopTaken, ModeTaken
  <1> QED
    BY <1>2, <1>3, <1>4 DEF EntryInv

LEMMA EntryInvInductive == EntryInv /\ [EntryNext]_entryVars => EntryInv'
  BY EntryStutter, FindGopInv, GopFoundInv, QueryModeInv, SetModeInv, FindDiskInv, LocateImageInv
     DEF EntryNext

-----------------------------------------------------------------------------
(* The renderer.  The mode is one the firmware told about. *)
ModeTyped ==
  /\ mode.hres \in Nat \ {0} /\ mode.vres \in Nat \ {0} /\ mode.pitch \in Nat \ {0}
  /\ mode.hres <= mode.pitch

Attrs  == {"hilite", "normal"}
Glyphs == [row : 0 .. TextRows - 1, col : 0 .. TextCols - 1,
           cell : [ch : 32 .. 126, attr : Attrs]]

LEMMA Quotient == ASSUME NEW a \in Nat, NEW b \in Nat \ {0} PROVE a \div b \in Nat
  BY SMT

LEMMA GridTyped == ModeTyped => TextRows \in Nat /\ TextCols \in Nat
  <1> SUFFICES ASSUME ModeTyped PROVE TextRows \in Nat /\ TextCols \in Nat
    OBVIOUS
  <1>1. {FONT_W, FONT_H, MAX_COLS, MAX_ROWS} \subseteq Nat \ {0}
    BY ScreenAssumption
  <1>2. mode.hres \div FONT_W \in Nat /\ mode.vres \div FONT_H \in Nat
    BY <1>1, Quotient DEF ModeTyped
  <1> QED
    BY <1>1, <1>2 DEF TextRows, TextCols, AtMost

(* What vga_write renders: glyphs from a column on, in one row, and all of  *)
(* the string that the grid has room for.                                   *)
Wrote(gs, row, col, s, attr) ==
  /\ gs \in Seq(Glyphs) /\ Len(gs) \in Nat /\ Len(gs) <= Len(s)
  /\ \A k \in 1 .. Len(gs) : gs[k] = [row |-> row, col |-> col + k - 1,
                                     cell |-> [ch |-> Glyph(s[k]), attr |-> attr]]
  /\ row < TextRows => \A k \in 1 .. Len(s) : col + k - 1 < TextCols => k <= Len(gs)

LEMMA WriteIs ==
  ASSUME ModeTyped, NEW row \in Nat, NEW col \in Nat, NEW s \in Seq(Nat), NEW attr \in Attrs
  PROVE  Wrote(Write(row, col, s, attr), row, col, s, attr)
  <1> DEFINE gs == Write(row, col, s, attr)
             n  == IF row < TextRows THEN Clipped(col, Len(s)) ELSE 0
             glyph(k) == [row |-> row, col |-> col + k - 1,
                          cell |-> [ch |-> Glyph(s[k]), attr |-> attr]]
  <1>1. TextRows \in Nat /\ TextCols \in Nat /\ Len(s) \in Nat
    BY GridTyped
  <1> HIDE DEF ModeTyped
  <1>2. n \in Nat /\ n <= Len(s) /\ \A k \in 1 .. n : row < TextRows /\ col + k - 1 < TextCols
    BY <1>1 DEF Clipped, AtMost
  <1>3. row < TextRows => \A k \in 1 .. Len(s) : col + k - 1 < TextCols => k <= n
    BY <1>1 DEF Clipped, AtMost
  <1>4. gs = [k \in 1 .. n |-> glyph(k)]
    <2>1. CASE row < TextRows
      BY <1>1, <2>1 DEF Write
    <2>2. CASE ~(row < TextRows)
      <3>1. gs = <<>> /\ n = 0
        BY <1>1, <2>2 DEF Write
      <3> QED
        BY <3>1
    <2> QED
      BY <2>1, <2>2
  <1> HIDE DEF n
  <1>5. ASSUME NEW k \in 1 .. n PROVE glyph(k) \in Glyphs
    <2>1. row \in 0 .. TextRows - 1 /\ col + k - 1 \in 0 .. TextCols - 1
      BY <1>1, <1>2
    <2>2. Glyph(s[k]) \in 32 .. 126
      BY DEF Glyph, Space
    <2> QED
      BY <2>1, <2>2 DEF Glyphs
  <1> HIDE DEF glyph
  <1>6. [k \in 1 .. n |-> glyph(k)] \in [1 .. n -> Glyphs]
    BY <1>5
  <1>7. gs \in Seq(Glyphs) /\ Len(gs) = n
    BY <1>2, <1>4, <1>6, SequenceOf
  <1>8. \A k \in 1 .. n : gs[k] = glyph(k)
    BY <1>4
  <1> HIDE DEF gs
  <1>9. \A k \in 1 .. Len(gs) : gs[k] = glyph(k)
    BY <1>7, <1>8
  <1>10. row < TextRows => \A k \in 1 .. Len(s) : col + k - 1 < TextCols => k <= Len(gs)
    BY <1>3, <1>7
  <1>11. Len(gs) \in Nat /\ Len(gs) <= Len(s)
    BY <1>2, <1>7
  <1> QED
    BY <1>7, <1>9, <1>10, <1>11, Zenon DEF gs, glyph, Wrote

LEMMA FillTyped ==
  ASSUME NEW n \in Nat
  PROVE  LET s == [k \in 1 .. n |-> Space]
         IN  s \in Seq(Nat) /\ Len(s) = n /\ \A k \in 1 .. n : Glyph(s[k]) = Space
  <1> DEFINE s == [k \in 1 .. n |-> Space]
  <1>1. s \in [1 .. n -> Nat]
    BY DEF Space
  <1>2. \A k \in 1 .. n : Glyph(s[k]) = Space
    BY DEF Glyph, Space
  <1> HIDE DEF s
  <1> QED
    BY <1>1, <1>2, SequenceOf DEF s

LEMMA MarkerTyped ==
  ASSUME NEW selected \in BOOLEAN
  PROVE  /\ Marker(selected) \in Seq(Nat) /\ Len(Marker(selected)) = 2
         /\ Glyph(Marker(selected)[1]) = IF selected THEN 62 ELSE Space
         /\ Glyph(Marker(selected)[2]) = Space
  BY DEF Marker, Space, Glyph

-----------------------------------------------------------------------------
(* The last glyph of a sequence that is rendered in a cell. *)
Shows(gs, c, cell) ==
  \E k \in 1 .. Len(gs) : /\ Cell(gs[k]) = c /\ gs[k].cell = cell
                          /\ \A j \in k + 1 .. Len(gs) : Cell(gs[j]) # c
Misses(gs, c) == \A k \in 1 .. Len(gs) : Cell(gs[k]) # c

LEMMA Joined ==
  ASSUME NEW S, NEW s \in Seq(S), NEW t \in Seq(S)
  PROVE  /\ s \o t \in Seq(S) /\ Len(s) \in Nat /\ Len(t) \in Nat
         /\ Len(s \o t) = Len(s) + Len(t)
         /\ \A j \in 1 .. Len(s) : (s \o t)[j] = s[j]
         /\ \A j \in 1 .. Len(t) : (s \o t)[Len(s) + j] = t[j]
         /\ \A k \in 1 .. Len(s) + Len(t) :
              k \in 1 .. Len(s) \/ \E j \in 1 .. Len(t) : k = Len(s) + j
  <1>1. /\ s \o t \in Seq(S) /\ Len(s) \in Nat /\ Len(t) \in Nat
        /\ Len(s \o t) = Len(s) + Len(t)
        /\ \A q \in 1 .. Len(s) + Len(t) :
             (s \o t)[q] = IF q <= Len(s) THEN s[q] ELSE t[q - Len(s)]
    BY LenProperties, ConcatProperties
  <1> DEFINE m == Len(s)
             n == Len(t)
             u == s \o t
  <1>2. /\ m \in Nat /\ n \in Nat
        /\ \A q \in 1 .. m + n : u[q] = IF q <= m THEN s[q] ELSE t[q - m]
    BY <1>1
  <1> HIDE DEF m, n, u
  <1>3. \A j \in 1 .. m : u[j] = s[j]
    BY <1>2
  <1>4. \A j \in 1 .. n : u[m + j] = t[j]
    BY <1>2
  <1>5. ASSUME NEW k \in 1 .. m + n PROVE k \in 1 .. m \/ \E j \in 1 .. n : k = m + j
    <2>1. k > m => k - m \in 1 .. n /\ k = m + (k - m)
      BY <1>2
    <2> QED
      BY <1>2, <2>1
  <1> QED
    BY <1>1, <1>3, <1>4, <1>5 DEF m, n, u

LEMMA ShowsLater ==
  ASSUME NEW S, NEW s \in Seq(S), NEW t \in Seq(S), NEW c, NEW cell, Shows(t, c, cell)
  PROVE  Shows(s \o t, c, cell)
  <1> DEFINE u == s \o t
  <1>1. /\ Len(s) \in Nat /\ Len(t) \in Nat /\ Len(u) = Len(s) + Len(t)
        /\ \A j \in 1 .. Len(t) : u[Len(s) + j] = t[j]
        /\ \A k \in 1 .. Len(s) + Len(t) :
             k \in 1 .. Len(s) \/ \E j \in 1 .. Len(t) : k = Len(s) + j
    BY Joined
  <1>2. PICK k \in 1 .. Len(t) : /\ Cell(t[k]) = c /\ t[k].cell = cell
                                 /\ \A j \in k + 1 .. Len(t) : Cell(t[j]) # c
    BY DEF Shows
  <1> HIDE DEF u
  <1>3. /\ Len(s) + k \in 1 .. Len(u)
        /\ Cell(u[Len(s) + k]) = c /\ u[Len(s) + k].cell = cell
    BY <1>1, <1>2
  <1>4. ASSUME NEW j \in Len(s) + k + 1 .. Len(u) PROVE Cell(u[j]) # c
    <2>1. j \in 1 .. Len(s) + Len(t) /\ j \notin 1 .. Len(s)
      BY <1>1, <1>2
    <2>2. PICK q \in 1 .. Len(t) : j = Len(s) + q
      BY <1>1, <2>1
    <2>3. q \in k + 1 .. Len(t)
      BY <1>1, <1>2, <2>2
    <2> QED
      BY <1>1, <1>2, <2>2, <2>3
  <1>5. Shows(u, c, cell)
    BY <1>3, <1>4 DEF Shows
  <1> QED
    BY <1>5 DEF u

LEMMA ShowsStill ==
  ASSUME NEW S, NEW s \in Seq(S), NEW t \in Seq(S), NEW c, NEW cell,
         Shows(s, c, cell), Misses(t, c)
  PROVE  Shows(s \o t, c, cell)
  <1> DEFINE u == s \o t
  <1>1. /\ Len(s) \in Nat /\ Len(t) \in Nat /\ Len(u) = Len(s) + Len(t)
        /\ \A j \in 1 .. Len(s) : u[j] = s[j]
        /\ \A j \in 1 .. Len(t) : u[Len(s) + j] = t[j]
        /\ \A k \in 1 .. Len(s) + Len(t) :
             k \in 1 .. Len(s) \/ \E j \in 1 .. Len(t) : k = Len(s) + j
    BY Joined
  <1>2. PICK k \in 1 .. Len(s) : /\ Cell(s[k]) = c /\ s[k].cell = cell
                                 /\ \A j \in k + 1 .. Len(s) : Cell(s[j]) # c
    BY DEF Shows
  <1> HIDE DEF u
  <1>3. k \in 1 .. Len(u) /\ Cell(u[k]) = c /\ u[k].cell = cell
    BY <1>1, <1>2
  <1>4. ASSUME NEW j \in k + 1 .. Len(u) PROVE Cell(u[j]) # c
    <2>1. j \in 1 .. Len(s) + Len(t)
      BY <1>1, <1>2
    <2>2. CASE j \in 1 .. Len(s)
      <3>1. j \in k + 1 .. Len(s)
        BY <2>2
      <3> QED
        BY <1>1, <1>2, <2>2, <3>1
    <2>3. CASE \E q \in 1 .. Len(t) : j = Len(s) + q
      BY <1>1, <2>3 DEF Misses
    <2> QED
      BY <1>1, <2>1, <2>2, <2>3
  <1>5. Shows(u, c, cell)
    BY <1>3, <1>4 DEF Shows
  <1> QED
    BY <1>5 DEF u

(* The cell then holds it. *)
LEMMA RenderedShows ==
  ASSUME NEW S, NEW gs \in Seq(S), NEW c, NEW cell, Shows(gs, c, cell)
  PROVE  Rendered(gs)[c] = cell
  <1> DEFINE inCell(d) == {k \in DOMAIN gs : Cell(gs[k]) = d}
  <1>1. DOMAIN gs = 1 .. Len(gs) /\ Len(gs) \in Nat
    BY LenProperties
  <1>2. PICK k \in 1 .. Len(gs) : /\ Cell(gs[k]) = c /\ gs[k].cell = cell
                                  /\ \A j \in k + 1 .. Len(gs) : Cell(gs[j]) # c
    BY DEF Shows
  <1>3. k \in inCell(c)
    BY <1>1, <1>2
  <1>4. \A j \in inCell(c) : j \in Int /\ j <= k
    BY <1>1, <1>2
  <1>5. Last(inCell(c)) = k
    <2> HIDE DEF inCell
    <2>1. /\ Last(inCell(c)) \in inCell(c)
          /\ \A j \in inCell(c) : j <= Last(inCell(c))
      <3>1. \A j \in inCell(c) : j <= k
        BY <1>4
      <3> QED
        BY <1>3, <3>1, Zenon DEF Last
    <2>2. Last(inCell(c)) <= k /\ k <= Last(inCell(c)) /\ Last(inCell(c)) \in Int
      BY <1>3, <1>4, <2>1
    <2> QED
      BY <2>2
  <1>6. c \in DOMAIN cells \cup {Cell(gs[j]) : j \in DOMAIN gs}
    BY <1>1, <1>2
  <1>7. Rendered(gs)[c] = gs[Last(inCell(c))].cell
    BY <1>3, <1>6 DEF Rendered
  <1> QED
    BY <1>2, <1>5, <1>7

LEMMA WriteShows ==
  ASSUME ModeTyped, NEW row \in Nat, NEW col \in Nat, NEW s \in Seq(Nat), NEW attr \in Attrs,
         row < TextRows, NEW k \in 1 .. Len(s), col + k - 1 < TextCols
  PROVE  Shows(Write(row, col, s, attr), <<row, col + k - 1>>,
               [ch |-> Glyph(s[k]), attr |-> attr])
  <1> DEFINE gs == Write(row, col, s, attr)
             cell(j) == [ch |-> Glyph(s[j]), attr |-> attr]
  <1>1. Wrote(gs, row, col, s, attr)
    BY WriteIs
  <1> HIDE DEF gs, cell
  <1>2. /\ Len(gs) \in Nat /\ k \in 1 .. Len(gs)
        /\ \A j \in 1 .. Len(gs) : gs[j] = [row |-> row, col |-> col + j - 1, cell |-> cell(j)]
    BY <1>1 DEF Wrote, cell
  <1>3. ASSUME NEW j \in 1 .. Len(gs)
        PROVE  Cell(gs[j]) = <<row, col + j - 1>> /\ gs[j].cell = cell(j)
    <2>1. gs[j] = [row |-> row, col |-> col + j - 1, cell |-> cell(j)]
      BY <1>2
    <2> QED
      BY <2>1 DEF Cell
  <1>4. \A j \in k + 1 .. Len(gs) : Cell(gs[j]) # <<row, col + k - 1>>
    <2> TAKE j \in k + 1 .. Len(gs)
    <2>1. j \in 1 .. Len(gs) /\ col + j - 1 # col + k - 1
      BY <1>2
    <2> QED
      BY <1>3, <2>1
  <1>5. Shows(gs, <<row, col + k - 1>>, cell(k))
    BY <1>2, <1>3, <1>4, Zenon DEF Shows
  <1> QED
    BY <1>5 DEF gs, cell

LEMMA WriteMisses ==
  ASSUME ModeTyped, NEW row \in Nat, NEW col \in Nat, NEW s \in Seq(Nat), NEW attr \in Attrs,
         NEW r \in Nat, NEW c \in Nat, r # row \/ c < col \/ c >= col + Len(s)
  PROVE  Misses(Write(row, col, s, attr), <<r, c>>)
  <1> DEFINE gs == Write(row, col, s, attr)
  <1>1. Wrote(gs, row, col, s, attr)
    BY WriteIs
  <1> HIDE DEF gs
  <1>2. ASSUME NEW j \in 1 .. Len(gs) PROVE Cell(gs[j]) # <<r, c>>
    <2>1. Cell(gs[j]) = <<row, col + j - 1>>
      <3>1. gs[j] = [row |-> row, col |-> col + j - 1,
                     cell |-> [ch |-> Glyph(s[j]), attr |-> attr]]
        BY <1>1 DEF Wrote
      <3> QED
        BY <3>1 DEF Cell
    <2>2. r # row \/ c # col + j - 1
      <3>1. Len(gs) \in Nat /\ Len(gs) <= Len(s) /\ Len(s) \in Nat
        BY <1>1, LenProperties DEF Wrote
      <3> QED
        BY <3>1
    <2> QED
      BY <2>1, <2>2
  <1> QED
    BY <1>2 DEF Misses, gs

(* A row of the menu: what it shows in a column, and nothing elsewhere. *)
EntryCell(name4, selected, col) ==
  [ch   |-> IF col = 2 /\ selected THEN 62
            ELSE IF col - 3 \in DOMAIN name4 THEN Glyph(name4[col - 3]) ELSE Space,
   attr |-> IF selected THEN "hilite" ELSE "normal"]

LEMMA FillShows ==
  ASSUME ModeTyped, NEW row \in Nat, NEW attr \in Attrs, row < TextRows,
         NEW col \in Nat, col < TextCols, col < VGA_COLS
  PROVE  Shows(Fill(row, 0, VGA_COLS, attr), <<row, col>>, [ch |-> Space, attr |-> attr])
  <1> DEFINE s == [k \in 1 .. VGA_COLS |-> Space]
  <1>1. VGA_COLS \in Nat
    BY ScreenAssumption
  <1>2. s \in Seq(Nat) /\ Len(s) = VGA_COLS /\ \A k \in 1 .. VGA_COLS : Glyph(s[k]) = Space
    BY <1>1, FillTyped
  <1>3. Fill(row, 0, VGA_COLS, attr) = Write(row, 0, s, attr)
    BY DEF Fill
  <1> HIDE DEF s
  <1>4. col + 1 \in 1 .. VGA_COLS /\ 0 + (col + 1) - 1 = col /\ 0 \in Nat
    BY <1>1
  <1>5. Shows(Write(row, 0, s, attr), <<row, 0 + (col + 1) - 1>>,
              [ch |-> Glyph(s[col + 1]), attr |-> attr])
    BY <1>2, <1>4, WriteShows
  <1> QED
    BY <1>2, <1>3, <1>4, <1>5

LEMMA FillMisses ==
  ASSUME ModeTyped, NEW row \in Nat, NEW attr \in Attrs,
         NEW r \in Nat, NEW c \in Nat, r # row
  PROVE  /\ Misses(Fill(row, 0, VGA_COLS, attr), <<r, c>>)
         /\ Fill(row, 0, VGA_COLS, attr) \in Seq(Glyphs)
  <1>1. VGA_COLS \in Nat
    BY ScreenAssumption
  <1>2. [k \in 1 .. VGA_COLS |-> Space] \in Seq(Nat)
    BY <1>1, FillTyped
  <1>3. 0 \in Nat
    OBVIOUS
  <1> QED
    BY <1>2, <1>3, WriteMisses, WriteIs DEF Fill, Wrote

LEMMA JoinedMisses ==
  ASSUME NEW S, NEW s \in Seq(S), NEW t \in Seq(S), NEW c, Misses(s, c), Misses(t, c)
  PROVE  Misses(s \o t, c)
  <1> DEFINE u == s \o t
  <1>1. /\ Len(s) \in Nat /\ Len(t) \in Nat /\ Len(u) = Len(s) + Len(t)
        /\ \A j \in 1 .. Len(s) : u[j] = s[j]
        /\ \A j \in 1 .. Len(t) : u[Len(s) + j] = t[j]
        /\ \A k \in 1 .. Len(s) + Len(t) :
             k \in 1 .. Len(s) \/ \E j \in 1 .. Len(t) : k = Len(s) + j
    BY Joined
  <1> HIDE DEF u
  <1>2. ASSUME NEW k \in 1 .. Len(u) PROVE Cell(u[k]) # c
    <2>1. k \in 1 .. Len(s) \/ \E j \in 1 .. Len(t) : k = Len(s) + j
      BY <1>1
    <2> QED
      BY <1>1, <2>1 DEF Misses
  <1> QED
    BY <1>2 DEF Misses, u

LEMMA EntryParts ==
  ASSUME ModeTyped, NEW row \in Nat, NEW s \in Seq(Nat), NEW selected \in BOOLEAN
  PROVE  LET attr == IF selected THEN "hilite" ELSE "normal"
         IN  /\ attr \in Attrs
             /\ Fill(row, 0, VGA_COLS, attr) \in Seq(Glyphs)
             /\ Write(row, 2, Marker(selected), attr) \in Seq(Glyphs)
             /\ Write(row, 4, s, attr) \in Seq(Glyphs)
             /\ Fill(row, 0, VGA_COLS, attr) \o Write(row, 2, Marker(selected), attr)
                  \in Seq(Glyphs)
             /\ EntryGlyphs(row, s, selected) \in Seq(Glyphs)
             /\ EntryGlyphs(row, s, selected)
                  = (Fill(row, 0, VGA_COLS, attr) \o Write(row, 2, Marker(selected), attr))
                      \o Write(row, 4, s, attr)
  <1> DEFINE attr == IF selected THEN "hilite" ELSE "normal"
             a == Fill(row, 0, VGA_COLS, attr)
             b == Write(row, 2, Marker(selected), attr)
             c == Write(row, 4, s, attr)
  <1>1. attr \in Attrs
    BY DEF Attrs
  <1>2. EntryGlyphs(row, s, selected) = (a \o b) \o c
    BY DEF EntryGlyphs
  <1> HIDE DEF attr
  <1>3. 2 \in Nat /\ 4 \in Nat /\ row + 1 \in Nat /\ row + 1 # row
    OBVIOUS
  <1>4. a \in Seq(Glyphs)
    BY <1>1, <1>3, FillMisses
  <1>5. b \in Seq(Glyphs)
    BY <1>1, <1>3, MarkerTyped, WriteIs DEF Wrote
  <1>6. c \in Seq(Glyphs)
    BY <1>1, <1>3, WriteIs DEF Wrote
  <1> HIDE DEF a, b, c
  <1>7. a \o b \in Seq(Glyphs)
    BY <1>4, <1>5, Joined
  <1>8. (a \o b) \o c \in Seq(Glyphs)
    BY <1>6, <1>7, Joined
  <1> QED
    BY <1>1, <1>2, <1>4, <1>5, <1>6, <1>7, <1>8 DEF a, b, c, attr

LEMMA EntryMisses ==
  ASSUME ModeTyped, NEW row \in Nat, NEW s \in Seq(Nat), NEW selected \in BOOLEAN,
         NEW r \in Nat, NEW col \in Nat, r # row
  PROVE  Misses(EntryGlyphs(row, s, selected), <<r, col>>)
  <1> DEFINE attr == IF selected THEN "hilite" ELSE "normal"
             a == Fill(row, 0, VGA_COLS, attr)
             b == Write(row, 2, Marker(selected), attr)
             c == Write(row, 4, s, attr)
  <1>1. /\ attr \in Attrs /\ a \in Seq(Glyphs) /\ b \in Seq(Glyphs) /\ c \in Seq(Glyphs)
        /\ a \o b \in Seq(Glyphs) /\ EntryGlyphs(row, s, selected) = (a \o b) \o c
    BY EntryParts
  <1> HIDE DEF attr
  <1>2. Misses(a, <<r, col>>)
    BY <1>1, FillMisses
  <1>3. Misses(b, <<r, col>>)
    <2>1. Marker(selected) \in Seq(Nat) /\ 2 \in Nat
      BY MarkerTyped
    <2> QED
      BY <1>1, <2>1, WriteMisses
  <1>4. Misses(c, <<r, col>>)
    BY <1>1, WriteMisses
  <1> HIDE DEF a, b, c
  <1>5. Misses(a \o b, <<r, col>>)
    BY <1>1, <1>2, <1>3, JoinedMisses
  <1> QED
    BY <1>1, <1>4, <1>5, JoinedMisses

LEMMA EntryShows ==
  ASSUME ModeTyped, NEW row \in Nat, NEW s \in Seq(Nat), NEW selected \in BOOLEAN,
         row < TextRows, NEW col \in Nat, col < TextCols, col < VGA_COLS
  PROVE  Shows(EntryGlyphs(row, s, selected), <<row, col>>, EntryCell(s, selected, col))
  <1> DEFINE attr == IF selected THEN "hilite" ELSE "normal"
             a == Fill(row, 0, VGA_COLS, attr)
             b == Write(row, 2, Marker(selected), attr)
             c == Write(row, 4, s, attr)
             n == Len(s)
             here == <<row, col>>
             Is(ch) == [ch |-> ch, attr |-> attr]
  <1>1. /\ attr \in Attrs /\ a \in Seq(Glyphs) /\ b \in Seq(Glyphs) /\ c \in Seq(Glyphs)
        /\ a \o b \in Seq(Glyphs) /\ EntryGlyphs(row, s, selected) = (a \o b) \o c
    BY EntryParts
  <1>2. n \in Nat /\ DOMAIN s = 1 .. n
    BY LenProperties
  <1>3. /\ Marker(selected) \in Seq(Nat) /\ Len(Marker(selected)) = 2
        /\ Glyph(Marker(selected)[1]) = IF selected THEN 62 ELSE Space
        /\ Glyph(Marker(selected)[2]) = Space
    BY MarkerTyped
  <1> HIDE DEF attr
  <1>4. Shows(a, here, Is(Space))
    BY <1>1, FillShows
  <1>5. CASE col - 3 \in 1 .. n
    <2>1. 4 \in Nat /\ 4 + (col - 3) - 1 = col
      BY <1>5
    <2>2. Shows(c, here, Is(Glyph(s[col - 3])))
      BY <1>1, <1>5, <2>1, WriteShows
    <2>3. Is(Glyph(s[col - 3])) = EntryCell(s, selected, col)
      BY <1>2, <1>5 DEF EntryCell, attr
    <2> HIDE DEF a, b, c, here, Is
    <2>4. Shows((a \o b) \o c, here, EntryCell(s, selected, col))
      BY <1>1, <2>2, <2>3, ShowsLater
    <2> QED
      BY <1>1, <2>4 DEF here
  <1>6. CASE col - 3 \notin 1 .. n
    <2>1. Misses(c, here)
      <3>1. row # row \/ col < 4 \/ col >= 4 + n
        BY <1>2, <1>6
      <3>2. 4 \in Nat
        OBVIOUS
      <3> QED
        BY <1>1, <3>1, <3>2, WriteMisses
    <2>2. CASE col \in {2, 3}
      <3>1. 2 \in Nat /\ col - 1 \in 1 .. 2 /\ 2 + (col - 1) - 1 = col
        BY <2>2
      <3>2. Shows(b, here, Is(Glyph(Marker(selected)[col - 1])))
        BY <1>1, <1>3, <3>1, WriteShows
      <3>3. Glyph(Marker(selected)[col - 1]) = IF col = 2 /\ selected THEN 62 ELSE Space
        BY <1>3, <2>2
      <3>4. Is(Glyph(Marker(selected)[col - 1])) = EntryCell(s, selected, col)
        BY <1>2, <1>6, <3>3 DEF EntryCell, attr
      <3> HIDE DEF a, b, c, here, Is
      <3>5. Shows(a \o b, here, EntryCell(s, selected, col))
        BY <1>1, <3>2, <3>4, ShowsLater
      <3>6. Shows((a \o b) \o c, here, EntryCell(s, selected, col))
        BY <1>1, <2>1, <3>5, ShowsStill
      <3> QED
        BY <1>1, <3>6 DEF here
    <2>3. CASE col \notin {2, 3}
      <3>1. Misses(b, here)
        <4>1. 2 \in Nat /\ (row # row \/ col < 2 \/ col >= 2 + 2)
          BY <2>3
        <4> QED
          BY <1>1, <1>3, <4>1, WriteMisses
      <3>2. Is(Space) = EntryCell(s, selected, col)
        BY <1>2, <1>6, <2>3 DEF EntryCell, attr
      <3> HIDE DEF a, b, c, here, Is
      <3>3. Shows(a \o b, here, EntryCell(s, selected, col))
        BY <1>1, <1>4, <3>1, <3>2, ShowsStill
      <3>4. Shows((a \o b) \o c, here, EntryCell(s, selected, col))
        BY <1>1, <2>1, <3>3, ShowsStill
      <3> QED
        BY <1>1, <3>4 DEF here
    <2> QED
      BY <2>2, <2>3
  <1> QED
    BY <1>5, <1>6

-----------------------------------------------------------------------------
(* The list: every row in its turn. *)
RowName(names, index) == IF index < Len(names) THEN names[index + 1] ELSE <<>>
RowCell(names, sel, top, k, col) == EntryCell(RowName(names, top + k), top + k = sel, col)

LEMMA RowIs ==
  ASSUME ModeTyped, NEW names \in Seq(Seq(Nat)), NEW sel \in Nat, NEW top \in Nat,
         NEW k \in Nat, sel < Len(names)
  PROVE  /\ RowGlyphs(names, sel, top, k) \in Seq(Glyphs)
         /\ \A r \in Nat, col \in Nat :
              r # ENTRY_TOP + k => Misses(RowGlyphs(names, sel, top, k), <<r, col>>)
         /\ ENTRY_TOP + k < TextRows =>
              \A col \in Nat : col < TextCols /\ col < VGA_COLS =>
                Shows(RowGlyphs(names, sel, top, k), <<ENTRY_TOP + k, col>>,
                      RowCell(names, sel, top, k, col))
  <1> DEFINE row == ENTRY_TOP + k
             gs == RowGlyphs(names, sel, top, k)
             selected == top + k = sel
  <1>1. row \in Nat /\ top + k \in Nat /\ Len(names) \in Nat /\ selected \in BOOLEAN
    BY ScreenAssumption, LenProperties
  <1>2. CASE top + k < Len(names)
    <2> DEFINE s == names[top + k + 1]
    <2>1. s \in Seq(Nat)
      <3>1. top + k + 1 \in 1 .. Len(names)
        BY <1>1, <1>2
      <3> QED
        BY <3>1, ElementOfSeq
    <2>2. gs = EntryGlyphs(row, s, selected)
      BY <1>2 DEF RowGlyphs
    <2>3. \A col \in Nat : RowCell(names, sel, top, k, col) = EntryCell(s, selected, col)
      BY <1>2 DEF RowCell, RowName
    <2> HIDE DEF row, gs, selected, s
    <2>4. gs \in Seq(Glyphs)
      BY <1>1, <2>1, <2>2, EntryParts
    <2>5. \A r \in Nat, col \in Nat : r # row => Misses(gs, <<r, col>>)
      BY <1>1, <2>1, <2>2, EntryMisses
    <2>6. row < TextRows =>
            \A col \in Nat : col < TextCols /\ col < VGA_COLS =>
              Shows(gs, <<row, col>>, RowCell(names, sel, top, k, col))
      BY <1>1, <2>1, <2>2, <2>3, EntryShows
    <2> QED
      BY <2>4, <2>5, <2>6 DEF row, gs
  <1>3. CASE ~(top + k < Len(names))
    <2>1. gs = Fill(row, 0, VGA_COLS, "normal") /\ "normal" \in Attrs
      BY <1>3 DEF RowGlyphs, Attrs
    <2>2. \A col \in Nat : RowCell(names, sel, top, k, col) = [ch |-> Space, attr |-> "normal"]
      <3>1. ~selected
        BY <1>1, <1>3
      <3>2. RowName(names, top + k) = <<>> /\ DOMAIN <<>> = {}
        BY <1>3 DEF RowName
      <3> QED
        BY <3>1, <3>2 DEF RowCell, EntryCell
    <2> HIDE DEF row, gs, selected
    <2>3. row + 1 \in Nat /\ row + 1 # row /\ 0 \in Nat
      BY <1>1
    <2>4. gs \in Seq(Glyphs)
      BY <1>1, <2>1, <2>3, FillMisses
    <2>5. \A r \in Nat, col \in Nat : r # row => Misses(gs, <<r, col>>)
      BY <1>1, <2>1, FillMisses
    <2>6. row < TextRows =>
            \A col \in Nat : col < TextCols /\ col < VGA_COLS =>
              Shows(gs, <<row, col>>, RowCell(names, sel, top, k, col))
      BY <1>1, <2>1, <2>2, FillShows
    <2> QED
      BY <2>4, <2>5, <2>6 DEF row, gs
  <1> QED
    BY <1>2, <1>3

ListMade(f, names, sel, top) ==
  /\ f \in [0 .. VISIBLE -> Seq(Glyphs)] /\ f[0] = <<>>
  /\ \A k \in 1 .. VISIBLE : f[k] = f[k - 1] \o RowGlyphs(names, sel, top, k - 1)

LEMMA ListIs ==
  ASSUME ModeTyped, NEW names \in Seq(Seq(Nat)), NEW sel \in Nat, NEW top \in Nat,
         sel < Len(names)
  PROVE  \E f : ListMade(f, names, sel, top) /\ ListGlyphs(names, sel, top) = f[VISIBLE]
  <1> DEFINE S == Seq(Glyphs)
             row(k) == RowGlyphs(names, sel, top, k - 1)
             step == [k \in 1 .. VISIBLE |-> [s \in S |-> s \o row(k)]]
             IsList(f) == f = [k \in 0 .. VISIBLE |->
                                 IF k = 0 THEN <<>> ELSE f[k - 1] \o RowGlyphs(names, sel, top, k - 1)]
  <1>1. VISIBLE \in Nat /\ <<>> \in S
    BY ScreenAssumption
  <1>2. ASSUME NEW k \in 1 .. VISIBLE, NEW s \in S PROVE s \o row(k) \in S
    <2>1. k - 1 \in Nat
      BY <1>1
    <2>2. row(k) \in S
      BY <2>1, RowIs
    <2> HIDE DEF row
    <2> QED
      BY <2>2, Joined
  <1>3. step \in [1 .. VISIBLE -> [S -> S]]
    <2> HIDE DEF row, S
    <2> QED
      BY <1>2
  <1>4. \E f : Steps(f, VISIBLE, <<>>, S, step)
    <2> HIDE DEF S, step
    <2> QED
      BY <1>1, <1>3, Iterated
  <1>5. PICK f : Steps(f, VISIBLE, <<>>, S, step)
    BY <1>4
  <1>6. f \in [0 .. VISIBLE -> S] /\ f[0] = <<>>
    BY <1>5 DEF Steps
  <1>7. \A k \in 1 .. VISIBLE : f[k] = f[k - 1] \o row(k)
    <2> TAKE k \in 1 .. VISIBLE
    <2>1. k - 1 \in 0 .. VISIBLE
      BY <1>1
    <2>2. f[k - 1] \in S
      BY <1>6, <2>1
    <2>3. f[k] = step[k][f[k - 1]]
      BY <1>5 DEF Steps
    <2> HIDE DEF S, row
    <2> QED
      BY <2>2, <2>3
  <1>8. IsList(f)
    <2>1. \A k \in 0 .. VISIBLE : k = 0 \/ k \in 1 .. VISIBLE
      BY <1>1
    <2>2. \A k \in 0 .. VISIBLE : f[k] = IF k = 0 THEN <<>> ELSE f[k - 1] \o row(k)
      BY <1>1, <1>6, <1>7, <2>1
    <2> HIDE DEF S
    <2> QED
      BY <1>6, <2>2
  <1> DEFINE g == CHOOSE g : IsList(g)
  <1>9. IsList(g)
    BY <1>8
  <1>10. ListGlyphs(names, sel, top) = g[VISIBLE]
    BY DEF ListGlyphs
  <1> HIDE DEF g
  <1>11. g[0] = <<>> /\ \A k \in 1 .. VISIBLE : g[k] = g[k - 1] \o row(k)
    <2>1. 0 \in 0 .. VISIBLE /\ \A k \in 1 .. VISIBLE : k \in 0 .. VISIBLE /\ k # 0
      BY <1>1
    <2> QED
      BY <1>9, <2>1, Zenon
  <1> DEFINE Good == {k \in 0 .. VISIBLE : g[k] \in S}
  <1>12. 0 \in Good
    <2>1. 0 \in 0 .. VISIBLE
      BY <1>1
    <2>2. g[0] \in S
      BY <1>1, <1>11, Zenon
    <2> QED
      BY <2>1, <2>2
  <1>13. ASSUME NEW k \in 1 .. VISIBLE, k - 1 \in Good PROVE k \in Good
    <2>1. g[k - 1] \in S
      BY <1>13
    <2>2. g[k] \in S
      <3> HIDE DEF S, row
      <3> QED
        BY <1>2, <1>11, <2>1
    <2> QED
      BY <2>2
  <1>14. \A k \in 0 .. VISIBLE : k \in Good
    <2> HIDE DEF Good
    <2> QED
      BY <1>1, <1>12, <1>13, Upwards
  <1>15. g \in [0 .. VISIBLE -> S]
    BY <1>9, <1>14
  <1> QED
    BY <1>10, <1>11, <1>15 DEF ListMade

(* What the menu then shows, and that all of it is in the grid. *)
LEMMA ListShows ==
  ASSUME ModeTyped, NEW names \in Seq(Seq(Nat)), NEW sel \in Nat, NEW top \in Nat,
         sel < Len(names)
  PROVE  /\ ListGlyphs(names, sel, top) \in Seq(Glyphs)
         /\ \A k \in 0 .. VISIBLE - 1, col \in Nat :
              ENTRY_TOP + k < TextRows /\ col < TextCols /\ col < VGA_COLS =>
                Shows(ListGlyphs(names, sel, top), <<ENTRY_TOP + k, col>>,
                      RowCell(names, sel, top, k, col))
  <1>1. PICK f : ListMade(f, names, sel, top) /\ ListGlyphs(names, sel, top) = f[VISIBLE]
    BY ListIs
  <1>2. VISIBLE \in Nat /\ ENTRY_TOP \in Nat
    BY ScreenAssumption
  <1>3. \A m \in 0 .. VISIBLE : f[m] \in Seq(Glyphs)
    BY <1>1 DEF ListMade
  <1> DEFINE InGrid(k, col) == ENTRY_TOP + k < TextRows /\ col < TextCols /\ col < VGA_COLS
             place(k, col) == <<ENTRY_TOP + k, col>>
             cell(k, col) == RowCell(names, sel, top, k, col)
             Good == {m \in 0 .. VISIBLE : \A k \in 0 .. m - 1, col \in Nat :
                        InGrid(k, col) => Shows(f[m], place(k, col), cell(k, col))}
  <1>4. 0 \in Good
    BY <1>2
  <1>5. ASSUME NEW m \in 1 .. VISIBLE, m - 1 \in Good PROVE m \in Good
    <2> DEFINE row == RowGlyphs(names, sel, top, m - 1)
    <2>1. m - 1 \in Nat /\ m - 1 \in 0 .. VISIBLE /\ m \in 0 .. VISIBLE
      BY <1>2
    <2>2. f[m] = f[m - 1] \o row /\ f[m - 1] \in Seq(Glyphs)
      BY <1>1, <1>3, <2>1 DEF ListMade
    <2>3. /\ row \in Seq(Glyphs)
          /\ \A r \in Nat, col \in Nat :
              r # ENTRY_TOP + (m - 1) => Misses(row, <<r, col>>)
          /\ ENTRY_TOP + (m - 1) < TextRows =>
              \A col \in Nat : col < TextCols /\ col < VGA_COLS =>
                Shows(row, <<ENTRY_TOP + (m - 1), col>>, RowCell(names, sel, top, m - 1, col))
      BY <2>1, RowIs
    <2> HIDE DEF row
    <2>4. ASSUME NEW k \in 0 .. m - 1, NEW col \in Nat, InGrid(k, col)
          PROVE  Shows(f[m], place(k, col), cell(k, col))
      <3>1. CASE k = m - 1
        <4>1. Shows(row, place(k, col), cell(k, col))
          BY <2>3, <2>4, <3>1
        <4> HIDE DEF place, cell
        <4> QED
          BY <2>2, <2>3, <4>1, ShowsLater
      <3>2. CASE k # m - 1
        <4>1. k \in 0 .. (m - 1) - 1 /\ ENTRY_TOP + k \in Nat /\ ENTRY_TOP + k # ENTRY_TOP + (m - 1)
          BY <1>2, <2>1, <3>2
        <4>2. Misses(row, place(k, col))
          BY <2>3, <4>1
        <4>3. Shows(f[m - 1], place(k, col), cell(k, col))
          BY <1>5, <2>4, <4>1
        <4> HIDE DEF place, cell
        <4> QED
          BY <2>2, <2>3, <4>2, <4>3, ShowsStill
      <3> QED
        BY <3>1, <3>2
    <2> QED
      BY <2>1, <2>4
  <1>6. VISIBLE \in Good
    <2> HIDE DEF Good
    <2>1. \A m \in 0 .. VISIBLE : m \in Good
      BY <1>2, <1>4, <1>5, Upwards
    <2> QED
      BY <1>2, <2>1
  <1>7. VISIBLE \in 0 .. VISIBLE
    BY <1>2
  <1> QED
    BY <1>1, <1>3, <1>6, <1>7

-----------------------------------------------------------------------------
(* The frame buffer.  A glyph's bytes are nearer to its first line than the *)
(* firmware expects them, never further: four bytes to a pixel and pitch    *)
(* bytes to a line stay within pitch pixels to a line.                      *)
Bytes == [glyph : [ch : 32 .. 126, attr : Attrs \cup {"firmware"}], pixel : Nat \X Nat]

LEMMA Monotonic ==
  ASSUME NEW a \in Nat, NEW b \in Nat, a <= b, NEW p \in Nat
  PROVE  a * p <= b * p /\ a * p \in Nat /\ b * p \in Nat
  <1>1. (b - a) * p >= 0 /\ a * p \in Nat /\ b * p \in Nat
    BY SMT
  <1>2. (b - a) * p = b * p - a * p
    BY SMT
  <1> QED
    BY <1>1, <1>2

LEMMA Address ==
  ASSUME NEW x \in Nat, NEW y \in Nat, NEW pitch \in Nat \ {0}, NEW vres \in Nat \ {0},
         x < pitch, y < vres, NEW k \in 0 .. 3
  PROVE  y * pitch + x * 4 + k \in 0 .. pitch * vres * 4 - 1
  <1> DEFINE area == vres * pitch
             line == y * pitch
  <1>1. (y + 1) * pitch <= area /\ 1 * pitch <= area /\ area \in Nat /\ line \in Nat
    BY Monotonic
  <1>2. (y + 1) * pitch = line + pitch /\ 1 * pitch = pitch
    BY SMT
  <1>3. pitch * vres * 4 = area * 4
    BY SMT
  <1> HIDE DEF area, line
  <1>4. line + pitch <= area /\ pitch <= area
    BY <1>1, <1>2
  <1>5. line + x * 4 + k <= area * 4 - 1 /\ line + x * 4 + k >= 0
    BY <1>1, <1>4, SMT
  <1>6. line + x * 4 + k \in 0 .. area * 4 - 1
    BY <1>1, <1>5, SMT
  <1> QED
    BY <1>3, <1>6 DEF line

LEMMA PaintedInside ==
  ASSUME ModeTyped, NEW g \in Glyphs
  PROVE  /\ DOMAIN Painted(g) \subseteq FrameBuffer
         /\ \A a \in DOMAIN Painted(g) : Painted(g)[a] \in Bytes
  <1> DEFINE bytes(p) == {PixelAt(g.col * FONT_W + p[1], g.row * FONT_H + p[2]) + k : k \in 0 .. 3}
             region == UNION {bytes(p) : p \in Pixels(g)}
             byte(a) == [glyph |-> g.cell, pixel |-> CHOOSE p \in Pixels(g) : a \in bytes(p)]
  <1>1. Painted(g) = [a \in region |-> byte(a)]
    BY DEF Painted
  <1>2. /\ g.row \in Nat /\ g.col \in Nat
        /\ g.cell \in [ch : 32 .. 126, attr : Attrs \cup {"firmware"}]
    BY GridTyped DEF Glyphs
  <1>3. FONT_W \in Nat /\ FONT_H \in Nat
    BY ScreenAssumption
  <1>4. ASSUME NEW p \in Pixels(g)
        PROVE  /\ p \in Nat \X Nat
               /\ g.col * FONT_W + p[1] \in Nat /\ g.col * FONT_W + p[1] < mode.pitch
               /\ g.row * FONT_H + p[2] \in Nat /\ g.row * FONT_H + p[2] < mode.vres
    <2>1. /\ p \in (0 .. FONT_W - 1) \X (0 .. FONT_H - 1)
          /\ g.col * FONT_W + p[1] < mode.hres /\ g.row * FONT_H + p[2] < mode.vres
      BY DEF Pixels
    <2>2. p[1] \in Nat /\ p[2] \in Nat /\ p \in Nat \X Nat
      BY <1>3, <2>1
    <2>3. g.col * FONT_W \in Nat /\ g.row * FONT_H \in Nat
      BY <1>2, <1>3, Monotonic
    <2> QED
      BY <2>1, <2>2, <2>3 DEF ModeTyped
  <1>5. ASSUME NEW p \in Pixels(g), NEW a \in bytes(p) PROVE a \in FrameBuffer
    <2>1. PICK k \in 0 .. 3 : a = PixelAt(g.col * FONT_W + p[1], g.row * FONT_H + p[2]) + k
      OBVIOUS
    <2> DEFINE x == g.col * FONT_W + p[1]
               y == g.row * FONT_H + p[2]
    <2>2. x \in Nat /\ y \in Nat /\ x < mode.pitch /\ y < mode.vres
      BY <1>4
    <2>3. a = y * mode.pitch + x * 4 + k
      BY <2>1 DEF PixelAt
    <2> HIDE DEF x, y
    <2> QED
      BY <2>2, <2>3, Address DEF ModeTyped, FrameBuffer
  <1>6. ASSUME NEW a \in region PROVE byte(a) \in Bytes
    <2>1. \E p \in Pixels(g) : a \in bytes(p)
      BY Zenon
    <2> DEFINE q == CHOOSE p \in Pixels(g) : a \in bytes(p)
    <2>2. q \in Pixels(g)
      BY <2>1, Zenon
    <2> HIDE DEF q
    <2>3. q \in Nat \X Nat
      BY <1>4, <2>2
    <2> QED
      BY <1>2, <2>3 DEF Bytes, q
  <1> HIDE DEF byte
  <1>7. DOMAIN Painted(g) = region /\ \A a \in region : Painted(g)[a] = byte(a)
    BY <1>1
  <1>8. region \subseteq FrameBuffer
    <2> HIDE DEF bytes
    <2> QED
      BY <1>5, Zenon
  <1> HIDE DEF region
  <1> QED
    BY <1>6, <1>7, <1>8

LEMMA OverInside ==
  ASSUME NEW D, NEW V, NEW old \in [D -> V], NEW new,
         DOMAIN new \subseteq D, \A a \in DOMAIN new : new[a] \in V
  PROVE  Over(new, old) \in [D -> V]
  BY DEF Over

LEMMA AllPaintedInside ==
  ASSUME ModeTyped, NEW glyphs \in Seq(Glyphs), fb \in [FrameBuffer -> Bytes]
  PROVE  PaintedAll(glyphs) \in [FrameBuffer -> Bytes]
  <1> DEFINE S == [FrameBuffer -> Bytes]
             n == Len(glyphs)
             step == [k \in 1 .. n |-> [h \in S |-> Over(Painted(glyphs[k]), h)]]
             IsAfter(f) == f = [k \in 0 .. n |-> IF k = 0 THEN fb
                                                 ELSE Over(Painted(glyphs[k]), f[k - 1])]
  <1>1. n \in Nat /\ fb \in S
    BY LenProperties
  <1>2. ASSUME NEW k \in 1 .. n, NEW h \in S PROVE Over(Painted(glyphs[k]), h) \in S
    <2>1. glyphs[k] \in Glyphs
      BY ElementOfSeq
    <2>2. /\ DOMAIN Painted(glyphs[k]) \subseteq FrameBuffer
          /\ \A a \in DOMAIN Painted(glyphs[k]) : Painted(glyphs[k])[a] \in Bytes
      BY <2>1, PaintedInside
    <2> QED
      BY <2>2, OverInside
  <1> HIDE DEF S, n
  <1>3. step \in [1 .. n -> [S -> S]]
    BY <1>2
  <1> HIDE DEF step
  <1>4. PICK f : Steps(f, n, fb, S, step)
    BY <1>1, <1>3, Iterated
  <1>5. f \in [0 .. n -> S] /\ f[0] = fb
    BY <1>4 DEF Steps
  <1>6. \A k \in 1 .. n : f[k] = Over(Painted(glyphs[k]), f[k - 1])
    <2> TAKE k \in 1 .. n
    <2>1. k - 1 \in 0 .. n
      BY <1>1
    <2>2. f[k - 1] \in S
      BY <1>5, <2>1
    <2>3. f[k] = step[k][f[k - 1]]
      BY <1>4 DEF Steps
    <2> QED
      BY <2>2, <2>3 DEF step
  <1>7. IsAfter(f)
    <2>1. \A k \in 0 .. n : k = 0 \/ k \in 1 .. n
      BY <1>1
    <2>2. \A k \in 0 .. n : f[k] = IF k = 0 THEN fb ELSE Over(Painted(glyphs[k]), f[k - 1])
      BY <1>1, <1>5, <1>6, <2>1
    <2> QED
      BY <1>5, <2>2
  <1> DEFINE g == CHOOSE g : IsAfter(g)
  <1>8. IsAfter(g)
    BY <1>7
  <1>9. PaintedAll(glyphs) = g[n]
    BY DEF PaintedAll, n
  <1> HIDE DEF g
  <1>10. g[0] = fb /\ \A k \in 1 .. n : g[k] = Over(Painted(glyphs[k]), g[k - 1])
    <2>1. 0 \in 0 .. n /\ \A k \in 1 .. n : k \in 0 .. n /\ k # 0
      BY <1>1
    <2> QED
      BY <1>8, <2>1, Zenon
  <1> DEFINE Good == {k \in 0 .. n : g[k] \in S}
  <1>11. 0 \in Good
    <2>1. 0 \in 0 .. n
      BY <1>1
    <2> QED
      BY <1>1, <1>10, <2>1
  <1>12. ASSUME NEW k \in 1 .. n, k - 1 \in Good PROVE k \in Good
    <2>1. g[k - 1] \in S
      BY <1>12
    <2>2. g[k] \in S
      BY <1>2, <1>10, <2>1
    <2> QED
      BY <2>2
  <1>13. \A k \in 0 .. n : k \in Good
    <2> HIDE DEF Good
    <2> QED
      BY <1>1, <1>11, <1>12, Upwards
  <1>14. g[n] \in S
    BY <1>1, <1>13
  <1> QED
    BY <1>9, <1>14 DEF S

LEMMA RenderedInside ==
  ASSUME ModeTyped, NEW glyphs \in Seq(Glyphs), DOMAIN cells = Grid
  PROVE  DOMAIN Rendered(glyphs) = Grid
  <1>1. \A k \in DOMAIN glyphs : Cell(glyphs[k]) \in Grid
    <2> TAKE k \in DOMAIN glyphs
    <2>1. glyphs[k] \in Glyphs
      BY LenProperties, ElementOfSeq
    <2> QED
      BY <2>1 DEF Glyphs, Cell, Grid
  <1>2. DOMAIN Rendered(glyphs) = DOMAIN cells \cup {Cell(glyphs[k]) : k \in DOMAIN glyphs}
    BY DEF Rendered
  <1> QED
    BY <1>1, <1>2

-----------------------------------------------------------------------------
(* The screen, as kmain and the menu leave it. *)
ModeDrawn ==
  /\ epc = "entered"
  /\ LET info == displays[gGOP].modes[current + 1]
     IN  mode = [hres |-> info.hres, vres |-> info.vres, pitch |-> info.pitch]

ListSound == /\ list.names \in Seq(Seq(Nat)) /\ list.sel \in Nat /\ list.top \in Nat
             /\ list.sel < Len(list.names)

RowsShown ==
  \A k \in 0 .. VISIBLE - 1, col \in Nat :
    ENTRY_TOP + k < TextRows /\ col < TextCols /\ col < VGA_COLS =>
      cells[<<ENTRY_TOP + k, col>>] = RowCell(list.names, list.sel, list.top, k, col)

ScreenInv ==
  /\ EntryInv /\ NameInv
  /\ spc \in {"entry", "names", "menu"}
  /\ spc # "entry" => /\ ModeDrawn /\ DOMAIN cells = Grid
                      /\ fb \in [FrameBuffer -> Bytes]
  /\ spc = "menu" => ListSound /\ RowsShown

LEMMA InitScreenInv == ScreenInit => ScreenInv
  BY InitEntryInv, InitAnyName, NameInvInit DEF ScreenInit, ScreenInv

(* The mode the loader leaves the display in is one it was told about. *)
LEMMA ModeOfDisplay ==
  ASSUME EntryInv, epc = "entered"
  PROVE  LET info == displays[gGOP].modes[current + 1]
         IN  /\ info.hres \in Nat \ {0} /\ info.vres \in Nat \ {0} /\ info.pitch \in Nat \ {0}
             /\ info.hres <= info.pitch
  <1>1. gGOP \in DOMAIN displays /\ current \in 0 .. Len(displays[gGOP].modes) - 1
    BY DEF EntryInv, GopTaken
  <1>2. displays[gGOP].modes \in Seq(GopModes)
    BY <1>1, DisplayFacts DEF EntryInv
  <1>3. current + 1 \in 1 .. Len(displays[gGOP].modes) /\ current + 1 \in DOMAIN displays[gGOP].modes
    <2>1. Len(displays[gGOP].modes) \in Nat /\ DOMAIN displays[gGOP].modes = 1 .. Len(displays[gGOP].modes)
      BY <1>2, LenProperties
    <2> QED
      BY <1>1, <2>1
  <1>4. displays[gGOP].modes[current + 1].hres <= displays[gGOP].modes[current + 1].pitch
    BY <1>1, <1>3 DEF EntryInv, FirmwareSound
  <1> QED
    BY <1>2, <1>3, <1>4, ModeFacts

LEMMA ModeIsTyped == EntryInv /\ ModeDrawn => ModeTyped
  <1> SUFFICES ASSUME EntryInv, ModeDrawn PROVE ModeTyped
    OBVIOUS
  <1> DEFINE info == displays[gGOP].modes[current + 1]
  <1>1. /\ info.hres \in Nat \ {0} /\ info.vres \in Nat \ {0} /\ info.pitch \in Nat \ {0}
        /\ info.hres <= info.pitch
    BY ModeOfDisplay DEF ModeDrawn
  <1>2. mode = [hres |-> info.hres, vres |-> info.vres, pitch |-> info.pitch]
    BY DEF ModeDrawn
  <1> HIDE DEF info
  <1> QED
    BY <1>1, <1>2 DEF ModeTyped

LEMMA CStringTyped == ASSUME NEW s \in Seq(0 .. 127) PROVE CString(s) \in Seq(Nat)
  <1> DEFINE zeros == {k \in DOMAIN s : s[k] = 0}
             first == CHOOSE k \in zeros : \A z \in zeros : k <= z
  <1>1. DOMAIN s = 1 .. Len(s) /\ Len(s) \in Nat /\ \A k \in 1 .. Len(s) : s[k] \in Nat
    <2>1. \A k \in 1 .. Len(s) : s[k] \in 0 .. 127
      BY ElementOfSeq
    <2>2. DOMAIN s = 1 .. Len(s) /\ Len(s) \in Nat
      BY LenProperties
    <2>3. \A b \in 0 .. 127 : b \in Nat
      OBVIOUS
    <2> QED
      BY <2>1, <2>2, <2>3, Zenon
  <1>2. CASE zeros = {}
    <2>1. CString(s) = s
      BY <1>2 DEF CString
    <2>2. s \in Seq(Nat)
      BY <1>1
    <2> QED
      BY <2>1, <2>2
  <1>3. CASE zeros # {}
    <2>1. zeros \subseteq Nat
      BY <1>1
    <2>2. \E k \in zeros : \A z \in zeros : k <= z
      <3> HIDE DEF zeros
      <3> QED
        BY <1>3, <2>1, LeastIn
    <2>3. first \in zeros
      <3> HIDE DEF zeros
      <3> QED
        BY <2>2, Zenon
    <2>4. CString(s) = SubSeq(s, 1, first - 1)
      BY <1>3 DEF CString
    <2>5. first \in 1 .. Len(s)
      BY <1>1, <2>3
    <2> HIDE DEF first
    <2>6. \A k \in 1 .. first - 1 : s[k] \in Nat
      BY <1>1, <2>5
    <2>7. 1 \in Int /\ first - 1 \in Int
      BY <2>5
    <2> QED
      BY <2>4, <2>6, <2>7, SubSeqProperties
  <1> QED
    BY <1>2, <1>3

LEMMA NameStutter == NameInv /\ UNCHANGED nameVars => NameInv'
  BY NameInvNext

LEMMA EntryStepInv == ScreenInv /\ EntryNext /\ UNCHANGED <<nameVars, screenVars>> => ScreenInv'
  <1> SUFFICES ASSUME ScreenInv, EntryNext, UNCHANGED <<nameVars, screenVars>>
               PROVE  ScreenInv'
    OBVIOUS
  <1>1. epc # "entered"
    BY DEF EntryNext, FindGop, GopFound, QueryMode, SetMode, FindDisk, NoDisk, LocateImage
  <1>2. spc = "entry" /\ spc' = "entry"
    BY <1>1 DEF ScreenInv, ModeDrawn, screenVars
  <1>3. EntryInv' /\ NameInv'
    BY EntryInvInductive, NameStutter DEF ScreenInv
  <1> QED
    BY <1>2, <1>3 DEF ScreenInv

LEMMA ClearInv == ScreenInv /\ Clear => ScreenInv'
  <1> SUFFICES ASSUME ScreenInv, Clear PROVE ScreenInv'
    OBVIOUS
  <1>1. spc' = "names" /\ epc = "entered" /\ UNCHANGED <<nameVars, entryVars>>
    BY DEF Clear
  <1>2. EntryInv' /\ NameInv'
    BY <1>1, EntryStutter, NameStutter DEF ScreenInv
  <1>3. ModeDrawn'
    <2>1. UNCHANGED <<displays, gGOP, current, epc>>
      BY <1>1 DEF entryVars, firmware
    <2> QED
      BY <1>1, <2>1 DEF Clear, ModeDrawn
  <1>4. ModeTyped'
    <2>1. (EntryInv /\ ModeDrawn => ModeTyped)'
      BY ModeIsTyped, PTL
    <2> QED
      BY <1>2, <1>3, <2>1
  <1>5. DOMAIN cells' = Grid'
    BY DEF Clear
  <1>6. fb' \in [FrameBuffer -> Bytes]'
    <2> DEFINE area == mode'.pitch * mode'.vres
               buffer == 0 .. area * 4 - 1
               cleared == [a \in 0 .. area - 1 |-> Filled(Blank)]
               shown == [a \in buffer |-> Filled(Unknown)]
    <2>1. area \in Nat
      BY <1>4, Product DEF ModeTyped
    <2>2. buffer = FrameBuffer'
      BY DEF FrameBuffer
    <2>3. fb' = Over(cleared, shown)
      BY <2>2 DEF Clear
    <2>4. Filled(Blank) \in Bytes /\ Filled(Unknown) \in Bytes
      BY DEF Filled, Blank, Unknown, Bytes, Attrs, Space
    <2> HIDE DEF area
    <2>5. 0 .. area - 1 \subseteq buffer
      BY <2>1
    <2>6. shown \in [buffer -> Bytes]
      BY <2>4
    <2>7. DOMAIN cleared \subseteq buffer /\ \A a \in DOMAIN cleared : cleared[a] \in Bytes
      BY <2>4, <2>5
    <2> HIDE DEF buffer, cleared, shown
    <2>8. Over(cleared, shown) \in [buffer -> Bytes]
      BY <2>6, <2>7, OverInside
    <2>9. Bytes' = Bytes
      BY DEF Bytes, Attrs
    <2> QED
      BY <2>2, <2>3, <2>8
  <1> QED
    BY <1>1, <1>2, <1>3, <1>5, <1>6 DEF ScreenInv

LEMMA NameStepInv ==
  ScreenInv /\ spc = "names" /\ Next /\ UNCHANGED <<entryVars, screenVars>> => ScreenInv'
  <1> SUFFICES ASSUME ScreenInv, spc = "names", Next, UNCHANGED <<entryVars, screenVars>>
               PROVE  ScreenInv'
    OBVIOUS
  <1>1. UNCHANGED <<mode, cells, fb, list, spc, displays, gGOP, current, epc>>
    BY DEF entryVars, firmware, screenVars
  <1>2. EntryInv' /\ NameInv'
    BY EntryStutter, NameInvNext DEF ScreenInv
  <1>3. ModeDrawn' /\ DOMAIN cells' = Grid' /\ fb' \in [FrameBuffer -> Bytes]'
    BY <1>1 DEF ScreenInv, ModeDrawn, Grid, TextRows, TextCols, FrameBuffer
  <1> QED
    BY <1>1, <1>2, <1>3 DEF ScreenInv

LEMMA NoStepInv == ScreenInv /\ UNCHANGED <<nameVars, entryVars, screenVars>> => ScreenInv'
  <1> SUFFICES ASSUME ScreenInv, UNCHANGED <<nameVars, entryVars, screenVars>> PROVE ScreenInv'
    OBVIOUS
  <1>1. UNCHANGED <<mode, cells, fb, list, spc, displays, gGOP, current, epc>>
    BY DEF entryVars, firmware, screenVars
  <1>2. EntryInv' /\ NameInv'
    BY EntryStutter, NameStutter DEF ScreenInv
  <1>3. (ModeDrawn <=> ModeDrawn') /\ Grid' = Grid /\ FrameBuffer' = FrameBuffer
    BY <1>1 DEF ModeDrawn, Grid, TextRows, TextCols, FrameBuffer
  <1>4. (ListSound <=> ListSound') /\ (RowsShown <=> RowsShown')
    BY <1>1 DEF ListSound, RowsShown, TextRows, TextCols
  <1> QED
    BY <1>1, <1>2, <1>3, <1>4 DEF ScreenInv

LEMMA DrawListInv ==
  ASSUME ScreenInv, NEW top \in Nat, NEW sel \in Nat, DrawList(sel, top)
  PROVE  ScreenInv'
  <1> DEFINE names  == <<CString(out)>> \o OtherNames
             glyphs == ListGlyphs(names, sel, top)
  <1>1. /\ spc # "entry" /\ spc' = "menu" /\ mode' = mode
        /\ UNCHANGED <<nameVars, entryVars>> /\ sel < Len(names)
        /\ cells' = Rendered(glyphs) /\ fb' = PaintedAll(glyphs)
        /\ list' = [names |-> names, sel |-> sel, top |-> top]
    BY DEF DrawList
  <1>2. EntryInv' /\ NameInv'
    BY <1>1, EntryStutter, NameStutter DEF ScreenInv
  <1>3. ModeDrawn /\ ModeTyped /\ DOMAIN cells = Grid /\ fb \in [FrameBuffer -> Bytes]
    BY <1>1, ModeIsTyped DEF ScreenInv
  <1>4. names \in Seq(Seq(Nat))
    <2>1. CString(out) \in Seq(Nat)
      BY CStringTyped DEF ScreenInv, NameInv, NameTypeOK
    <2>2. <<CString(out)>> \in Seq(Seq(Nat))
      BY <2>1
    <2> QED
      BY <2>2, ScreenAssumption, Joined
  <1> HIDE DEF names
  <1>5. /\ glyphs \in Seq(Glyphs)
        /\ \A k \in 0 .. VISIBLE - 1, col \in Nat :
             ENTRY_TOP + k < TextRows /\ col < TextCols /\ col < VGA_COLS =>
               Shows(glyphs, <<ENTRY_TOP + k, col>>, RowCell(names, sel, top, k, col))
    BY <1>1, <1>3, <1>4, ListShows
  <1> HIDE DEF glyphs
  <1>6. Grid' = Grid /\ FrameBuffer' = FrameBuffer /\ TextRows' = TextRows /\ TextCols' = TextCols
    BY <1>1 DEF Grid, TextRows, TextCols, FrameBuffer
  <1>7. DOMAIN cells' = Grid' /\ fb' \in [FrameBuffer -> Bytes]'
    BY <1>1, <1>3, <1>5, <1>6, RenderedInside, AllPaintedInside
  <1>8. ModeDrawn'
    <2>1. UNCHANGED <<displays, gGOP, current, epc>>
      BY <1>1 DEF entryVars, firmware
    <2> QED
      BY <1>1, <1>3, <2>1 DEF ModeDrawn
  <1>9. ListSound'
    BY <1>1, <1>4 DEF ListSound
  <1>10. RowsShown'
    <2>1. ASSUME NEW k \in 0 .. VISIBLE - 1, NEW col \in Nat,
                 ENTRY_TOP + k < TextRows, col < TextCols, col < VGA_COLS
          PROVE  Rendered(glyphs)[<<ENTRY_TOP + k, col>>] = RowCell(names, sel, top, k, col)
      BY <1>5, <2>1, RenderedShows
    <2>2. list'.names = names /\ list'.sel = sel /\ list'.top = top
      BY <1>1
    <2> QED
      BY <1>1, <1>6, <2>1, <2>2 DEF RowsShown
  <1> QED
    BY <1>1, <1>2, <1>7, <1>8, <1>9, <1>10 DEF ScreenInv

LEMMA ScreenInvInductive ==
  ScreenInv /\ [ScreenNext]_<<nameVars, entryVars, screenVars>> => ScreenInv'
  <1>1. Len(OtherNames) \in Nat
    BY ScreenAssumption, LenProperties
  <1>2. \A k \in 0 .. Len(OtherNames) : k \in Nat
    BY <1>1
  <1> QED
    BY <1>2, EntryStepInv, ClearInv, NameStepInv, DrawListInv, NoStepInv DEF ScreenNext

LEMMA ScreenInvariant == ScreenSpec => []ScreenInv
  BY InitScreenInv, ScreenInvInductive, PTL DEF ScreenSpec

(* The grid's cells are all there is: every glyph that vga_clear and the    *)
(* menu render is in it, for any font, caps and layout (gop.c:169-249).     *)
THEOREM ScreenTyped == ScreenSpec => []ScreenTypeOK
  <1>1. ScreenInv => ScreenTypeOK
    BY DEF ScreenInv, ScreenTypeOK
  <1> QED
    BY <1>1, ScreenInvariant, PTL

(* Whatever the display's modes, the font and the names, nothing is painted *)
(* outside the memory the firmware gave the screen: put_pixel's addresses   *)
(* are too small for the mode, never too large (gop.c:66-105, 169-177).     *)
THEOREM NothingPaintedOutside == ScreenSpec => []PaintsInside
  <1>1. ScreenInv => PaintsInside
    BY DEF ScreenInv, PaintsInside
  <1> QED
    BY <1>1, ScreenInvariant, PTL

(* Whatever was on the screen before, in the layout's columns each row of   *)
(* the menu shows its entry and nothing else, the selected one marked and   *)
(* in reverse (menu.c:56-75, gop.c:219-249).                                *)
THEOREM EntriesShown == ScreenSpec => []RowsShowEntries
  <1>1. ScreenInv => RowsShowEntries
    <2> SUFFICES ASSUME ScreenInv, spc = "menu" PROVE RowsShowEntries
      BY DEF RowsShowEntries
    <2>1. ListSound /\ RowsShown /\ ModeTyped
      BY ModeIsTyped DEF ScreenInv
    <2>2. TextCols \in Nat /\ VGA_COLS \in Nat /\ VISIBLE \in Nat
      BY <2>1, GridTyped, ScreenAssumption
    <2>3. ASSUME NEW k \in 0 .. VISIBLE - 1, NEW col \in 0 .. AtMost(TextCols, VGA_COLS) - 1,
                 ENTRY_TOP + k < TextRows
          PROVE  cells[<<ENTRY_TOP + k, col>>]
                   = RowCell(list.names, list.sel, list.top, k, col)
      <3>1. col \in Nat /\ col < TextCols /\ col < VGA_COLS
        BY <2>2 DEF AtMost
      <3> QED
        BY <2>1, <2>3, <3>1 DEF RowsShown
    <2> QED
      BY <2>3, Zenon DEF RowsShowEntries, RowCell, RowName, EntryCell
  <1> QED
    BY <1>1, ScreenInvariant, PTL

(* EfiMain hands the loader the first fixed disk with a medium, whatever    *)
(* disks the firmware has (efi_entry.c:117-156).                            *)
THEOREM FirstFixedDisk == ScreenSpec => []DiskIsFirstFixed
  <1>1. ScreenInv => DiskIsFirstFixed
    <2> SUFFICES ASSUME EntryInv, epc = "entered" PROVE DiskIsFirstFixed
      BY DEF ScreenInv, DiskIsFirstFixed
    <2>1. disks \in Seq(BlockIos) /\ gBlockIO \in 0 .. Len(disks)
      BY DEF EntryInv, FirmwareSound, EntryTyped
    <2>2. DOMAIN disks = 1 .. Len(disks) /\ Len(disks) \in Nat
      BY <2>1, LenProperties
    <2>3. gBlockIO = 0 => \A d \in DOMAIN disks : ~IsFixed(disks[d])
      BY <2>2 DEF EntryInv, DiskTaken
    <2>4. gBlockIO > 0 => /\ IsFixed(disks[gBlockIO])
                          /\ \A d \in 1 .. gBlockIO - 1 : ~IsFixed(disks[d])
      BY <2>1, <2>2 DEF EntryInv, DiskTaken
    <2> QED
      BY <2>3, <2>4, Zenon DEF DiskIsFirstFixed, IsFixed
  <1> QED
    BY <1>1, ScreenInvariant, PTL

(* The renderer draws on a mode of the greatest area among those the        *)
(* display tells about, whenever the display can be set to it, whatever     *)
(* modes it hides (efi_entry.c:84-113, gop.c:41-61).                        *)
THEOREM LargestModeDrawn == ScreenSpec => []DrawsOnLargestMode
  <1>1. ScreenInv => DrawsOnLargestMode
    <2> SUFFICES ASSUME ScreenInv, spc # "entry", displays[gGOP].sets,
                        {displays[gGOP].modes[m] : m \in {n \in DOMAIN displays[gGOP].modes :
                           displays[gGOP].modes[n].readable}} # {}
                 PROVE  /\ \A m \in {n \in DOMAIN displays[gGOP].modes :
                                       displays[gGOP].modes[n].readable} :
                             displays[gGOP].modes[m].hres * displays[gGOP].modes[m].vres
                               <= mode.hres * mode.vres
                        /\ \E m \in {n \in DOMAIN displays[gGOP].modes :
                                       displays[gGOP].modes[n].readable} :
                             /\ displays[gGOP].modes[m].hres = mode.hres
                             /\ displays[gGOP].modes[m].vres = mode.vres
      BY Zenon DEF DrawsOnLargestMode
    <2> DEFINE modes == displays[gGOP].modes
    <2>1. EntryInv /\ ModeDrawn /\ epc = "entered"
      BY DEF ScreenInv, ModeDrawn
    <2>2. gGOP \in DOMAIN displays
      BY <2>1 DEF EntryInv, GopTaken
    <2>3. modes \in Seq(GopModes)
      BY <2>1, <2>2, DisplayFacts DEF EntryInv
    <2>4. BestOf(best, modes, Len(modes)) /\ current = best.mode
      BY <2>1 DEF EntryInv, ModeTaken
    <2>5. mode.hres = modes[current + 1].hres /\ mode.vres = modes[current + 1].vres
      BY <2>1 DEF ModeDrawn
    <2>6. \E n \in DOMAIN modes : modes[n].readable
      OBVIOUS
    <2> HIDE DEF modes
    <2>7. DOMAIN modes = 1 .. Len(modes)
      BY <2>3, LenProperties
    <2>8. /\ \A m \in 1 .. Len(modes) : modes[m].readable => modes[m].hres * modes[m].vres <= best.pixels
          /\ best.mode + 1 \in 1 .. Len(modes) /\ modes[best.mode + 1].readable
          /\ modes[best.mode + 1].hres * modes[best.mode + 1].vres = best.pixels
      BY <2>4, <2>6, <2>7 DEF BestOf
    <2>9. best.pixels = mode.hres * mode.vres
      BY <2>4, <2>5, <2>8
    <2> QED
      BY <2>4, <2>5, <2>7, <2>8, <2>9 DEF modes
  <1> QED
    BY <1>1, ScreenInvariant, PTL
=============================================================================
