------------------------------ MODULE MCScreen ------------------------------
(***************************************************************************)
(* Names of one to three characters: the least and the greatest codepoint  *)
(* of each frame between two letters, two that are not ASCII, and one that *)
(* is longer than the buffer; whole, cut at every byte, and with every     *)
(* byte in turn replaced by an ASCII, a continuation or a lead byte.  The  *)
(* display's modes are wider and narrower than the menu's layout; one       *)
(* display does not work, one hides a mode and one refuses to change it.    *)
(***************************************************************************)
EXTENDS Screen

Edges == {0, 127, 128, 2047, 2048, 65535, 65536, 1114111, 1114112, 67108863,
          67108864, 2147483631}
MCTexts == {<<65, x, 66>> : x \in Edges} \cup {<<2048, 128>>, <<>>}
             \cup {<<67, 97, 116, 97, 108, 111, 103>>}
MCDamage == {65, 128, 191, 192, 224, 240, 248, 252, 255}

Mode(hres, vres, pitch) ==
  [readable |-> TRUE, hres |-> hres, vres |-> vres, pitch |-> pitch]
Hidden(m) == [m EXCEPT !.readable = FALSE]
Wide   == Mode(11, 4, 12)
Narrow == Mode(6, 2, 8)
Display(modes, now, sets) ==
  [works |-> TRUE, modes |-> modes, current |-> now, sets |-> sets]
Broken == [Display(<<Wide>>, 0, TRUE) EXCEPT !.works = FALSE]
Disk(works, media, removable, present) ==
  [works |-> works, media |-> media, removable |-> removable, present |-> present]
Fixed == Disk(TRUE, TRUE, FALSE, TRUE)
MCMachines ==
  {[displays |-> <<Broken, Display(<<Narrow, Wide, Hidden(Mode(99, 99, 99)), Narrow>>, 0, TRUE),
                   Display(<<Narrow>>, 0, TRUE)>>,
    disks |-> <<Disk(FALSE, TRUE, FALSE, TRUE), Disk(TRUE, TRUE, TRUE, TRUE),
                Disk(TRUE, FALSE, FALSE, TRUE), Disk(TRUE, TRUE, FALSE, FALSE), Fixed, Fixed>>, image |-> TRUE],
   [displays |-> <<Display(<<Wide, Narrow>>, 1, FALSE)>>,
    disks |-> <<Disk(TRUE, TRUE, TRUE, TRUE)>>, image |-> FALSE],
   [displays |-> <<Display(<<Narrow>>, 0, TRUE)>>, disks |-> <<>>, image |-> TRUE]}
MCOtherNames == <<<<97, 98, 99, 100, 101>>>>
=============================================================================
