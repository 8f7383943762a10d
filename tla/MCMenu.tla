------------------------------- MODULE MCMenu -------------------------------
(***************************************************************************)
(* A menu of no, one, two or five entries with a window of three rows, so  *)
(* that lists shorter and longer than the window occur and paging passes   *)
(* both ends.  The countdown of three seconds starts at the first second   *)
(* of a minute or crosses the end of one, and a tick may pass unseen.      *)
(***************************************************************************)
EXTENDS Menu

MCCounts       == {0, 1, 2, 5}
MCStartSeconds == {0, 58}

Stroke(scan, char) == [scan |-> scan, char |-> char]

MCStrokes == {Stroke(c, "NUL") : c \in DOMAIN NavOfScan \cup {"SCAN_LEFT"}}
               \cup {Stroke("NULL", ch) : ch \in {"CR", "ESC", "r", "s"}}
=============================================================================
