-------------------------------- MODULE Kbd --------------------------------
(***************************************************************************)
(* Key strokes and the second counter, as src/kbd.c takes them from the    *)
(* firmware: pure functions, no state.  A stroke has a scan code and a     *)
(* character; the firmware's key buffer and clock are variables of the     *)
(* modules that use this one.                                               *)
(***************************************************************************)
EXTENDS Integers

NavKeys == {"UP", "DOWN", "HOME", "END", "PGUP", "PGDN"}
Keys    == NavKeys \cup {"NONE", "ENTER", "ESC", "REBOOT", "SHUTDOWN"}

(* The scan codes efi.h names; "NULL" is a stroke that carries a character. *)
NavOfScan == [SCAN_UP |-> "UP", SCAN_DOWN |-> "DOWN", SCAN_HOME |-> "HOME",
              SCAN_END |-> "END", SCAN_PAGE_UP |-> "PGUP", SCAN_PAGE_DOWN |-> "PGDN"]
ScanCodes == DOMAIN NavOfScan \cup {"SCAN_LEFT", "SCAN_RIGHT", "SCAN_ESC", "NULL"}

KeyOfChar == [CR |-> "ENTER", ESC |-> "ESC", r |-> "REBOOT", R |-> "REBOOT",
              s |-> "SHUTDOWN", S |-> "SHUTDOWN"]
Chars     == DOMAIN KeyOfChar \cup {"other", "NUL"}

Strokes == [scan : ScanCodes, char : Chars]

(* ReadKeyStroke reports an error: nothing was pressed. *)
NoStroke == [scan |-> "none", char |-> "none"]

(* kbd_poll on a stroke that was read: scan codes first, then characters;  *)
(* a stroke neither table names is consumed and reported as no key.        *)
KeyOf(stroke) ==
  IF stroke.scan \in DOMAIN NavOfScan THEN NavOfScan[stroke.scan]
  ELSE IF stroke.char \in DOMAIN KeyOfChar THEN KeyOfChar[stroke.char]
  ELSE "NONE"

(* efi_get_seconds, when the firmware's clock shows `second`: a GetTime    *)
(* that fails reads as 0.                                                   *)
SecondsRead(second, mayFail) == {second} \cup (IF mayFail THEN {0} ELSE {})
=============================================================================
