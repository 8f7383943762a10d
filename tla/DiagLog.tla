------------------------------ MODULE DiagLog ------------------------------
(***************************************************************************)
(* What the diagnostic recorder promises (include/mbl.h, "Raised           *)
(* diagnostics are recorded in a fixed-size ring buffer for display and    *)
(* post-mortem"): the last DIAG_MAX codes raised, in the order they were   *)
(* raised.  DiagRing is the code's ring buffer and implements this module; *)
(* Owfs and Boot use this module for the diagnostics they raise.           *)
(***************************************************************************)
EXTENDS Integers, Sequences

CONSTANTS Codes,      \* the codes that are raised
          DIAG_MAX    \* how many are remembered

VARIABLE log          \* the remembered codes, oldest first

(* The part of a history that is remembered. *)
Keep(s) == IF Len(s) <= DIAG_MAX THEN s
           ELSE SubSeq(s, Len(s) - DIAG_MAX + 1, Len(s))

(* mbl_diag_last()->code of a history in which something was raised. *)
Newest(s) == s[Len(s)]

Init == log = <<>>

Raise(code) == log' = Keep(Append(log, code))

Next == \E code \in Codes : Raise(code)

Spec == Init /\ [][Next]_log
=============================================================================
