------------------------------ MODULE ModeCalls ------------------------------
(***************************************************************************)
(* What the functions of the mode controller promise of a configuration    *)
(* from one start of the machine to the next, call by call                  *)
(* (sucs_mode.h:64-86): asking alters nothing in use; a commit puts the     *)
(* mode asked for last in use, whatever was asked before it, and counts a   *)
(* change; resetting drops what was asked.                                  *)
(*                                                                          *)
(* It speaks of calls only.  That a commit comes at a boot and nowhere else *)
(* is left to the caller, and what sucs_mode.h:14-16 and 44 say of a        *)
(* restart, that it applies the mode staged before it, is not promised      *)
(* here: StagedMode states that, and the code does not do it.               *)
(***************************************************************************)
EXTENDS Naturals

CONSTANT Modes

VARIABLES active,    \* the mode in use
          wanted,    \* the mode asked for last
          owed,      \* a reboot is required
          changes    \* commits that changed the mode

vars == <<active, wanted, owed, changes>>

Init == active \in Modes /\ wanted = active /\ owed = FALSE /\ changes = 0

(* sucs_mode.h:64-72. *)
Want(mode) ==
  /\ wanted' = mode /\ owed' = TRUE
  /\ UNCHANGED <<active, changes>>

(* sucs_mode.h:74-81. *)
Commit ==
  /\ active' = wanted /\ owed' = FALSE
  /\ changes' = changes + (IF active = wanted THEN 0 ELSE 1)
  /\ UNCHANGED wanted

(* sucs_mode.h:83-86. *)
Reset(mode) == active' = mode /\ wanted' = mode /\ owed' = FALSE /\ changes' = 0

Next == Commit \/ \E mode \in Modes : Want(mode) \/ Reset(mode)

Step == Next \/ UNCHANGED vars
Spec == Init /\ [][Next]_vars
=============================================================================
