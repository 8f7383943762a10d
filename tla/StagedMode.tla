----------------------------- MODULE StagedMode -----------------------------
(***************************************************************************)
(* Boot with one thing remembered over restarts that no code remembers: the *)
(* encoding mode that was staged when the machine was restarted, until the  *)
(* next kernel begins to use the controller.                                *)
(***************************************************************************)
EXTENDS Boot

VARIABLE due        \* history: the mode the next boot has to apply, if any

stagedVars == <<vars, due>>

(* What the controller tells a kernel by sucs_is_reboot_required and       *)
(* sucs_get_pending_mode.                                                   *)
Staged ==
  IF cfgs["global"].reboot_required THEN {cfgs["global"].pending_mode} ELSE {}

(* A restart before any kernel ran leaves the mode due. *)
StagedInit == Init /\ due = {}
StagedNext ==
  /\ Next
  /\ due' = CASE Restart /\ bpc = "running" -> Staged
              [] UseModes                   -> {}
              [] OTHER                      -> due
StagedSpec == StagedInit /\ [][StagedNext]_stagedVars /\ WF_vars(Step) /\ WF_vars(Tick)

-----------------------------------------------------------------------------
(* sucs_mode.h:14-16: "Mode changes are staged as 'pending' and committed  *)
(* during early kernel boot initialization via sucs_commit_mode_on_boot()", *)
(* and :44, "Staged mode to apply on next system restart".  So a kernel     *)
(* that begins with the commit, on the configuration it was handed or on    *)
(* the controller's own, then runs in the mode that was staged before the   *)
(* restart (main.c:125, sucs_mode.c:62-75).                                  *)
EarlyCommit(copy) == UseModes /\ CommitModeOnBoot(copy)
StagedModeApplied ==
  [][due # {} /\ (\E copy \in Copies : EarlyCommit(copy))
       => \E copy \in Copies : cfgs'[copy].active_mode \in due]_stagedVars
=============================================================================
