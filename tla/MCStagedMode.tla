---------------------------- MODULE MCStagedMode ----------------------------
(***************************************************************************)
(* A disk whose first entry boots and a user who presses Enter or nothing: *)
(* what matters is the kernel before the restart and the one after it.     *)
(***************************************************************************)
EXTENDS MCBoot, StagedMode

MCBootable == {MCVolume(MCSb(TRUE, {}), 1, <<MCEntry(1), MCEntry(2)>>, 0)}
MCEnter    == {[scan |-> "NULL", char |-> "CR"]}
MCServices == {"ExitBootServices"}
=============================================================================
