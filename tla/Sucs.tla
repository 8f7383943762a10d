-------------------------------- MODULE Sucs --------------------------------
(***************************************************************************)
(* The encoding mode controller src/sutf/sucs_mode.c.  A request is staged *)
(* in the controller's own configuration, g_kernel_boot_cfg ("global"); the *)
(* loader publishes another in the block at MBL_BOOTCONFIG ("block"), and   *)
(* the functions that take a pointer work on either.                        *)
(***************************************************************************)
EXTENDS Naturals

CONSTANTS Modes,         \* SUCS_MODE_BASE and SUCS_MODE_EXTENDED
          Base,          \* SUCS_MODE_BASE
          OtherValues,   \* what else a sucs_kernel_mode_t may hold
          MAX_CHANGES    \* bound: mode_change_count

ASSUME SucsAssumption ==
  Base \in Modes /\ Modes \cap OtherValues = {} /\ MAX_CHANGES \in Nat

VARIABLES cfgs,     \* the two configurations
          wanted    \* history: the valid mode asked of each last

sucsVars == <<cfgs, wanted>>
Copies   == {"global", "block"}

-----------------------------------------------------------------------------
(* A plausible bug in place of a definition below. *)
IsActive_AnyTime(cfg, mode) == mode = cfg.active_mode

InitialConfig(mode) ==
  [active_mode |-> mode, pending_mode |-> mode, reboot_required |-> FALSE,
   mode_change_count |-> 0]

IsActive(cfg, mode) == mode = cfg.active_mode /\ ~cfg.reboot_required

Committed(cfg) ==
  IF cfg.reboot_required /\ cfg.pending_mode # cfg.active_mode
  THEN [active_mode |-> cfg.pending_mode, pending_mode |-> cfg.pending_mode,
        reboot_required |-> FALSE, mode_change_count |-> cfg.mode_change_count + 1]
  ELSE [cfg EXCEPT !.reboot_required = FALSE]

(* The image's initial values and memory that nobody has written. *)
SucsInit == /\ cfgs = [copy \in Copies |-> InitialConfig(Base)]
            /\ wanted = [copy \in Copies |-> Base]

-----------------------------------------------------------------------------
InitBootConfig(copy, initial_mode) ==
  LET mode == IF initial_mode \in Modes THEN initial_mode ELSE Base
  IN  /\ cfgs' = [cfgs EXCEPT ![copy] = InitialConfig(mode)]
      /\ wanted' = [wanted EXCEPT ![copy] = mode]

RequestModeSwitch(new_mode) ==
  /\ cfgs' = IF new_mode \notin Modes \/ IsActive(cfgs["global"], new_mode) THEN cfgs
             ELSE [cfgs EXCEPT !["global"].pending_mode = new_mode,
                               !["global"].reboot_required = TRUE]
  /\ wanted' = IF new_mode \in Modes THEN [wanted EXCEPT !["global"] = new_mode] ELSE wanted

CommitModeOnBoot(copy) ==
  /\ cfgs[copy].mode_change_count < MAX_CHANGES
  /\ cfgs' = [cfgs EXCEPT ![copy] = Committed(@)]
  /\ UNCHANGED wanted

(* What a kernel does to have its request committed, once it is told that  *)
(* a reboot is required (tests/compat_smoke.c:233-238): the staged fields   *)
(* go into the block.                                                       *)
HandOver ==
  /\ cfgs["global"].reboot_required
  /\ cfgs' = [cfgs EXCEPT !["block"].pending_mode = cfgs["global"].pending_mode,
                          !["block"].reboot_required = TRUE]
  /\ wanted' = [wanted EXCEPT !["block"] = wanted["global"]]

(* A kernel uses the controller. *)
KernelNext ==
  \/ \E mode \in Modes \cup OtherValues :
       RequestModeSwitch(mode) \/ \E copy \in Copies : InitBootConfig(copy, mode)
  \/ \E copy \in Copies : CommitModeOnBoot(copy)
  \/ HandOver

(* A restart loads the kernel's image anew and clears the memory, and     *)
(* nothing saves a configuration before it.                                 *)
Forgotten == /\ cfgs' = [copy \in Copies |-> InitialConfig(Base)]
             /\ wanted' = [copy \in Copies |-> Base]

(* From a start of the machine on, until it is restarted. *)
SucsSpec == SucsInit /\ [][KernelNext]_sucsVars

-----------------------------------------------------------------------------
(* Whatever a kernel asks of the controller in whatever order, the calls   *)
(* do to either configuration what sucs_mode.h says of each: a switch is    *)
(* staged, replaced by the next one or withdrawn, and what a commit puts in *)
(* use is what was asked for last (sucs_mode.c:23-75).                      *)
GlobalCalls == INSTANCE ModeCalls
  WITH active <- cfgs["global"].active_mode, wanted  <- wanted["global"],
       owed   <- cfgs["global"].reboot_required,
       changes <- cfgs["global"].mode_change_count
BlockCalls  == INSTANCE ModeCalls
  WITH active <- cfgs["block"].active_mode, wanted  <- wanted["block"],
       owed   <- cfgs["block"].reboot_required,
       changes <- cfgs["block"].mode_change_count
ImplementsModeCalls == GlobalCalls!Spec /\ BlockCalls!Spec
=============================================================================
