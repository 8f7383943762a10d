----------------------------- MODULE Boot_proofs -----------------------------
(***************************************************************************)
(* What holds of kmain and the machine around it for any volumes, menus,   *)
(* keys, memory maps and pointers: the boot services are left whenever the  *)
(* firmware allows it, nothing of a faulty catalog is booted, the encoding  *)
(* mode is what the calls of one boot make it, kmain does what was asked,    *)
(* and the kernel it enters is the file that was chosen.                     *)
(***************************************************************************)
EXTENDS Boot, TLAPS, FiniteSetTheorems

-----------------------------------------------------------------------------
(* From a start of the machine on, the mode controller does what is said of *)
(* its calls, for any modes, any other values of the type and any number of *)
(* changes: Sucs implements ModeCalls for either configuration.              *)
Configs == [active_mode : Modes, pending_mode : Modes, reboot_required : BOOLEAN,
            mode_change_count : Nat]

(* The mode staged is the one asked for last, and it is the active one     *)
(* unless a reboot is required.                                             *)
Kept(copy) ==
  /\ wanted[copy] = cfgs[copy].pending_mode
  /\ ~cfgs[copy].reboot_required => cfgs[copy].pending_mode = cfgs[copy].active_mode

ModeInv ==
  /\ cfgs \in [Copies -> Configs] /\ wanted \in [Copies -> Modes]
  /\ \A copy \in Copies : Kept(copy)

(* What a configuration is when the image or the memory is fresh, and what *)
(* sucs_init_boot_config makes of it (sucs_mode.c:23-32).                    *)
LEMMA InitialFacts ==
  ASSUME NEW mode \in Modes
  PROVE  /\ InitialConfig(mode) \in Configs
         /\ InitialConfig(mode).active_mode = mode
         /\ InitialConfig(mode).pending_mode = mode
         /\ InitialConfig(mode).reboot_required = FALSE
         /\ InitialConfig(mode).mode_change_count = 0
BY SMT DEF InitialConfig, Configs

(* A commit makes the staged mode the active one, and counts it if it was  *)
(* not (sucs_mode.c:62-75).                                                  *)
LEMMA CommittedFacts ==
  ASSUME NEW conf \in Configs,
         ~conf.reboot_required => conf.pending_mode = conf.active_mode
  PROVE  /\ Committed(conf) \in Configs
         /\ Committed(conf).active_mode = conf.pending_mode
         /\ Committed(conf).pending_mode = conf.pending_mode
         /\ Committed(conf).reboot_required = FALSE
         /\ Committed(conf).mode_change_count
              = conf.mode_change_count + (IF conf.active_mode = conf.pending_mode THEN 0 ELSE 1)
<1>1. CASE conf.reboot_required /\ conf.pending_mode # conf.active_mode
  <2>1. Committed(conf) = [active_mode |-> conf.pending_mode, pending_mode |-> conf.pending_mode,
                          reboot_required |-> FALSE,
                          mode_change_count |-> conf.mode_change_count + 1]
    BY <1>1 DEF Committed
  <2> QED
    BY <1>1, <2>1 DEF Configs
<1>2. CASE conf.pending_mode = conf.active_mode
  <2>1. Committed(conf) = [conf EXCEPT !.reboot_required = FALSE]
    BY <1>2 DEF Committed
  <2>2. Committed(conf).mode_change_count = conf.mode_change_count + 0
    BY <2>1 DEF Configs
  <2>3. /\ Committed(conf) \in Configs
        /\ Committed(conf).active_mode = conf.active_mode
        /\ Committed(conf).pending_mode = conf.pending_mode
        /\ Committed(conf).reboot_required = FALSE
    BY <2>1 DEF Configs
  <2> QED
    BY <1>2, <2>2, <2>3
<1> QED
  BY <1>1, <1>2

(* What a step may do to a configuration and to what was asked of it. *)
Reset(copy) == \E mode \in Modes : cfgs'[copy] = InitialConfig(mode) /\ wanted'[copy] = mode
Staged(copy) ==
  \E mode \in Modes :
    /\ cfgs'[copy] = [cfgs[copy] EXCEPT !.pending_mode = mode, !.reboot_required = TRUE]
    /\ wanted'[copy] = mode
Committing(copy) == cfgs'[copy] = Committed(cfgs[copy]) /\ wanted'[copy] = wanted[copy]
Untouched(copy) == cfgs'[copy] = cfgs[copy] /\ wanted'[copy] = wanted[copy]

(* Every step does one of these to either configuration (sucs_mode.c:23-75). *)
LEMMA StepCases ==
  ASSUME SucsAssumption, ModeInv, [KernelNext]_sucsVars, NEW copy \in Copies
  PROVE  /\ cfgs' \in [Copies -> Configs] /\ wanted' \in [Copies -> Modes]
         /\ Reset(copy) \/ Staged(copy) \/ Committing(copy) \/ Untouched(copy)
<1> USE DEF ModeInv
<1> Base \in Modes
  BY DEF SucsAssumption
<1>1. ASSUME NEW mode \in Modes \cup OtherValues, RequestModeSwitch(mode)
      PROVE  /\ cfgs' \in [Copies -> Configs] /\ wanted' \in [Copies -> Modes]
             /\ Staged(copy) \/ Untouched(copy)
  <2>1. CASE mode \notin Modes \/ IsActive(cfgs["global"], mode)
    <3>1. IsActive(cfgs["global"], mode) => mode = cfgs["global"].pending_mode
      BY DEF IsActive, Kept, Copies
    <3>2. mode \in Modes => [wanted EXCEPT !["global"] = mode] = wanted
      BY <2>1, <3>1 DEF Kept, Copies
    <3>3. cfgs' = cfgs /\ wanted' = wanted
      BY <1>1, <2>1, <3>2 DEF RequestModeSwitch
    <3> QED
      BY <3>3 DEF Untouched
  <2>2. CASE mode \in Modes /\ ~IsActive(cfgs["global"], mode)
    <3>1. /\ cfgs' = [cfgs EXCEPT !["global"].pending_mode = mode,
                                  !["global"].reboot_required = TRUE]
          /\ wanted' = [wanted EXCEPT !["global"] = mode]
      BY <1>1, <2>2 DEF RequestModeSwitch
    <3> DEFINE staged == [cfgs["global"] EXCEPT !.pending_mode = mode,
                                                !.reboot_required = TRUE]
    <3>2. cfgs["global"] \in Configs
      BY DEF Copies
    <3>3. staged \in Configs
      BY <2>2, <3>2 DEF Configs
    <3>4. cfgs' = [cfgs EXCEPT !["global"] = staged]
      BY <3>1, <3>2 DEF Copies, Configs
    <3>5. copy = "global" => cfgs'[copy] = [cfgs[copy] EXCEPT !.pending_mode = mode,
                                                             !.reboot_required = TRUE]
      BY <3>4 DEF Copies
    <3> HIDE DEF staged
    <3> QED
      BY <2>2, <3>1, <3>3, <3>4, <3>5 DEF Staged, Untouched, Copies
  <2> QED
    BY <2>1, <2>2
<1>2. ASSUME NEW c \in Copies, NEW mode \in Modes \cup OtherValues, InitBootConfig(c, mode)
      PROVE  /\ cfgs' \in [Copies -> Configs] /\ wanted' \in [Copies -> Modes]
             /\ Reset(copy) \/ Untouched(copy)
  <2> DEFINE given == IF mode \in Modes THEN mode ELSE Base
  <2>1. given \in Modes /\ InitialConfig(given) \in Configs
    BY InitialFacts
  <2>2. /\ cfgs' = [cfgs EXCEPT ![c] = InitialConfig(given)]
        /\ wanted' = [wanted EXCEPT ![c] = given]
    BY <1>2 DEF InitBootConfig
  <2> HIDE DEF given
  <2> QED
    BY <2>1, <2>2 DEF Reset, Untouched
<1>3. ASSUME NEW c \in Copies, CommitModeOnBoot(c)
      PROVE  /\ cfgs' \in [Copies -> Configs] /\ wanted' \in [Copies -> Modes]
             /\ Committing(copy) \/ Untouched(copy)
  <2>1. Committed(cfgs[c]) \in Configs
    BY CommittedFacts DEF Kept
  <2> QED
    BY <1>3, <2>1 DEF CommitModeOnBoot, Committing, Untouched
<1>4. ASSUME HandOver
      PROVE  /\ cfgs' \in [Copies -> Configs] /\ wanted' \in [Copies -> Modes]
             /\ Staged(copy) \/ Untouched(copy)
  <2> DEFINE mode == cfgs["global"].pending_mode
  <2>1. mode \in Modes /\ wanted["global"] = mode
    BY DEF Kept, Copies, Configs
  <2> DEFINE staged == [cfgs["block"] EXCEPT !.pending_mode = mode, !.reboot_required = TRUE]
  <2>2. cfgs["block"] \in Configs
    BY DEF Copies
  <2>3. staged \in Configs
    BY <2>1, <2>2 DEF Configs
  <2>4. /\ cfgs' = [cfgs EXCEPT !["block"] = staged]
        /\ wanted' = [wanted EXCEPT !["block"] = mode]
    BY <1>4, <2>1, <2>2 DEF HandOver, Copies, Configs
  <2>5. copy = "block" => cfgs'[copy] = [cfgs[copy] EXCEPT !.pending_mode = mode,
                                                          !.reboot_required = TRUE]
    BY <2>4 DEF Copies
  <2> HIDE DEF mode, staged
  <2> QED
    BY <2>1, <2>3, <2>4, <2>5 DEF Staged, Untouched, Copies
<1>5. CASE UNCHANGED sucsVars
  BY <1>5 DEF sucsVars, Untouched
<1> QED
  BY <1>1, <1>2, <1>3, <1>4, <1>5 DEF KernelNext

(* The strengthening is inductive. *)
LEMMA ModeInvInductive ==
  ASSUME SucsAssumption, ModeInv, [KernelNext]_sucsVars
  PROVE  ModeInv'
<1> Copies # {}
  BY DEF Copies
<1>1. cfgs' \in [Copies -> Configs] /\ wanted' \in [Copies -> Modes]
  BY StepCases
<1>2. ASSUME NEW copy \in Copies PROVE Kept(copy)'
  <2>0. cfgs[copy] \in Configs /\ Kept(copy)
    BY DEF ModeInv
  <2>1. CASE Reset(copy)
    BY <2>1, InitialFacts DEF Reset, Kept
  <2>2. CASE Staged(copy)
    BY <2>2, <2>0 DEF Staged, Kept, Configs
  <2>3. CASE Committing(copy)
    BY <2>3, <2>0, CommittedFacts DEF Committing, Kept
  <2>4. CASE Untouched(copy)
    BY <2>4, <2>0 DEF Untouched, Kept
  <2> QED
    BY <2>1, <2>2, <2>3, <2>4, StepCases
<1> QED
  BY <1>1, <1>2 DEF ModeInv

LEMMA ModeInvInitial == ASSUME SucsAssumption, SucsInit PROVE ModeInv
BY InitialFacts DEF SucsAssumption, SucsInit, ModeInv, Kept

(* It holds again when the machine has forgotten everything. *)
LEMMA ModeInvAnew == ASSUME SucsAssumption, Forgotten PROVE ModeInv'
BY InitialFacts DEF SucsAssumption, Forgotten, ModeInv, Kept

(* A call of the controller is a step of ModeCalls for its own             *)
(* configuration (sucs_mode.c:46-60).                                        *)
LEMMA GlobalStep ==
  ASSUME SucsAssumption, ModeInv, [KernelNext]_sucsVars
  PROVE  [GlobalCalls!Next]_(GlobalCalls!vars)
<1> USE DEF GlobalCalls!Next, GlobalCalls!vars
<1> DEFINE copy == "global"
<1>0. copy \in Copies /\ cfgs[copy] \in Configs /\ Kept(copy)
  BY DEF ModeInv, Copies
<1>1. CASE Reset(copy)
  BY <1>1, InitialFacts DEF Reset, GlobalCalls!Reset
<1>2. CASE Staged(copy)
  BY <1>2, <1>0 DEF Staged, Configs, GlobalCalls!Want
<1>3. CASE Committing(copy)
  BY <1>3, <1>0, CommittedFacts DEF Committing, Kept, GlobalCalls!Commit
<1>4. CASE Untouched(copy)
  BY <1>4 DEF Untouched
<1> QED
  BY <1>0, <1>1, <1>2, <1>3, <1>4, StepCases

(* And for the configuration in the block (sucs_mode.c:23-32, 62-75). *)
LEMMA BlockStep ==
  ASSUME SucsAssumption, ModeInv, [KernelNext]_sucsVars
  PROVE  [BlockCalls!Next]_(BlockCalls!vars)
<1> USE DEF BlockCalls!Next, BlockCalls!vars
<1> DEFINE copy == "block"
<1>0. copy \in Copies /\ cfgs[copy] \in Configs /\ Kept(copy)
  BY DEF ModeInv, Copies
<1>1. CASE Reset(copy)
  BY <1>1, InitialFacts DEF Reset, BlockCalls!Reset
<1>2. CASE Staged(copy)
  BY <1>2, <1>0 DEF Staged, Configs, BlockCalls!Want
<1>3. CASE Committing(copy)
  BY <1>3, <1>0, CommittedFacts DEF Committing, Kept, BlockCalls!Commit
<1>4. CASE Untouched(copy)
  BY <1>4 DEF Untouched
<1> QED
  BY <1>0, <1>1, <1>2, <1>3, <1>4, StepCases

(* From a start of the machine until it is restarted, whatever a kernel    *)
(* calls in whatever order, either configuration is what ModeCalls makes of *)
(* it: what a commit puts in use is the mode asked for last                  *)
(* (sucs_mode.c:23-75).                                                      *)
THEOREM SucsImplementsModeCalls == SucsSpec => ImplementsModeCalls
<1> USE SucsAssumption
<1>1. SucsInit => ModeInv /\ GlobalCalls!Init /\ BlockCalls!Init
  <2> SUFFICES ASSUME SucsInit
               PROVE  ModeInv /\ GlobalCalls!Init /\ BlockCalls!Init
    OBVIOUS
  <2>1. Base \in Modes
    BY DEF SucsAssumption
  <2>2. ModeInv
    BY ModeInvInitial
  <2>3. \A copy \in {"global", "block"} : cfgs[copy] = InitialConfig(Base) /\ wanted[copy] = Base
    BY DEF SucsInit, Copies
  <2> QED
    BY <2>1, <2>2, <2>3, InitialFacts DEF GlobalCalls!Init, BlockCalls!Init
<1>2. ModeInv /\ [KernelNext]_sucsVars => ModeInv'
  BY ModeInvInductive
<1>3. ModeInv /\ [KernelNext]_sucsVars
        => [GlobalCalls!Next]_(GlobalCalls!vars) /\ [BlockCalls!Next]_(BlockCalls!vars)
  BY GlobalStep, BlockStep
<1> QED
  BY <1>1, <1>2, <1>3, PTL
     DEF SucsSpec, ImplementsModeCalls, GlobalCalls!Spec, BlockCalls!Spec

-----------------------------------------------------------------------------
(* The handoff.  The buffer has room for the map as it was and EXTRA more; *)
(* the key is the map's until the map changes; kmain has not looked at the  *)
(* pointer before it has the map.                                            *)
HandTypes == map \in [size : Nat, key : Nat] /\ room \in Nat /\ since \in Nat
RoomFits  == bpc \in {"allocate", "map"} => map.size + EXTRA = room + since
KeyHeld   == bpc = "exit" /\ ~late => map_key = map.key
Unread    == bpc \notin {"exit", "jump", "kernel"} => gExitBootServices = "unread"
Left      == bpc \in {"jump", "kernel"} /\ gExitBootServices = "ExitBootServices"
                /\ since <= EXTRA /\ ~late => ~services
HandInv   == HandTypes /\ RoomFits /\ KeyHeld /\ Unread /\ Left

(* The steps that touch neither the handoff nor the memory map. *)
Aside == /\ bpc \notin {"exit", "jump", "kernel"}
         /\ bpc' \notin {"allocate", "map", "exit", "jump", "kernel"}
         /\ UNCHANGED handVars

LEMMA AsideSteps ==
  ASSUME Probe \/ ProbeFailed \/ Enumerate \/ Chosen \/ LoadFailed \/ Publish
  PROVE  Aside
<1>1. CASE Probe
  BY <1>1 DEF Probe, Aside
<1>2. CASE ProbeFailed
  BY <1>2 DEF ProbeFailed, Aside
<1>3. CASE Enumerate
  BY <1>3 DEF Enumerate, Aside
<1>4. CASE Chosen
  <2>1. bpc = "menu" /\ bpc' = Outcome(result) /\ UNCHANGED handVars
    BY <1>4 DEF Chosen
  <2>2. Outcome(result) \in {"reboot", "shutdown", "load"}
    BY DEF Outcome
  <2> QED
    BY <2>1, <2>2 DEF Aside
<1>5. CASE LoadFailed
  BY <1>5 DEF LoadFailed, Aside
<1>6. CASE Publish
  BY <1>6 DEF Publish, Aside
<1> QED
  BY <1>1, <1>2, <1>3, <1>4, <1>5, <1>6

LEMMA AsideKeeps == ASSUME HandInv, Aside PROVE HandInv'
BY DEF Aside, handVars, HandInv, HandTypes, RoomFits, KeyHeld, Unread, Left

(* The firmware changes the map on its own account. *)
LEMMA MapGrows ==
  ASSUME HandInv, NEW grown \in 0 .. 1,
         map' = [size |-> map.size + grown, key |-> map.key + 1],
         since' = since + grown, UNCHANGED room
  PROVE  /\ HandTypes' /\ map'.size = map.size + grown
         /\ map.size + EXTRA = room + since => map'.size + EXTRA = room' + since'
<1>1. /\ map.size \in Nat /\ map.key \in Nat /\ room \in Nat /\ since \in Nat
      /\ EXTRA \in Nat /\ grown \in Nat
  BY BootAssumption DEF BootAssumption, HandInv, HandTypes
<1>2. map'.size = map.size + grown /\ map'.key = map.key + 1
  OBVIOUS
<1>3. map.size + grown \in Nat /\ map.key + 1 \in Nat /\ since + grown \in Nat
  BY <1>1
<1>4. HandTypes'
  BY <1>1, <1>3 DEF HandTypes
<1>5. map.size + EXTRA = room + since => (map.size + grown) + EXTRA = room + (since + grown)
  BY <1>1
<1> QED
  BY <1>2, <1>4, <1>5

(* The map a machine starts with. *)
LEMMA FreshMap == ASSUME NEW m \in [size : MapSizes, key : {1}] PROVE m \in [size : Nat, key : Nat]
<1>1. m = [size |-> m.size, key |-> m.key] /\ m.size \in MapSizes /\ m.key = 1
  OBVIOUS
<1>2. MapSizes \subseteq Nat
  BY BootAssumption DEF BootAssumption
<1>3. m.size \in Nat
  BY <1>1, <1>2
<1>4. m.key \in Nat
  BY <1>1
<1> QED
  BY <1>1, <1>3, <1>4

LEMMA HandInvInductive == ASSUME HandInv, [Next]_vars PROVE HandInv'
<1> USE DEF HandInv
<1>1. CASE Probe \/ ProbeFailed \/ Enumerate \/ Chosen \/ LoadFailed \/ Publish
  BY <1>1, AsideSteps, AsideKeeps
<1>2. CASE Menu \/ Load \/ UseModes \/ Tick \/ Press \/ UNCHANGED vars
  <2>1. UNCHANGED <<bpc, handVars>>
    BY <1>2 DEF Menu, Load, UseModes, Tick, Press, vars
  <2> QED
    BY <2>1 DEF handVars, HandTypes, RoomFits, KeyHeld, Unread, Left
<1>3. CASE GetMapSize
  BY <1>3, BootAssumption DEF GetMapSize, BootAssumption, Capacity, HandTypes, RoomFits,
                              KeyHeld, Unread, Left
<1>4. CASE AllocatePages
  <2>1. CASE bpc' = "map" /\ \E grown \in 0 .. 1 :
                /\ map' = [size |-> map.size + grown, key |-> map.key + 1]
                /\ since' = since + grown
    BY <1>4, <2>1, MapGrows DEF AllocatePages, RoomFits, KeyHeld, Unread, Left
  <2>2. CASE bpc' = "jump" /\ UNCHANGED <<map, since, pages>>
    BY <1>4, <2>2 DEF AllocatePages, HandTypes, RoomFits, KeyHeld, Unread, Left
  <2> QED
    BY <1>4, <2>1, <2>2 DEF AllocatePages
<1>5. CASE GetMap
  <2>1. map.size + EXTRA = room + since
    BY <1>5 DEF GetMap, RoomFits
  <2>2. ~(map.size <= room) => ~(since <= EXTRA)
    BY <2>1, BootAssumption DEF BootAssumption, HandTypes
  <2> QED
    BY <1>5, <2>2 DEF GetMap, HandTypes, RoomFits, KeyHeld, Unread, Left
<1>6. CASE ExitBootServices
  BY <1>6 DEF ExitBootServices, HandTypes, RoomFits, KeyHeld, Unread, Left
<1>7. CASE Jump
  BY <1>7 DEF Jump, handVars, HandTypes, RoomFits, KeyHeld, Unread, Left
<1>8. CASE MapChanges
  BY <1>8, MapGrows DEF MapChanges, RoomFits, KeyHeld, Unread, Left
<1>9. CASE RunKernel \/ Restart
  <2>1. /\ bpc' \in {"running", "probe"} /\ gExitBootServices' = "unread"
        /\ map' \in [size : MapSizes, key : {1}] /\ room' = 0 /\ since' = 0
    BY <1>9 DEF RunKernel, Restart, LoaderForgotten
  <2> QED
    BY <2>1, FreshMap DEF HandTypes, RoomFits, KeyHeld, Unread, Left
<1> QED
  BY <1>1, <1>2, <1>3, <1>4, <1>5, <1>6, <1>7, <1>8, <1>9 DEF Next, Step

LEMMA InitHandInv == Init => HandInv
BY FreshMap DEF Init, HandInv, HandTypes, RoomFits, KeyHeld, Unread, Left

(* kmain leaves the boot services whenever it has their service and pages, *)
(* the map grew by no more than the extra room and did not change after it  *)
(* was read (main.c:149-165).                                                *)
THEOREM BootServicesLeft == Spec => []ServicesLeft
<1>1. Init => HandInv
  BY InitHandInv
<1>2. HandInv => ServicesLeft
  BY DEF HandInv, Left, ServicesLeft
<1> QED
  BY <1>1, <1>2, HandInvInductive, PTL DEF Spec

-----------------------------------------------------------------------------
(* A catalog that could not be read to its end: the menu is called only    *)
(* after it is read, with no entries, and can then only return a reboot.    *)
NotYetMenu == bpc \in {"probe", "probe_failed", "enumerate"} => mpc = "idle"
EmptyMenu  == found < 0 => /\ bpc \in {"menu", "reboot"}
                           /\ mpc \in {"idle", "wait", "spin", "done"}
                           /\ mpc = "done" => result = -1
FaultInv   == NotYetMenu /\ EmptyMenu

(* Every step but those of the menu leaves its locals alone, and all but   *)
(* those of owfs_enumerate the number of entries found.                      *)
MenuAside  == UNCHANGED <<mpc, result>>
FoundAside == UNCHANGED found

LEMMA FaultInvInductive == ASSUME FaultInv, [Next]_vars PROVE FaultInv'
<1> USE DEF FaultInv
<1>1. CASE Probe \/ ProbeFailed \/ Enumerate
  <2>1. /\ MenuAside /\ mpc = "idle"
        /\ bpc' \in {"enumerate", "probe_failed", "reboot", "menu"}
    BY <1>1 DEF Probe, ProbeFailed, Enumerate, NotYetMenu, MenuAside, menuVars
  <2>2. bpc' = "menu" \/ FoundAside
    BY <1>1 DEF Probe, ProbeFailed, Enumerate, F!Probe, F!Enumerate, F!EnumerateBlock,
                F!EnumerateEnd, F!EnumerateReturns, FoundAside, owfsVars
  <2>3. ~(found < 0)
    BY <1>1 DEF Probe, ProbeFailed, Enumerate, EmptyMenu
  <2> QED
    BY <2>1, <2>2, <2>3 DEF MenuAside, FoundAside, NotYetMenu, EmptyMenu
<1>2. CASE Menu
  <2>1. bpc = "menu" /\ bpc' = "menu" /\ FoundAside
    BY <1>2 DEF Menu, FoundAside, owfsVars
  <2>2. CASE M!Run(MenuCount)
    <3>1. found < 0 => mpc' = "wait"
      BY <2>2, SMT DEF M!Run, MenuCount
    <3> QED
      BY <2>1, <3>1 DEF FoundAside, NotYetMenu, EmptyMenu
  <2>3. CASE M!Poll \/ M!Clock
    <3>1. mpc \in {"poll", "clock"}
      BY <2>3 DEF M!Poll, M!Clock, M!SameSecond, M!CountDown, M!TimeOut, M!PassClock
    <3> QED
      BY <2>1, <3>1 DEF FoundAside, NotYetMenu, EmptyMenu
  <2>4. CASE M!WaitPoll
    <3>1. mpc' \in {"wait", "spin"} \/ (mpc' = "done" /\ result' = -1)
      BY <2>4 DEF M!WaitPoll, M!Return, M!Reboot
    <3> QED
      BY <2>1, <3>1 DEF FoundAside, NotYetMenu, EmptyMenu
  <2>5. CASE M!WaitSpin
    <3>1. mpc' \in {"wait", "spin"}
      BY <2>5 DEF M!WaitSpin
    <3> QED
      BY <2>1, <3>1 DEF FoundAside, NotYetMenu, EmptyMenu
  <2> QED
    BY <1>2, <2>2, <2>3, <2>4, <2>5 DEF Menu, M!Step
<1>3. CASE Chosen
  <2>1. bpc = "menu" /\ mpc = "done" /\ bpc' = Outcome(result) /\ MenuAside
    BY <1>3 DEF Chosen, MenuAside, menuVars
  <2>2. result = -1 => Outcome(result) = "reboot"
    BY SMT DEF Outcome
  <2>3. Outcome(result) \in {"reboot", "shutdown", "load"}
    BY DEF Outcome
  <2>4. FoundAside
    BY <1>3 DEF Chosen, F!LoadFile, FoundAside, owfsVars
  <2> QED
    BY <2>1, <2>2, <2>3, <2>4 DEF MenuAside, FoundAside, NotYetMenu, EmptyMenu
<1>4. CASE \/ Load \/ LoadFailed \/ Publish \/ GetMapSize \/ AllocatePages \/ GetMap
           \/ ExitBootServices \/ Jump \/ MapChanges \/ UseModes
  <2>1. /\ MenuAside /\ FoundAside
        /\ {bpc, bpc'} \subseteq {"load", "failed", "size", "allocate", "map", "exit", "jump",
                                   "kernel", "running"}
    BY <1>4 DEF Load, LoadFailed, Publish, GetMapSize, AllocatePages, GetMap, ExitBootServices,
                Jump, MapChanges, UseModes, F!LoadBlock, F!LoadEnd, MenuAside, FoundAside,
                menuVars, owfsVars
  <2> QED
    BY <2>1 DEF MenuAside, FoundAside, NotYetMenu, EmptyMenu
<1>5. CASE Tick \/ Press \/ UNCHANGED vars
  <2>1. UNCHANGED bpc /\ MenuAside /\ FoundAside
    BY <1>5 DEF Tick, Press, M!Tick, M!Press, M!loopVars, vars, menuVars, owfsVars,
                MenuAside, FoundAside
  <2> QED
    BY <2>1 DEF MenuAside, FoundAside, NotYetMenu, EmptyMenu
<1>6. CASE RunKernel \/ Restart
  <2>1. mpc' = "idle" /\ found' = 0
    BY <1>6 DEF RunKernel, Restart, LoaderForgotten
  <2> QED
    BY <2>1, SMT DEF NotYetMenu, EmptyMenu
<1> QED
  BY <1>1, <1>2, <1>3, <1>4, <1>5, <1>6 DEF Next, Step

LEMMA InitFaultInv == Init => FaultInv
BY SMT DEF Init, F!Init, M!Init, FaultInv, NotYetMenu, EmptyMenu

(* Nothing of a catalog that could not be read to its end is booted        *)
(* (main.c:80-99).                                                           *)
THEOREM BootFaultyCatalog == Spec => []FaultyCatalogBootsNothing
<1>1. Init => FaultInv
  BY InitFaultInv
<1>2. FaultInv => FaultyCatalogBootsNothing
  BY DEF FaultInv, EmptyMenu, FaultyCatalogBootsNothing
<1> QED
  BY <1>1, <1>2, FaultInvInductive, PTL DEF Spec

-----------------------------------------------------------------------------
(* Every step but the restart is a call of the controller or none. *)
LEMMA ModeSteps == ASSUME [Next]_vars PROVE Restart \/ [KernelNext]_sucsVars
<1>1. CASE Publish
  <2>1. InitBootConfig("block", Base) /\ Base \in Modes \cup OtherValues /\ "block" \in Copies
    BY <1>1, SucsAssumption DEF Publish, SucsAssumption, Copies
  <2> QED
    BY <2>1 DEF KernelNext
<1>2. CASE UseModes
  BY <1>2 DEF UseModes
<1>3. CASE ~(Publish \/ UseModes \/ Restart)
  <2>1. UNCHANGED sucsVars
    BY <1>3 DEF Next, Step, Probe, ProbeFailed, Enumerate, Menu, Chosen, Load, LoadFailed,
                GetMapSize, AllocatePages, GetMap, ExitBootServices, Jump, MapChanges, Tick,
                Press, RunKernel, vars
  <2> QED
    BY <2>1
<1> QED
  BY <1>1, <1>2, <1>3

(* Between two starts of the machine, with the loader initialising the     *)
(* block and the kernel calling what it likes, every step does to both      *)
(* configurations what ModeCalls says of a call; of the restart itself      *)
(* nothing is claimed (main.c:120-126, sucs_mode.c:23-75).                   *)
THEOREM BootKeepsModes == Spec => ModesKept
<1> USE SucsAssumption
<1>1. Init => ModeInv
  BY ModeInvInitial DEF Init
<1>2. ModeInv /\ [Next]_vars => ModeInv'
  BY ModeSteps, ModeInvInductive, ModeInvAnew DEF Restart
<1>3. ModeInv /\ [Next]_vars => (~Restart => GlobalCalls!Step /\ BlockCalls!Step)
  BY ModeSteps, GlobalStep, BlockStep DEF GlobalCalls!Step, BlockCalls!Step
<1> QED
  BY <1>1, <1>2, <1>3, PTL DEF Spec, ModesKept

-----------------------------------------------------------------------------
(* What was asked is what is done.  The list of entries is a sequence, so  *)
(* their number is one; the menu's selection and what it returns are        *)
(* entries of it; and from the choice on kmain is where the choice leads.   *)
AnEntry == mpc = "done" /\ result \in 0 .. count - 1
ListInv == vol \in Volumes /\ found \in Int /\ \E X : entries \in Seq(X)
MenuInv == /\ count \in Nat
           /\ mpc = "idle" => count = 0
           /\ mpc \in {"poll", "clock"} => sel \in 0 .. count - 1
           /\ mpc = "done" => \/ result = -1
                              \/ result = -2 /\ count > 0
                              \/ result \in 0 .. count - 1
WhereInv == /\ bpc \in {"probe", "probe_failed", "enumerate", "running"} => mpc = "idle"
            /\ bpc \in {"load", "failed", "size", "allocate", "map", "exit", "jump", "kernel"}
                 => AnEntry
            /\ bpc = "shutdown" => mpc = "done" /\ result = -2 /\ count > 0
            /\ bpc = "reboot" => mpc = "idle" \/ (mpc = "done" /\ result = -1)
PathInv == ListInv /\ MenuInv /\ WhereInv

LEMMA SameCardinality == \A S : F!Cardinality(S) = Cardinality(S)
BY DEF F!Cardinality, Cardinality

(* A catalog block gives entries in a sequence. *)
LEMMA ScanSequence ==
  ASSUME vol \in Volumes, NEW b, NEW space
  PROVE  \E X : F!Scan(F!Entries(b), space).found \in Seq(X)
<1> DEFINE es   == F!Entries(b)
           good == {i \in DOMAIN es : F!IsListed(es[i])}
           over == {i \in good : F!Cardinality({j \in good : j < i}) >= space}
           seen == {i \in DOMAIN es : \A j \in over : i < j}
           list == seen \cap good
           nth(k) == CHOOSE i \in list : F!Cardinality({j \in list : j <= i}) = k
           entry(k) == [inode |-> es[nth(k)].inode_number, type |-> es[nth(k)].entry_type]
<1>1. es \in Seq(F!CatalogEntries)
  <2>1. CASE b \in DOMAIN vol.entries
    BY <2>1, BootAssumption DEF F!Entries, BootAssumption, F!OwfsAssumption
  <2>2. CASE b \notin DOMAIN vol.entries
    <3>1. F!Garbage \in F!CatalogEntries
      BY DEF F!Garbage, F!CatalogEntries
    <3> QED
      BY <2>2, <3>1 DEF F!Entries
  <2> QED
    BY <2>1, <2>2
<1>2. list \subseteq 1 .. Len(es) /\ IsFiniteSet(1 .. Len(es))
  <2> HIDE DEF es, over
  <2> QED
    BY <1>1, FS_Interval
<1>3. F!Scan(es, space).found = [k \in 1 .. F!Cardinality(list) |-> entry(k)]
  BY DEF F!Scan
<1> HIDE DEF list
<1>4. Cardinality(list) \in Nat
  BY <1>2, FS_Subset, FS_CardinalityType
<1> DEFINE n == F!Cardinality(list)
           X == {entry(k) : k \in 1 .. n}
<1>5. n \in Nat
  BY <1>4, SameCardinality
<1>6. [k \in 1 .. n |-> entry(k)] \in Seq(X)
  <2> HIDE DEF n, entry
  <2> QED
    BY <1>5
<1> QED
  BY <1>3, <1>6

LEMMA Appended ==
  ASSUME NEW X, NEW Y, NEW s \in Seq(X), NEW t \in Seq(Y)
  PROVE  \E Z : s \o t \in Seq(Z)
<1>1. s \in Seq(X \cup Y) /\ t \in Seq(X \cup Y)
  OBVIOUS
<1>2. s \o t \in Seq(X \cup Y)
  BY <1>1
<1> QED
  BY <1>2

LEMMA ListInvInductive == ASSUME ListInv, [Next]_vars PROVE ListInv'
<1>1. CASE Enumerate
  <2>1. vol' = vol
    BY <1>1 DEF Enumerate, F!Enumerate, F!EnumerateBlock, F!EnumerateEnd
  <2>2. CASE F!Enumerate
    <3>1. entries' = entries /\ (found' = found \/ found' = -1 \/ found' = -2)
      BY <2>2 DEF F!Enumerate, F!EnumerateReturns
    <3> QED
      BY <2>1, <3>1 DEF ListInv
  <2>3. CASE F!EnumerateBlock
    <3>1. PICK f \in F!Fetches(ino, idx) :
            \/ /\ \/ found' = -3
                  \/ found' = -4
               /\ entries' = entries
            \/ /\ entries' = entries \o F!Scan(F!Entries(f.block), F!Room).found
               /\ found' = Len(entries') \/ found' = found
      BY <2>3 DEF F!EnumerateBlock, F!EnumerateReturns
    <3>2. CASE entries' = entries
      BY <2>1, <3>1, <3>2 DEF ListInv
    <3>3. CASE entries' = entries \o F!Scan(F!Entries(f.block), F!Room).found
      <4>1. PICK X : entries \in Seq(X)
        BY DEF ListInv
      <4>2. PICK Y : F!Scan(F!Entries(f.block), F!Room).found \in Seq(Y)
        BY ScanSequence DEF ListInv
      <4>3. PICK Z : entries' \in Seq(Z)
        BY <3>3, <4>1, <4>2, Appended
      <4>4. Len(entries') \in Int
        BY <4>3
      <4>5. found' \in Int
        BY <3>1, <4>4 DEF ListInv
      <4> QED
        BY <2>1, <4>3, <4>5 DEF ListInv
    <3> QED
      BY <3>1, <3>2, <3>3
  <2>4. CASE F!EnumerateEnd
    <3>1. entries' = entries /\ found' = Len(entries)
      BY <2>4 DEF F!EnumerateEnd, F!EnumerateReturns
    <3>2. Len(entries) \in Int
      <4>1. PICK X : entries \in Seq(X)
        BY DEF ListInv
      <4> QED
        BY <4>1
    <3> QED
      BY <2>1, <3>1, <3>2 DEF ListInv
  <2> QED
    BY <1>1, <2>2, <2>3, <2>4 DEF Enumerate
<1>2. CASE RunKernel \/ Restart
  <2>1. vol' = vol /\ found' = 0 /\ entries' = <<>>
    BY <1>2 DEF RunKernel, Restart, LoaderForgotten
  <2>2. <<>> \in Seq({})
    OBVIOUS
  <2> QED
    BY <2>1, <2>2 DEF ListInv
<1>3. CASE ~(Enumerate \/ RunKernel \/ Restart)
  <2>1. UNCHANGED <<vol, found, entries>>
    BY <1>3 DEF Next, Step, Probe, ProbeFailed, Menu, Chosen, Load, LoadFailed, Publish,
                GetMapSize, AllocatePages, GetMap, ExitBootServices, Jump, MapChanges, Tick,
                Press, UseModes, vars, owfsVars, F!Probe, F!LoadFile, F!LoadBlock, F!LoadEnd
  <2> QED
    BY <2>1 DEF ListInv
<1> QED
  BY <1>1, <1>2, <1>3

(* No key moves the selection off the list. *)
LEMMA MovedInList ==
  ASSUME NEW n \in Nat \ {0}, NEW s \in 0 .. n - 1, NEW key \in M!NavKeys
  PROVE  M!Moved(key, s, n) \in 0 .. n - 1
<1>1. VISIBLE \in Nat
  BY BootAssumption DEF BootAssumption, M!MenuAssumption
<1>2. CASE key \in {"UP", "DOWN", "HOME", "END"}
  BY <1>2 DEF M!Moved
<1>3. CASE key = "PGUP"
  BY <1>1, <1>3 DEF M!Moved
<1>4. CASE key = "PGDN"
  BY <1>1, <1>4 DEF M!Moved
<1> QED
  BY <1>2, <1>3, <1>4 DEF M!NavKeys

(* What the menu does to the list it shows and to what it returns. *)
MenuOffers == /\ mpc = "idle" /\ mpc' \in {"wait", "poll"}
              /\ count' \in Nat /\ sel' = 0
              /\ \/ mpc' = "poll" /\ count' > 0
                 \/ mpc' = "wait" /\ count' = 0
MenuTurns  == /\ mpc \notin {"idle", "done"} /\ mpc' \notin {"idle", "done"}
              /\ count' = count
              /\ mpc' \in {"poll", "clock"} => sel' \in 0 .. count - 1
MenuEnds   == /\ mpc \notin {"idle", "done"} /\ mpc' = "done" /\ count' = count
              /\ \/ result' = -1
                 \/ result' = -2 /\ count > 0
                 \/ result' \in 0 .. count - 1

LEMMA MenuCases == ASSUME PathInv, Menu PROVE MenuOffers \/ MenuTurns \/ MenuEnds
<1>1. CASE M!Run(MenuCount)
  <2>1. MenuCount \in Nat
    BY DEF MenuCount, PathInv, ListInv
  <2>2. /\ mpc = "idle" /\ count' = MenuCount /\ sel' = 0
        /\ mpc' = IF MenuCount <= 0 THEN "wait" ELSE "poll"
    BY <1>1 DEF M!Run
  <2> HIDE DEF MenuCount
  <2>3. CASE MenuCount <= 0
    <3>1. MenuCount = 0
      BY <2>1, <2>3
    <3> QED
      BY <2>1, <2>2, <2>3, <3>1 DEF MenuOffers
  <2>4. CASE ~(MenuCount <= 0)
    <3>1. MenuCount > 0
      BY <2>1, <2>4
    <3> QED
      BY <2>1, <2>2, <2>4, <3>1 DEF MenuOffers
  <2> QED
    BY <2>3, <2>4
<1>2. CASE M!Poll
  <2> DEFINE key == M!KeyOf(pending)
  <2> HIDE DEF key
  <2>1. mpc = "poll" /\ count' = count /\ count \in Nat /\ sel \in 0 .. count - 1
    BY <1>2 DEF M!Poll, PathInv, MenuInv
  <2>2. count > 0
    BY <2>1
  <2>3. \/ sel' = sel /\ mpc' = "clock"
        \/ key \in M!NavKeys /\ sel' = M!Moved(key, sel, count) /\ mpc' = "clock"
        \/ mpc' = "done" /\ result' \in {sel, -1, -2}
    BY <1>2 DEF M!Poll, M!Return, M!Reboot, M!Shutdown, M!AfterMove, key
  <2>4. CASE mpc' = "clock"
    <3>1. sel' \in 0 .. count - 1
      BY <2>1, <2>2, <2>3, <2>4, MovedInList
    <3> QED
      BY <2>1, <2>4, <3>1 DEF MenuTurns
  <2>5. CASE mpc' = "done" /\ result' \in {sel, -1, -2}
    BY <2>1, <2>2, <2>5 DEF MenuEnds
  <2> QED
    BY <2>3, <2>4, <2>5
<1>3. CASE M!Clock
  <2>1. mpc = "clock" /\ count' = count /\ sel' = sel
    BY <1>3 DEF M!Clock, M!SameSecond, M!CountDown, M!TimeOut, M!PassClock
  <2>2. count \in Nat /\ sel \in 0 .. count - 1
    BY <2>1 DEF PathInv, MenuInv
  <2>3. mpc' = "poll" \/ (mpc' = "done" /\ result' = 0)
    BY <1>3 DEF M!Clock, M!SameSecond, M!CountDown, M!TimeOut, M!Return
  <2>4. 0 \in 0 .. count - 1
    BY <2>2
  <2> QED
    BY <2>1, <2>2, <2>3, <2>4 DEF MenuTurns, MenuEnds
<1>4. CASE M!WaitPoll
  <2>1. mpc = "wait" /\ count' = count
    BY <1>4 DEF M!WaitPoll
  <2>2. mpc' \in {"wait", "spin"} \/ (mpc' = "done" /\ result' = -1)
    BY <1>4 DEF M!WaitPoll, M!Return, M!Reboot
  <2> QED
    BY <2>1, <2>2 DEF MenuTurns, MenuEnds
<1>5. CASE M!WaitSpin
  <2>1. mpc = "spin" /\ count' = count /\ mpc' \in {"wait", "spin"}
    BY <1>5 DEF M!WaitSpin
  <2> QED
    BY <2>1 DEF MenuTurns
<1> QED
  BY <1>1, <1>2, <1>3, <1>4, <1>5 DEF Menu, M!Step

(* Indices from 0 in C, rows from 1 here; the negative values of menu_run   *)
(* are neither.                                                              *)
LEMMA IndexAndRow ==
  ASSUME NEW n \in Nat, NEW r \in 0 .. n - 1
  PROVE  r # -1 /\ r # -2 /\ r + 1 \in 1 .. n
OBVIOUS

LEMMA SomeRow == ASSUME NEW n \in Nat, n > 0 PROVE 0 \in 0 .. n - 1
OBVIOUS

(* The steps that leave the menu's locals alone. *)
MenuKept == UNCHANGED <<mpc, count, sel, result>>

LEMMA KeptSteps ==
  ASSUME [Next]_vars, ~(Menu \/ RunKernel \/ Restart)
  PROVE  MenuKept
<1>1. CASE Tick \/ Press
  BY <1>1 DEF Tick, Press, M!Tick, M!Press, M!loopVars, MenuKept
<1>2. CASE ~(Tick \/ Press)
  BY <1>2 DEF Next, Step, Probe, ProbeFailed, Enumerate, Chosen, Load, LoadFailed, Publish,
              GetMapSize, AllocatePages, GetMap, ExitBootServices, Jump, MapChanges, UseModes,
              vars, menuVars, MenuKept
<1> QED
  BY <1>1, <1>2

(* menu_run's value: an entry is loaded, -1 resets, -2 powers off. *)
LEMMA OutcomeCases ==
  ASSUME PathInv, Chosen
  PROVE  /\ mpc = "done" /\ bpc = "menu" /\ UNCHANGED entries
         /\ \/ bpc' = "load" /\ AnEntry
            \/ bpc' = "reboot" /\ result = -1
            \/ bpc' = "shutdown" /\ result = -2 /\ count > 0
<1>1. mpc = "done" /\ bpc = "menu" /\ bpc' = Outcome(result)
  BY DEF Chosen
<1>2. UNCHANGED entries
  BY DEF Chosen, F!LoadFile, owfsVars
<1>3. result = -1 => Outcome(result) = "reboot"
  BY SMT DEF Outcome
<1>4. result = -2 => Outcome(result) = "shutdown"
  BY SMT DEF Outcome
<1>5. count \in Nat
  BY DEF PathInv, MenuInv
<1>6. result \in 0 .. count - 1 => Outcome(result) = "load"
  BY <1>5, SMT DEF Outcome
<1>7. result = -1 \/ (result = -2 /\ count > 0) \/ result \in 0 .. count - 1
  BY <1>1 DEF PathInv, MenuInv
<1> QED
  BY <1>1, <1>2, <1>3, <1>4, <1>6, <1>7 DEF AnEntry

LEMMA PathInvInductive == ASSUME PathInv, [Next]_vars PROVE PathInv'
<1>1. ListInv'
  BY ListInvInductive DEF PathInv
<1>2. MenuInv' /\ WhereInv'
  <2>1. CASE Menu
    <3>1. bpc = "menu" /\ bpc' = "menu"
      BY <2>1 DEF Menu
    <3>2. CASE MenuOffers
      <4>1. count' > 0 => 0 \in 0 .. count' - 1
        BY <3>2, SomeRow DEF MenuOffers
      <4> QED
        BY <3>1, <3>2, <4>1 DEF MenuOffers, MenuInv, WhereInv
    <3>3. CASE MenuTurns \/ MenuEnds
      BY <3>1, <3>3 DEF MenuTurns, MenuEnds, PathInv, MenuInv, WhereInv
    <3> QED
      BY <2>1, <3>2, <3>3, MenuCases
  <2>2. CASE RunKernel \/ Restart
    <3>1. mpc' = "idle" /\ count' = 0 /\ bpc' \in {"running", "probe"}
      BY <2>2 DEF RunKernel, Restart, LoaderForgotten
    <3>2. 0 \in Nat
      OBVIOUS
    <3> QED
      BY <3>1, <3>2 DEF MenuInv, WhereInv
  <2>3. CASE ~(Menu \/ RunKernel \/ Restart)
    <3>1. MenuKept
      BY <2>3, KeptSteps
    <3>2. MenuInv'
      BY <3>1 DEF MenuKept, PathInv, MenuInv
    <3>3. CASE Probe \/ ProbeFailed \/ Enumerate
      <4>1. /\ bpc \in {"probe", "probe_failed", "enumerate"}
            /\ bpc' \in {"probe", "probe_failed", "enumerate", "menu", "reboot"}
        BY <3>3 DEF Probe, ProbeFailed, Enumerate
      <4> QED
        BY <3>1, <3>2, <4>1 DEF MenuKept, PathInv, WhereInv
    <3>4. CASE Chosen
      BY <3>1, <3>2, <3>4, OutcomeCases DEF MenuKept, AnEntry, WhereInv
    <3>5. CASE \/ Load \/ LoadFailed \/ Publish \/ GetMapSize \/ AllocatePages \/ GetMap
               \/ ExitBootServices \/ Jump \/ MapChanges
      <4>1. {bpc, bpc'} \subseteq {"load", "failed", "size", "allocate", "map", "exit", "jump",
                                   "kernel"}
        BY <3>5 DEF Load, LoadFailed, Publish, GetMapSize, AllocatePages, GetMap,
                    ExitBootServices, Jump, MapChanges
      <4> QED
        BY <3>1, <3>2, <4>1 DEF MenuKept, AnEntry, PathInv, WhereInv
    <3>6. CASE UseModes \/ Tick \/ Press \/ UNCHANGED vars
      <4>1. UNCHANGED bpc
        BY <3>6 DEF UseModes, Tick, Press, vars
      <4> QED
        BY <3>1, <3>2, <4>1 DEF MenuKept, AnEntry, PathInv, WhereInv
    <3> QED
      BY <2>3, <3>2, <3>3, <3>4, <3>5, <3>6 DEF Next, Step
  <2> QED
    BY <2>1, <2>2, <2>3
<1> QED
  BY <1>1, <1>2 DEF PathInv

-----------------------------------------------------------------------------
(* The steps of the promise.  Listed is what is offered. *)
Listed == {entries[i].inode : i \in 1 .. count}

(* An entry returned by the menu is one that was offered. *)
LEMMA AnEntryAsked ==
  ASSUME MenuInv, AnEntry
  PROVE  Asked = <<"boot", Chose>> /\ Chose \in Listed
<1>1. count \in Nat /\ result \in 0 .. count - 1 /\ mpc = "done"
  BY DEF MenuInv, AnEntry
<1>2. result # -1 /\ result # -2 /\ result + 1 \in 1 .. count
  BY <1>1
<1>3. Asked = <<"boot", Chose>>
  BY <1>1, <1>2 DEF Asked
<1>4. Chose \in Listed
  BY <1>2 DEF Chose, Listed
<1> QED
  BY <1>3, <1>4

(* A step that changes neither the list, nor the answer, nor who has the   *)
(* machine is no step of the promise.                                       *)
LEMMA Unnoticed ==
  ASSUME UNCHANGED <<mpc, count, result, entries>>, Machine' = Machine,
         bpc # "reboot", bpc' # "reboot"
  PROVE  UNCHANGED Promise!vars
<1>1. Asked' = Asked
  BY DEF Asked, Chose
<1>2. {entries[i].inode : i \in 1 .. count}' = {entries[i].inode : i \in 1 .. count}
  OBVIOUS
<1> QED
  BY <1>1, <1>2 DEF Promise!vars

(* With nothing listed, the reboot screen is asked for and obeyed at once. *)
LEMMA NothingListed == ASSUME count = 0 PROVE Listed = {}
<1>1. 1 .. 0 = {}
  OBVIOUS
<1> QED
  BY <1>1 DEF Listed

LEMMA PromiseStep == ASSUME PathInv, PathInv', [Next]_vars PROVE [Promise!Next]_Promise!vars
<1> USE DEF PathInv
<1>1. CASE Enumerate
  <2>1. /\ MenuKept /\ mpc = "idle" /\ count = 0
        /\ bpc = "enumerate" /\ bpc' \in {"enumerate", "menu"}
    BY <1>1 DEF Enumerate, menuVars, MenuKept, WhereInv, MenuInv
  <2>2. Asked = <<>> /\ Asked' = <<>> /\ Machine = "loader" /\ Machine' = "loader"
    BY <2>1 DEF Asked, Machine, MenuKept
  <2>3. Listed = {} /\ Listed' = {}
    <3>1. 1 .. 0 = {}
      OBVIOUS
    <3> QED
      BY <2>1, <3>1 DEF Listed, MenuKept
  <2> QED
    BY <2>2, <2>3 DEF Promise!vars, Listed
<1>2. CASE \/ Probe \/ Load \/ Publish \/ GetMapSize \/ AllocatePages \/ GetMap
           \/ ExitBootServices \/ MapChanges \/ UseModes
  <2>1. MenuKept
    BY <1>2, KeptSteps DEF Probe, Load, Publish, GetMapSize, AllocatePages, GetMap,
                           ExitBootServices, MapChanges, UseModes, Menu, RunKernel, Restart
  <2>2. UNCHANGED entries
    BY <1>2 DEF Probe, Load, Publish, GetMapSize, AllocatePages, GetMap, ExitBootServices,
                MapChanges, UseModes, F!Probe, F!LoadBlock, F!LoadEnd, owfsVars
  <2>3. \/ {bpc, bpc'} \subseteq {"probe", "probe_failed", "enumerate", "load", "size",
                                  "allocate", "map", "exit", "jump"}
        \/ bpc = "running" /\ bpc' = "running"
    BY <1>2 DEF Probe, Load, Publish, GetMapSize, AllocatePages, GetMap, ExitBootServices,
                MapChanges, UseModes
  <2>4. Machine' = Machine /\ bpc # "reboot" /\ bpc' # "reboot"
    BY <2>3 DEF Machine
  <2> QED
    BY <2>1, <2>2, <2>4, Unnoticed DEF MenuKept
<1>3. CASE Tick \/ Press \/ UNCHANGED vars
  <2>1. MenuKept /\ UNCHANGED <<bpc, entries>>
    BY <1>3 DEF Tick, Press, M!Tick, M!Press, M!loopVars, vars, menuVars, owfsVars, MenuKept
  <2>2. Asked' = Asked /\ Machine' = Machine /\ Listed' = Listed
    BY <2>1 DEF MenuKept, Asked, Chose, Machine, Listed
  <2> QED
    BY <2>2 DEF Promise!vars, Listed
<1>4. CASE ProbeFailed
  <2>1. /\ MenuKept /\ UNCHANGED entries /\ mpc = "idle" /\ count = 0
        /\ bpc = "probe_failed" /\ bpc' \in {"probe_failed", "reboot"}
    BY <1>4 DEF ProbeFailed, MenuKept, owfsVars, WhereInv, MenuInv
  <2>2. CASE bpc' = "probe_failed"
    BY <2>1, <2>2, Unnoticed DEF MenuKept, Machine
  <2>3. CASE bpc' = "reboot"
    <3>1. Asked = <<>> /\ Asked' = <<"reset">> /\ Machine = "loader" /\ Machine' = "reset"
      BY <2>1, <2>3 DEF Asked, Machine, MenuKept
    <3>2. Listed = {} /\ Listed' = Listed
      BY <2>1, NothingListed DEF Listed, MenuKept
    <3>3. Promise!Abandon
      BY <3>1, <3>2 DEF Promise!Abandon, Promise!Deciding, Listed
    <3> QED
      BY <3>3 DEF Promise!Next
  <2> QED
    BY <2>1, <2>2, <2>3
<1>5. CASE Menu
  <2>1. UNCHANGED entries /\ bpc = "menu" /\ bpc' = "menu"
    BY <1>5 DEF Menu, owfsVars
  <2>2. Machine = "loader" /\ Machine' = "loader"
    BY <2>1 DEF Machine
  <2>3. CASE MenuOffers
    <3>1. mpc = "idle" /\ count = 0 /\ mpc' # "done" /\ count' \in Nat
      BY <2>3 DEF MenuOffers, MenuInv
    <3>2. Asked = <<>> /\ Asked' = <<>>
      BY <2>1, <3>1 DEF Asked
    <3>3. Listed = {}
      BY <3>1, NothingListed
    <3>4. CASE count' = 0
      <4>1. 1 .. 0 = {}
        OBVIOUS
      <4>2. Listed' = {}
        BY <3>4, <4>1 DEF Listed
      <4> QED
        BY <2>2, <3>2, <3>3, <4>2 DEF Promise!vars, Listed
    <3>5. CASE count' > 0
      <4>1. 1 \in 1 .. count'
        BY <3>1, <3>5
      <4>2. entries'[1].inode \in Listed'
        BY <4>1 DEF Listed
      <4>3. Promise!Offer
        BY <2>2, <3>2, <3>3, <4>2 DEF Promise!Offer, Promise!Deciding, Listed
      <4> QED
        BY <4>3 DEF Promise!Next
    <3> QED
      BY <2>3, <3>4, <3>5 DEF MenuOffers
  <2>4. CASE MenuTurns
    <3>1. Asked = <<>> /\ Asked' = <<>> /\ Listed' = Listed
      BY <2>1, <2>4 DEF MenuTurns, Asked, Listed
    <3> QED
      BY <2>2, <3>1 DEF Promise!vars, Listed
  <2>5. CASE MenuEnds
    <3>1. Asked = <<>> /\ Listed' = Listed
      BY <2>1, <2>5 DEF MenuEnds, Asked, Listed
    <3>2. \/ Asked' = <<"reset">>
          \/ Asked' = <<"off">> /\ Listed # {}
          \/ \E inode \in Listed : Asked' = <<"boot", inode>>
      <4>1. CASE result' = -1
        BY <2>5, <4>1 DEF MenuEnds, Asked
      <4>2. CASE result' = -2 /\ count > 0
        <5>1. Asked' = <<"off">>
          BY <2>1, <2>5, <4>2 DEF MenuEnds, Asked
        <5>2. 1 \in 1 .. count
          BY <4>2 DEF MenuInv
        <5>3. Listed # {}
          BY <5>2 DEF Listed
        <5> QED
          BY <5>1, <5>3
      <4>3. CASE result' \in 0 .. count - 1
        <5>1. result' # -1 /\ result' # -2 /\ result' + 1 \in 1 .. count
          <6>1. count \in Nat
            BY DEF MenuInv
          <6> QED
            BY <4>3, <6>1, IndexAndRow
        <5>2. mpc' = "done" /\ UNCHANGED entries
          BY <2>1, <2>5 DEF MenuEnds
        <5>3. Asked' = <<"boot", entries[result' + 1].inode>>
          BY <5>1, <5>2 DEF Asked, Chose
        <5> QED
          BY <5>1, <5>3 DEF Listed
      <4> QED
        BY <2>5, <4>1, <4>2, <4>3 DEF MenuEnds
    <3>3. Promise!Ask
      BY <2>2, <3>1, <3>2 DEF Promise!Ask, Promise!Deciding, Listed
    <3> QED
      BY <3>3 DEF Promise!Next
  <2> QED
    BY <1>5, <2>3, <2>4, <2>5, MenuCases
<1>6. CASE Chosen
  <2>1. MenuKept
    BY <1>6 DEF Chosen, menuVars, MenuKept
  <2>2. mpc = "done" /\ bpc = "menu" /\ UNCHANGED entries
    BY <1>6, OutcomeCases
  <2>3. Asked' = Asked /\ Listed' = Listed /\ Machine = "loader"
    BY <2>1, <2>2 DEF MenuKept, Asked, Chose, Listed, Machine
  <2>4. CASE bpc' = "load"
    <3>1. Machine' = "loader"
      BY <2>4 DEF Machine
    <3> QED
      BY <2>3, <3>1 DEF Promise!vars, Listed
  <2>5. CASE bpc' = "reboot" /\ result = -1
    <3>1. Machine' = "reset" /\ Asked = <<"reset">>
      BY <2>2, <2>5 DEF Machine, Asked
    <3>2. Promise!Obey
      BY <2>3, <3>1 DEF Promise!Obey, Listed
    <3> QED
      BY <3>2 DEF Promise!Next
  <2>6. CASE bpc' = "shutdown" /\ result = -2
    <3>1. result # -1
      BY <2>6
    <3>2. Machine' = "off" /\ Asked = <<"off">>
      BY <2>2, <2>6, <3>1 DEF Machine, Asked
    <3>3. Promise!Obey
      BY <2>3, <3>2 DEF Promise!Obey, Listed
    <3> QED
      BY <3>3 DEF Promise!Next
  <2> QED
    BY <1>6, <2>4, <2>5, <2>6, OutcomeCases
<1>7. CASE LoadFailed \/ Jump
  <2>1. MenuKept
    BY <1>7 DEF LoadFailed, Jump, menuVars, MenuKept
  <2>2. /\ UNCHANGED entries /\ bpc \in {"load", "jump"} /\ bpc' \in {"failed", "kernel"}
    BY <1>7 DEF LoadFailed, Jump, owfsVars
  <2>3. Asked = <<"boot", Chose>> /\ Chose \in Listed
    BY <2>2, AnEntryAsked DEF WhereInv
  <2>4. Asked' = Asked /\ Listed' = Listed
    BY <2>1, <2>2 DEF MenuKept, Asked, Chose, Listed
  <2>5. Machine = "loader" /\ Machine' \in {"kernel", "halted"}
    BY <2>2 DEF Machine
  <2>6. Promise!Obey
    BY <2>3, <2>4, <2>5 DEF Promise!Obey, Listed
  <2> QED
    BY <2>6 DEF Promise!Next
<1>8. CASE RunKernel \/ Restart
  <2>1. mpc' = "idle" /\ count' = 0 /\ bpc' \in {"running", "probe"}
    BY <1>8 DEF RunKernel, Restart, LoaderForgotten
  <2>2. Asked' = <<>> /\ Listed' = {}
    <3>1. 1 .. 0 = {}
      OBVIOUS
    <3> QED
      BY <2>1, <3>1 DEF Asked, Listed
  <2>3. CASE RunKernel
    <3>1. Machine = "kernel" /\ Machine' = "running"
      BY <2>3 DEF RunKernel, Machine
    <3>2. Promise!Leave
      BY <2>2, <3>1 DEF Promise!Leave, Listed
    <3> QED
      BY <3>2 DEF Promise!Next
  <2>4. CASE Restart
    <3>1. Machine # "loader" /\ Machine' = "loader"
      BY <2>4 DEF Restart, Final, Machine
    <3>2. Promise!Restart
      BY <2>2, <3>1 DEF Promise!Restart, Listed
    <3> QED
      BY <3>2 DEF Promise!Next
  <2> QED
    BY <1>8, <2>3, <2>4
<1> QED
  BY <1>1, <1>2, <1>3, <1>4, <1>5, <1>6, <1>7, <1>8 DEF Next, Step

LEMMA InitPathInv == Init => PathInv
<1> SUFFICES ASSUME Init PROVE PathInv
  OBVIOUS
<1>1. /\ vol \in Volumes /\ found = 0 /\ entries = <<>> /\ mpc = "idle" /\ count = 0
      /\ bpc = "probe"
  BY DEF Init, F!Init, M!Init
<1>2. <<>> \in Seq({}) /\ 0 \in Nat
  OBVIOUS
<1> QED
  BY <1>1, <1>2 DEF PathInv, ListInv, MenuInv, WhereInv

(* kmain does what the user or the countdown asked and nothing else: it    *)
(* boots an entry that was listed, resets or powers off, and halts only on  *)
(* a file that does not come up (main.c:93-183).                             *)
THEOREM BootImplementsPromise == Spec => ImplementsPromise
<1>1. Init => PathInv
  BY InitPathInv
<1>2. Init => Promise!Init
  <2> SUFFICES ASSUME Init PROVE Promise!Init
    OBVIOUS
  <2>1. mpc = "idle" /\ count = 0 /\ bpc = "probe"
    BY DEF Init, M!Init
  <2>2. Listed = {} /\ Asked = <<>> /\ Machine = "loader"
    BY <2>1, NothingListed DEF Asked, Machine
  <2> QED
    BY <2>2 DEF Promise!Init, Listed
<1> QED
  BY <1>1, <1>2, PathInvInductive, PromiseStep, PTL DEF Spec, ImplementsPromise, Promise!Spec

-----------------------------------------------------------------------------
(* The driver.  Its theorems are those of Owfs_proofs, here about the      *)
(* driver kmain calls: the definitions of one instance are the other's.     *)
Drv == INSTANCE Owfs_proofs

LEMMA DriverAssumed == Drv!OwfsAssumption
BY BootAssumption DEF BootAssumption, F!OwfsAssumption, Drv!OwfsAssumption, F!Inodes,
       Drv!Inodes, F!CatalogEntries, Drv!CatalogEntries

LEMMA SameCodes ==
  /\ Drv!BanIoError = BanIoError /\ F!BanIoError = BanIoError
  /\ Drv!BanInodeChecksum = BanInodeChecksum /\ F!BanInodeChecksum = BanInodeChecksum
  /\ Drv!SoftBadBlockMap = SoftBadBlockMap /\ F!SoftBadBlockMap = SoftBadBlockMap
  /\ Drv!BanCatalogChecksum = BanCatalogChecksum /\ F!BanCatalogChecksum = BanCatalogChecksum
  /\ Drv!BanLoadFailed = BanLoadFailed /\ F!BanLoadFailed = BanLoadFailed
  /\ Drv!ComCatalogEnumOk = ComCatalogEnumOk /\ F!ComCatalogEnumOk = ComCatalogEnumOk
  /\ Drv!ComKernelLoadOk = ComKernelLoadOk /\ F!ComKernelLoadOk = ComKernelLoadOk
  /\ Drv!ComVolumeProbeOk = ComVolumeProbeOk /\ F!ComVolumeProbeOk = ComVolumeProbeOk
BY SMT DEF Drv!BanIoError, F!BanIoError, BanIoError, Drv!BanInodeChecksum, F!BanInodeChecksum,
           BanInodeChecksum, Drv!SoftBadBlockMap, F!SoftBadBlockMap, SoftBadBlockMap,
           Drv!BanCatalogChecksum, F!BanCatalogChecksum, BanCatalogChecksum, Drv!BanLoadFailed,
           F!BanLoadFailed, BanLoadFailed, Drv!ComCatalogEnumOk, F!ComCatalogEnumOk,
           ComCatalogEnumOk, Drv!ComKernelLoadOk, F!ComKernelLoadOk, ComKernelLoadOk,
           Drv!ComVolumeProbeOk, F!ComVolumeProbeOk, ComVolumeProbeOk

LEMMA SameReads == \A num : Drv!InodeReads(num) = F!InodeReads(num)
BY SameCodes DEF Drv!InodeReads, F!InodeReads, Drv!InodeRead, F!InodeRead, Drv!ReadOk,
                 F!ReadOk, Drv!NoInode, F!NoInode

LEMMA SameFetches == \A inode, i : Drv!Fetches(inode, i) = F!Fetches(inode, i)
BY SameCodes DEF Drv!Fetches, F!Fetches, Drv!BlockMap, F!BlockMap, Drv!Mapped, F!Mapped,
                 Drv!Unreadable, F!Unreadable, Drv!ReadOk, F!ReadOk, Drv!Pointer, F!Pointer,
                 Drv!When, F!When

LEMMA SameScans == \A b : Drv!Scan(Drv!Entries(b), Drv!Room) = F!Scan(F!Entries(b), F!Room)
BY SameCodes DEF Drv!Scan, F!Scan, Drv!Entries, F!Entries, Drv!Garbage, F!Garbage, Drv!Room,
                 F!Room, Drv!IsListed, F!IsListed, Drv!IsLive, F!IsLive, Drv!Cardinality,
                 F!Cardinality, Drv!BanCatalogChecksum, F!BanCatalogChecksum

LEMMA SamePropagated == Drv!Propagated = F!Propagated
BY SameCodes DEF Drv!Propagated, F!Propagated, Drv!D!Newest, F!D!Newest

LEMMA SameRaise == \A codes : Drv!Raise(codes) <=> F!Raise(codes)
BY DEF Drv!Raise, F!Raise, Drv!D!Keep, F!D!Keep

LEMMA SameInit == Drv!Init <=> F!Init
BY DEF Drv!Init, F!Init, Drv!NoInode, F!NoInode

LEMMA SameEnumerate == Drv!Enumerate <=> F!Enumerate
BY SameCodes, SameReads, SameRaise DEF Drv!Enumerate, F!Enumerate, Drv!EnumerateReturns,
       F!EnumerateReturns, Drv!IsSuccess, F!IsSuccess, Drv!ComcodeBlock, F!ComcodeBlock

LEMMA SameEnumerateBlock == Drv!EnumerateBlock <=> F!EnumerateBlock
BY SameFetches, SameScans, SameRaise DEF Drv!EnumerateBlock, F!EnumerateBlock,
       Drv!EnumerateReturns, F!EnumerateReturns, Drv!NextCatalogBlock, F!NextCatalogBlock

LEMMA SameEnumerateEnd == Drv!EnumerateEnd <=> F!EnumerateEnd
BY SameCodes, SameRaise DEF Drv!EnumerateEnd, F!EnumerateEnd, Drv!EnumerateReturns,
       F!EnumerateReturns, Drv!When, F!When

LEMMA SameUnloadable ==
  \A inode : /\ Drv!FailedLoadChecks(inode) = F!FailedLoadChecks(inode)
             /\ Drv!Unloadable(inode) = F!Unloadable(inode)
BY DEF Drv!FailedLoadChecks, F!FailedLoadChecks, Drv!Unloadable, F!Unloadable, Drv!LoadChecks,
       F!LoadChecks, Drv!SoftNotAFile, F!SoftNotAFile, Drv!SoftKernelTooSmall,
       F!SoftKernelTooSmall, Drv!SoftKernelTooLarge, F!SoftKernelTooLarge

LEMMA SameLoadFile == \A num : Drv!LoadFile(num) <=> F!LoadFile(num)
BY SameReads, SameRaise, SamePropagated, SameUnloadable DEF Drv!LoadFile, F!LoadFile,
       Drv!LoadReturns, F!LoadReturns

LEMMA SameLoadBlock == Drv!LoadBlock <=> F!LoadBlock
BY SameFetches, SameRaise, SamePropagated DEF Drv!LoadBlock, F!LoadBlock, Drv!LoadReturns,
       F!LoadReturns, Drv!Bytes, F!Bytes, Drv!Copied, F!Copied, Drv!LastBytes, F!LastBytes

LEMMA SameLoadEnd == Drv!LoadEnd <=> F!LoadEnd
BY SameCodes, SameRaise DEF Drv!LoadEnd, F!LoadEnd, Drv!LoadReturns, F!LoadReturns

LEMMA SameChecks ==
  \A sb : /\ Drv!FailedChecks(sb) = F!FailedChecks(sb)
          /\ Drv!FirstFailed(sb) = F!FirstFailed(sb)
          /\ Drv!Warnings(sb) = F!Warnings(sb)
BY DEF Drv!FailedChecks, F!FailedChecks, Drv!FirstFailed, F!FirstFailed, Drv!ProbeChecks,
       F!ProbeChecks, Drv!Warnings, F!Warnings, Drv!When, F!When, Drv!ComVolumeProbeOk,
       F!ComVolumeProbeOk, Drv!SoftIsUsfs, F!SoftIsUsfs, Drv!SoftNoVolume, F!SoftNoVolume,
       Drv!BanSbMagic, F!BanSbMagic, Drv!BanSbChecksum, F!BanSbChecksum,
       Drv!WarnVersionMismatch, F!WarnVersionMismatch, Drv!SoftEncryptedVolume,
       F!SoftEncryptedVolume, Drv!WarnVolumeDirty, F!WarnVolumeDirty, Drv!WarnVolumeLocked,
       F!WarnVolumeLocked, Drv!WarnStateError, F!WarnStateError

LEMMA SameProbe == Drv!Probe <=> F!Probe
BY SameCodes, SameRaise, SameChecks DEF Drv!Probe, F!Probe, Drv!ReadOk, F!ReadOk

LEMMA SameReading == \A inode : /\ Drv!WellFormedFile(inode) <=> F!WellFormedFile(inode)
                             /\ Drv!Content(inode) = F!Content(inode)
BY DEF Drv!WellFormedFile, F!WellFormedFile, Drv!WellMapped, F!WellMapped, Drv!IsMapped,
       F!IsMapped, Drv!BlockOf, F!BlockOf, Drv!Content, F!Content

LEMMA InitLater == Drv!Init' => Drv!IInv' /\ Drv!DataInv'
BY DriverAssumed, Drv!InitIInv, Drv!InitDataInv, PTL
-----------------------------------------------------------------------------
(* What owfs_load_file leaves when it returns success. *)
LEMMA LoadedFile ==
  ASSUME Drv!IInv, Drv!DataInv, dpc = "loaded", rc = ComKernelLoadOk
  PROVE  /\ size \in 0 .. KERNEL_MAX /\ vol \in Volumes /\ "FILE" \in ino.entry_type
         /\ F!WellFormedFile(ino) => image = F!Content(ino) /\ size = Len(F!Content(ino))
<1>1. rc = Drv!ComKernelLoadOk
  BY SameCodes
<1>2. size \in 0 .. KERNEL_MAX
  BY DEF Drv!DataInv, Drv!TypeOK
<1>3. vol \in Volumes /\ "FILE" \in ino.entry_type
  BY <1>1 DEF Drv!IInv, Drv!VolumeSound, Drv!SuccessMeansComplete
<1>4. ASSUME F!WellFormedFile(ino)
      PROVE  image = F!Content(ino) /\ size = Len(F!Content(ino))
  <2>1. image = F!Content(ino) /\ size = ino.size_bytes
    BY <1>1, <1>4, SameReading DEF Drv!DataInv, Drv!LoadedIsFile
  <2>2. size \in Nat
    BY <1>2
  <2>3. Len(F!Content(ino)) = ino.size_bytes
    BY <2>1, <2>2 DEF F!Content
  <2> QED
    BY <2>1, <2>3
<1> QED
  BY <1>2, <1>3, <1>4

(* The file kmain was asked for. *)
Wanted    == vol.inodes[Chose]
WantedOk  == F!WellFormedFile(Wanted)
WantedAll == F!Content(Wanted)

LEMMA WantedKept ==
  ASSUME UNCHANGED <<vol, entries, result>>
  PROVE  Wanted' = Wanted /\ WantedOk' = WantedOk /\ WantedAll' = WantedAll
<1>1. Wanted' = Wanted
  BY DEF Wanted, Chose
<1>2. WantedOk' = WantedOk
  BY <1>1 DEF WantedOk, F!WellFormedFile, F!WellMapped, F!IsMapped, F!BlockOf
<1>3. WantedAll' = WantedAll
  BY <1>1 DEF WantedAll, F!Content, F!BlockOf
<1> QED
  BY <1>1, <1>2, <1>3

(* While kmain calls the driver, the driver's invariant holds; what it     *)
(* walks to load is the inode of the chosen entry, or none; and from the    *)
(* moment the configuration is published, the load address holds the chosen *)
(* file until the memory map may be written over it.                        *)
Driving   == {"probe", "probe_failed", "enumerate", "menu", "load", "reboot", "shutdown",
              "running"}
Handing   == {"size", "allocate", "map", "exit", "jump", "kernel"}
DriverInv == bpc \in Driving => Drv!IInv /\ Drv!DataInv
WalkInv   == bpc = "load" => ino = Wanted \/ ino = Drv!NoInode
CfgTyped  == cfg \in [magic : {"none", "MBL2"}, boot_drive : {0}, kernel_size : 0 .. KERNEL_MAX]
KernelInv == bpc \in Handing =>
               /\ cfg = Published
               /\ WantedOk => size = Len(WantedAll)
               /\ WantedOk /\ (bpc \in {"size", "allocate", "map"} \/ pages # "kernel")
                    => image = WantedAll
FileInv   == DriverInv /\ WalkInv /\ CfgTyped /\ KernelInv

LEMMA FreshDriver == ASSUME F!Init' PROVE (Drv!IInv /\ Drv!DataInv)'
<1>1. Drv!Init'
  BY SameInit, PTL
<1> QED
  BY <1>1, InitLater

LEMMA DriverRests == ASSUME Drv!IInv, Drv!DataInv, UNCHANGED owfsVars
                     PROVE  (Drv!IInv /\ Drv!DataInv)'
<1>1. UNCHANGED Drv!vars
  BY DEF owfsVars, Drv!vars
<1> QED
  BY <1>1, DriverAssumed, Drv!StutterPreserves, Drv!StutterData

LEMMA DriverWorks ==
  ASSUME Drv!IInv, Drv!DataInv,
         F!Probe \/ F!Enumerate \/ F!EnumerateBlock \/ F!EnumerateEnd \/ F!LoadBlock \/ F!LoadEnd
  PROVE  (Drv!IInv /\ Drv!DataInv)'
<1>1. CASE F!Probe
  BY <1>1, SameProbe, DriverAssumed, Drv!ProbePreserves, Drv!ProbeData
<1>2. CASE F!Enumerate
  BY <1>2, SameEnumerate, DriverAssumed, Drv!EnumeratePreserves, Drv!EnumerateData
<1>3. CASE F!EnumerateBlock
  BY <1>3, SameEnumerateBlock, DriverAssumed, Drv!EnumerateBlockPreserves, Drv!EnumerateBlockData
<1>4. CASE F!EnumerateEnd
  BY <1>4, SameEnumerateEnd, DriverAssumed, Drv!EnumerateEndPreserves, Drv!EnumerateEndData
<1>5. CASE F!LoadBlock
  BY <1>5, SameLoadBlock, DriverAssumed, Drv!LoadBlockPreserves, Drv!LoadBlockData
<1>6. CASE F!LoadEnd
  BY <1>6, SameLoadEnd, DriverAssumed, Drv!LoadEndPreserves, Drv!LoadEndData
<1> QED
  BY <1>1, <1>2, <1>3, <1>4, <1>5, <1>6

(* The load begins on the inode of the entry, or ends at once without one. *)
LEMMA LoadBegins ==
  ASSUME Drv!IInv, Drv!DataInv, NEW num, F!LoadFile(num), ~(found < 0)
  PROVE  /\ (Drv!IInv /\ Drv!DataInv)'
         /\ ino' = vol.inodes[num] \/ ino' = Drv!NoInode
<1>1. Drv!LoadFile(num)
  BY SameLoadFile
<1>2. found \notin {-1, -3, -4}
  OBVIOUS
<1>3. Drv!IInv'
  BY <1>1, <1>2, DriverAssumed, Drv!LoadFilePreserves
<1>4. Drv!DataInv'
  BY <1>1, DriverAssumed, Drv!LoadFileData
<1>5. PICK r \in Drv!InodeReads(num) : ino' = r.inode
  BY <1>1 DEF Drv!LoadFile
<1>6. vol \in Volumes
  BY DEF Drv!IInv, Drv!VolumeSound
<1>7. /\ r.outcome = "ok" => r.inode = vol.inodes[num]
      /\ r.outcome # "ok" => r.inode = Drv!NoInode
  BY <1>6, DriverAssumed, Drv!InodeReadFacts
<1> QED
  BY <1>3, <1>4, <1>5, <1>7

(* An entry that is loaded was found. *)
LEMMA ChosenFound ==
  ASSUME FaultInv, PathInv, Chosen, bpc' = "load"
  PROVE  ~(found < 0)
<1>1. mpc = "done" /\ bpc = "menu" /\ AnEntry
  <2>1. "load" # "reboot" /\ "load" # "shutdown"
    OBVIOUS
  <2> QED
    BY <2>1, OutcomeCases
<1>2. result # -1
  BY <1>1, IndexAndRow DEF AnEntry, PathInv, MenuInv
<1> QED
  BY <1>1, <1>2 DEF FaultInv, EmptyMenu

(* The steps after the choice and those of the user leave the list and the *)
(* answer alone.                                                             *)
LEMMA AnswerKept ==
  ASSUME [Next]_vars, ~(Enumerate \/ Menu \/ RunKernel \/ Restart)
  PROVE  UNCHANGED <<vol, entries, result>>
<1>1. UNCHANGED result
  BY KeptSteps DEF MenuKept
<1>2. UNCHANGED <<vol, entries>>
  BY DEF Next, Step, Probe, ProbeFailed, Chosen, Load, LoadFailed, Publish, GetMapSize,
         AllocatePages, GetMap, ExitBootServices, Jump, MapChanges, Tick, Press, UseModes, vars,
         owfsVars, F!Probe, F!LoadFile, F!LoadBlock, F!LoadEnd
<1> QED
  BY <1>1, <1>2

LEMMA FreshInits == ASSUME LoaderForgotten, vol \in Volumes PROVE F!Init'
BY DEF LoaderForgotten, F!Init

LEMMA FileInvInductive ==
  ASSUME FileInv, FaultInv, PathInv, [Next]_vars
  PROVE  FileInv'
<1> USE DEF FileInv
<1>1. CASE Probe \/ Enumerate
  <2>1. bpc \in Driving /\ bpc' \in Driving /\ bpc' # "load" /\ UNCHANGED cfg
    BY <1>1 DEF Probe, Enumerate, Driving
  <2>2. F!Probe \/ F!Enumerate \/ F!EnumerateBlock \/ F!EnumerateEnd
    BY <1>1 DEF Probe, Enumerate
  <2>3. (Drv!IInv /\ Drv!DataInv)'
    BY <2>1, <2>2, DriverWorks DEF DriverInv
  <2>4. bpc' \notin Handing
    BY <2>1 DEF Driving, Handing
  <2> QED
    BY <2>1, <2>3, <2>4 DEF DriverInv, WalkInv, CfgTyped, KernelInv
<1>2. CASE ProbeFailed \/ Menu
  <2>1. /\ bpc \in Driving /\ bpc' \in Driving /\ bpc' # "load" /\ UNCHANGED cfg
        /\ UNCHANGED owfsVars
    BY <1>2 DEF ProbeFailed, Menu, Driving
  <2>2. (Drv!IInv /\ Drv!DataInv)'
    BY <2>1, DriverRests DEF DriverInv
  <2>3. bpc' \notin Handing
    BY <2>1 DEF Driving, Handing
  <2> QED
    BY <2>1, <2>2, <2>3 DEF DriverInv, WalkInv, CfgTyped, KernelInv
<1>3. CASE Chosen
  <2>1. bpc = "menu" /\ bpc' \in {"load", "reboot", "shutdown"} /\ UNCHANGED cfg
    BY <1>3, OutcomeCases DEF Chosen
  <2>2. Drv!IInv /\ Drv!DataInv
    BY <2>1 DEF DriverInv, Driving
  <2>3. bpc' \notin Handing
    BY <2>1 DEF Handing
  <2>4. CASE bpc' = "load"
    <3>1. F!LoadFile(Chose) /\ ~(found < 0)
      BY <1>3, <2>4, ChosenFound DEF Chosen, Chose
    <3>2. (Drv!IInv /\ Drv!DataInv)' /\ (ino' = Wanted \/ ino' = Drv!NoInode)
      BY <2>2, <3>1, LoadBegins DEF Wanted
    <3>3. Wanted' = Wanted
      BY <1>3, <2>4, AnswerKept, WantedKept
         DEF Chosen, Enumerate, Menu, RunKernel, Restart, Final
    <3>4. Drv!NoInode' = Drv!NoInode
      BY DEF Drv!NoInode
    <3> QED
      BY <2>1, <2>3, <3>2, <3>3, <3>4 DEF DriverInv, WalkInv, CfgTyped, KernelInv
  <2>5. CASE bpc' # "load"
    <3>1. UNCHANGED owfsVars
      BY <1>3, <2>5 DEF Chosen
    <3>2. (Drv!IInv /\ Drv!DataInv)'
      BY <2>2, <3>1, DriverRests
    <3> QED
      BY <2>1, <2>3, <2>5, <3>2 DEF DriverInv, WalkInv, CfgTyped, KernelInv
  <2> QED
    BY <2>4, <2>5
<1>4. CASE Load
  <2>1. bpc = "load" /\ bpc' = "load" /\ UNCHANGED <<cfg, ino>> /\ (F!LoadBlock \/ F!LoadEnd)
    BY <1>4 DEF Load, F!LoadBlock, F!LoadEnd
  <2>2. (Drv!IInv /\ Drv!DataInv)'
    BY <2>1, DriverWorks DEF DriverInv, Driving
  <2>3. Wanted' = Wanted
    BY <1>4, AnswerKept, WantedKept DEF Load, Enumerate, Menu, RunKernel, Restart, Final
  <2>4. Drv!NoInode' = Drv!NoInode
    BY DEF Drv!NoInode
  <2>5. bpc' \notin Handing
    BY <2>1 DEF Handing
  <2> QED
    BY <2>1, <2>2, <2>3, <2>4, <2>5 DEF DriverInv, WalkInv, CfgTyped, KernelInv
<1>5. CASE LoadFailed
  <2>1. bpc' = "failed" /\ UNCHANGED cfg
    BY <1>5 DEF LoadFailed
  <2> QED
    BY <2>1 DEF DriverInv, WalkInv, CfgTyped, KernelInv, Driving, Handing
<1>6. CASE Publish
  <2>1. /\ bpc = "load" /\ dpc = "loaded" /\ rc = ComKernelLoadOk /\ bpc' = "size"
        /\ cfg' = Published /\ UNCHANGED <<size, image>>
    BY <1>6 DEF Publish
  <2>2. Drv!IInv /\ Drv!DataInv
    BY <2>1 DEF DriverInv, Driving
  <2>3. /\ size \in 0 .. KERNEL_MAX /\ "FILE" \in ino.entry_type
        /\ F!WellFormedFile(ino) => image = F!Content(ino) /\ size = Len(F!Content(ino))
    BY <2>1, <2>2, LoadedFile
  <2>4. ino = Wanted
    BY <2>1, <2>3 DEF WalkInv, Drv!NoInode
  <2>5. WantedOk => image = WantedAll /\ size = Len(WantedAll)
    BY <2>3, <2>4 DEF WantedOk, WantedAll
  <2>6. WantedOk' = WantedOk /\ WantedAll' = WantedAll
    BY <1>6, AnswerKept, WantedKept DEF Publish, Enumerate, Menu, RunKernel, Restart, Final
  <2>7. Published' = Published
    BY <2>1 DEF Published
  <2>8. cfg' \in [magic : {"none", "MBL2"}, boot_drive : {0}, kernel_size : 0 .. KERNEL_MAX]
    BY <2>1, <2>3 DEF Published
  <2>9. bpc' \notin Driving
    BY <2>1 DEF Driving
  <2> QED
    BY <2>1, <2>5, <2>6, <2>7, <2>8, <2>9 DEF DriverInv, WalkInv, CfgTyped, KernelInv
<1>7. CASE GetMapSize \/ AllocatePages \/ GetMap \/ ExitBootServices \/ Jump \/ MapChanges
  <2>1. bpc \in Handing /\ bpc' \in Handing /\ UNCHANGED <<cfg, size>>
    BY <1>7 DEF GetMapSize, AllocatePages, GetMap, ExitBootServices, Jump, MapChanges, Handing,
                owfsVars
  <2>2. WantedOk' = WantedOk /\ WantedAll' = WantedAll
    BY <1>7, AnswerKept, WantedKept
       DEF GetMapSize, AllocatePages, GetMap, ExitBootServices, Jump, MapChanges, Enumerate, Menu,
           RunKernel, Restart
  <2>3. Published' = Published
    BY <2>1 DEF Published
  <2>4. bpc' \notin Driving /\ bpc' # "load"
    BY <2>1 DEF Driving, Handing
  <2>5. \/ UNCHANGED image /\ bpc \in {"size", "allocate", "map"}
        \/ UNCHANGED <<image, pages>> /\ bpc' \notin {"size", "allocate", "map"}
        \/ UNCHANGED <<image, pages, bpc>>
        \/ bpc' \in {"exit", "jump"} /\ pages' = "kernel"
    BY <1>7 DEF GetMapSize, AllocatePages, GetMap, ExitBootServices, Jump, MapChanges, handVars,
                owfsVars
  <2> QED
    BY <2>1, <2>2, <2>3, <2>4, <2>5 DEF DriverInv, WalkInv, CfgTyped, KernelInv
<1>8. CASE RunKernel \/ Restart
  <2>1. /\ LoaderForgotten /\ bpc' \in {"running", "probe"}
        /\ cfg' = cfg \/ cfg' = NoConfig
    BY <1>8 DEF RunKernel, Restart
  <2>2. (Drv!IInv /\ Drv!DataInv)'
    BY <2>1, FreshInits, FreshDriver DEF PathInv, ListInv
  <2>3. 0 \in 0 .. KERNEL_MAX
    BY BootAssumption DEF BootAssumption, F!OwfsAssumption
  <2>4. NoConfig \in [magic : {"none", "MBL2"}, boot_drive : {0}, kernel_size : 0 .. KERNEL_MAX]
    BY <2>3 DEF NoConfig
  <2>5. CfgTyped'
    BY <2>1, <2>4 DEF CfgTyped
  <2>6. bpc' \notin Handing /\ bpc' # "load"
    BY <2>1 DEF Handing
  <2> QED
    BY <2>2, <2>5, <2>6 DEF DriverInv, WalkInv, KernelInv
<1>9. CASE UseModes \/ Tick \/ Press \/ UNCHANGED vars
  <2>1. UNCHANGED <<owfsVars, bpc, cfg, pages>>
    BY <1>9 DEF UseModes, Tick, Press, vars, handVars
  <2>2. Wanted' = Wanted /\ WantedOk' = WantedOk /\ WantedAll' = WantedAll
    <3>1. ~(Enumerate \/ Menu \/ RunKernel \/ Restart) \/ UNCHANGED <<vol, entries, result>>
      BY <1>9 DEF UseModes, Tick, Press, M!Tick, M!Press, M!loopVars, vars, menuVars, owfsVars
    <3> QED
      BY <3>1, AnswerKept, WantedKept
  <2>3. DriverInv'
    BY <2>1, DriverRests DEF DriverInv
  <2>4. Published' = Published /\ Drv!NoInode' = Drv!NoInode /\ UNCHANGED <<ino, image, size>>
    BY <2>1 DEF Published, Drv!NoInode, owfsVars
  <2> QED
    BY <2>1, <2>2, <2>3, <2>4 DEF WalkInv, CfgTyped, KernelInv
<1> QED
  BY <1>1, <1>2, <1>3, <1>4, <1>5, <1>6, <1>7, <1>8, <1>9 DEF Next, Step

LEMMA InitFileInv == Init => FileInv
<1> SUFFICES ASSUME Init PROVE FileInv
  OBVIOUS
<1>1. bpc = "probe" /\ cfg = NoConfig
  BY DEF Init
<1>2. Drv!IInv /\ Drv!DataInv
  BY SameInit, DriverAssumed, Drv!InitIInv, Drv!InitDataInv DEF Init
<1>3. 0 \in 0 .. KERNEL_MAX
  BY BootAssumption DEF BootAssumption, F!OwfsAssumption
<1>4. CfgTyped
  BY <1>1, <1>3 DEF CfgTyped, NoConfig
<1> QED
  BY <1>1, <1>2, <1>4 DEF FileInv, DriverInv, WalkInv, KernelInv, Handing

(* The kernel that is entered is the file that was chosen, on any volume   *)
(* and whatever the disk, the user and the firmware do                      *)
(* (main.c:105-126, 157-161).                                                *)
THEOREM BootsTheChosenFile == Spec => []KernelIsChosenFile
<1>1. Init => FaultInv /\ PathInv /\ FileInv
  BY InitFaultInv, InitPathInv, InitFileInv
<1>2. FileInv => KernelIsChosenFile
  BY DEF FileInv, KernelInv, Handing, Published, WantedOk, WantedAll, Wanted, KernelIsChosenFile
<1> QED
  BY <1>1, <1>2, FaultInvInductive, PathInvInductive, FileInvInductive, PTL DEF Spec

(* kmain's own state and the firmware's have their types; the rest of them *)
(* than HandTypes and CfgTyped says.                                         *)
Places   == Final \cup {"probe", "probe_failed", "enumerate", "menu", "load", "size",
                        "allocate", "map", "exit", "jump"}
RestTyped == /\ bpc \in Places
             /\ services \in BOOLEAN /\ late \in BOOLEAN
             /\ pages \in {"none", "apart", "kernel"}
             /\ map_key \in Nat /\ gExitBootServices \in ExitPointers \cup {"unread"}
             /\ mapEvents \in 0 .. MaxMapEvents

LEMMA InitRestTyped == Init => RestTyped
<1> SUFFICES ASSUME Init PROVE RestTyped
  OBVIOUS
<1>1. 0 \in 0 .. MaxMapEvents /\ 0 \in Nat
  BY BootAssumption DEF BootAssumption
<1>2. /\ bpc = "probe" /\ services = TRUE /\ late = FALSE /\ pages = "none" /\ map_key = 0
      /\ gExitBootServices = "unread" /\ mapEvents = 0
  BY DEF Init
<1> QED
  BY <1>1, <1>2 DEF RestTyped, Places

LEMMA RestTypedInductive == ASSUME RestTyped, HandInv, PathInv, [Next]_vars PROVE RestTyped'
<1> USE DEF Next, Step, Probe, ProbeFailed, Enumerate, Menu, Load, LoadFailed, Publish,
            GetMapSize, AllocatePages, GetMap, ExitBootServices, Jump, MapChanges, Tick, Press,
            UseModes, RunKernel, Restart, LoaderForgotten, vars, handVars, RestTyped
<1>1. CASE Chosen
  <2>1. bpc' \in Places /\ UNCHANGED handVars
    BY <1>1, OutcomeCases DEF Chosen, Places, Final
  <2> QED
    BY <2>1
<1>2. CASE ~Chosen
  <2>1. bpc' \in Places
    BY <1>2 DEF Places, Final
  <2>2. map_key' \in Nat
    BY <1>2 DEF HandInv, HandTypes
  <2>3. mapEvents' \in 0 .. MaxMapEvents
    <3>1. MaxMapEvents \in Nat
      BY BootAssumption DEF BootAssumption
    <3>2. \/ mapEvents' = mapEvents \/ mapEvents' = 0
          \/ mapEvents < MaxMapEvents /\ mapEvents' = mapEvents + 1
      BY <1>2
    <3> QED
      BY <3>1, <3>2
  <2>4. services' \in BOOLEAN /\ late' \in BOOLEAN
    BY <1>2
  <2>5. /\ pages' \in {"none", "apart", "kernel"}
        /\ gExitBootServices' \in ExitPointers \cup {"unread"}
    BY <1>2
  <2> QED
    BY <2>1, <2>2, <2>3, <2>4, <2>5
<1> QED
  BY <1>1, <1>2

(* kmain's place, the configuration block, the memory map and what kmain    *)
(* knows of it have their types; the block never gives more bytes than the  *)
(* room for a kernel (main.c:105-165).                                       *)
THEOREM BootTyped == Spec => []TypeOK
<1>1. Init => HandInv /\ FaultInv /\ PathInv /\ FileInv /\ RestTyped
  BY InitHandInv, InitFaultInv, InitPathInv, InitFileInv, InitRestTyped
<1>2. HandInv /\ FileInv /\ RestTyped => TypeOK
  BY DEF HandInv, HandTypes, FileInv, CfgTyped, RestTyped, Places, TypeOK
<1> QED
  BY <1>1, <1>2, HandInvInductive, FaultInvInductive, PathInvInductive, FileInvInductive,
     RestTypedInductive, PTL DEF Spec
=============================================================================
