-------------------------------- MODULE Menu --------------------------------
(***************************************************************************)
(* menu_run of src/menu.c with the keyboard and clock of src/kbd.c: the    *)
(* list window that follows the selection, the countdown, and the screen a *)
(* user sees while the firmware's clock ticks and keys arrive.             *)
(*                                                                         *)
(* One pass of the loop is two actions, Poll (redraw, read a key, act on   *)
(* it) and Clock (read the second, count down), because a key or a tick of *)
(* the clock can come between them.  With no entries the loop is kbd_wait. *)
(***************************************************************************)
EXTENDS Integers, Kbd

CONSTANTS Counts,        \* the entry counts menu_run is called with
          VISIBLE,       \* rows of the list window
          Timeout,       \* timeout_secs
          StartSeconds,  \* seconds the clock may show when the menu starts
          ClockMayFail,  \* whether GetTime may return an error
          KeyStrokes,    \* the strokes a user may make
          MaxLag         \* ticks that may pass between two looks at the clock

ASSUME MenuAssumption ==
  /\ Counts \subseteq Int
  /\ VISIBLE \in Nat \ {0}
  /\ Timeout \in Int
  /\ StartSeconds \subseteq 0 .. 59
  /\ ClockMayFail \in BOOLEAN
  /\ KeyStrokes \subseteq Strokes
  /\ MaxLag \in 1 .. 59

VARIABLES
  mpc,          \* "idle", "poll", "clock", "wait", "spin" or "done"
  count,        \* the count argument
  sel, top,     \* selected entry, first entry of the window
  need_redraw,
  last_sec,     \* the second last looked at (t0 while kbd_wait spins)
  remaining,
  result,       \* the value returned
  screen,       \* what is drawn: highlighted entry, window, status line
  second,       \* firmware: the second the clock shows
  pending,      \* firmware: the stroke waiting to be read, or NoStroke
  elapsed,      \* history: ticks since the countdown began
  lag,          \* history: ticks since the loop last looked at the clock
  timedOut      \* history: the countdown chose the entry

loopVars == <<mpc, count, sel, top, need_redraw, last_sec, remaining, result,
              screen, timedOut>>
envVars  == <<second, pending, elapsed, lag>>
vars     == <<loopVars, envVars>>

(* Return values, as the header of menu.c lists them. *)
Reboot    == -1
Shutdown  == -2
NotReturned == -3

BlankScreen == [sel |-> 0, top |-> 0, booting |-> 0, left |-> 0]

Init ==
  /\ mpc = "idle" /\ count = 0 /\ sel = 0 /\ top = 0 /\ need_redraw = FALSE
  /\ last_sec = 0 /\ remaining = 0 /\ result = NotReturned
  /\ screen = BlankScreen /\ timedOut = FALSE
  /\ second \in StartSeconds /\ pending = NoStroke
  /\ elapsed = 0 /\ lag = 0

-----------------------------------------------------------------------------
(* Plausible bugs, each in place of a definition of the next section. *)
Scrolled_NoFollowDown(t, s, n) ==
  LET t1 == IF s < t THEN s ELSE t
      t3 == IF t1 > n - VISIBLE THEN n - VISIBLE ELSE t1
  IN  IF t3 < 0 THEN 0 ELSE t3

Scrolled_NoLowerClamp(t, s, n) ==
  LET t1 == IF s < t THEN s ELSE t
      t2 == IF s >= t1 + VISIBLE THEN s - VISIBLE + 1 ELSE t1
  IN  IF t2 > n - VISIBLE THEN n - VISIBLE ELSE t2

Moved_NoWrapCheck(key, s, n) ==
  CASE key = "UP"   -> IF s - 1 < 0 THEN n - 1 ELSE s - 1
    [] key = "DOWN" -> IF s + 1 > n THEN 0 ELSE s + 1
    [] key = "HOME" -> 0
    [] key = "END"  -> n - 1
    [] key = "PGUP" -> IF s < VISIBLE THEN 0 ELSE s - VISIBLE
    [] key = "PGDN" -> IF s + VISIBLE >= n THEN n - 1 ELSE s + VISIBLE

Delta_NoMinuteWrap(now, last) == now - last

Drawn_StaleList(s, t, left) == [screen EXCEPT !.booting = s, !.left = left]

LeavesWait_EscOnly(key) == key = "ESC"

AfterMove_NextPass == "poll"
-----------------------------------------------------------------------------
(* menu_handle_key, the selection: s is the entry selected among n. *)
Moved(key, s, n) ==
  CASE key = "UP"   -> IF s - 1 < 0 THEN n - 1 ELSE s - 1
    [] key = "DOWN" -> IF s + 1 >= n THEN 0 ELSE s + 1
    [] key = "HOME" -> 0
    [] key = "END"  -> n - 1
    [] key = "PGUP" -> IF s - VISIBLE < 0 THEN 0 ELSE s - VISIBLE
    [] key = "PGDN" -> IF s + VISIBLE >= n THEN n - 1 ELSE s + VISIBLE

(* menu_handle_key, the window: t is its first row before the move to s. *)
Scrolled(t, s, n) ==
  LET t1 == IF s < t THEN s ELSE t
      t2 == IF s >= t1 + VISIBLE THEN s - VISIBLE + 1 ELSE t1
      t3 == IF t2 > n - VISIBLE THEN n - VISIBLE ELSE t2
  IN  IF t3 < 0 THEN 0 ELSE t3

(* Seconds from one look at the clock to the next, over a minute's end. *)
Delta(now, last) == IF now >= last THEN now - last ELSE now + 60 - last

(* draw_list and draw_status: list window, highlight and status line. *)
Drawn(s, t, left) == [sel |-> s, top |-> t, booting |-> s, left |-> left]

(* Keys that leave the screen shown when nothing is bootable. *)
LeavesWait(key) == key \in {"ESC", "REBOOT"}

(* Where a pass goes on after a key moved the selection. *)
AfterMove == "clock"

Return(value) == mpc' = "done" /\ result' = value

-----------------------------------------------------------------------------
(* menu_run is called. *)
Run(n) ==
  /\ mpc = "idle"
  /\ count' = n
  /\ sel' = 0 /\ top' = 0 /\ need_redraw' = TRUE
  /\ last_sec' \in SecondsRead(second, ClockMayFail)
  /\ remaining' = Timeout
  /\ elapsed' = 0 /\ lag' = 0
  /\ mpc' = IF n <= 0 THEN "wait" ELSE "poll"
  /\ UNCHANGED <<result, screen, timedOut, second, pending>>

(* The first half of a pass: redraw if asked to, read a key, act on it. *)
Poll ==
  /\ mpc = "poll"
  /\ screen' = IF need_redraw THEN Drawn(sel, top, remaining) ELSE screen
  /\ pending' = NoStroke
  /\ LET key == KeyOf(pending) IN
     \/ /\ key = "NONE"
        /\ need_redraw' = FALSE
        /\ mpc' = "clock"
        /\ UNCHANGED <<sel, top, result>>
     \/ /\ key \in NavKeys
        /\ sel' = Moved(key, sel, count)
        /\ top' = Scrolled(top, Moved(key, sel, count), count)
        /\ need_redraw' = TRUE
        /\ mpc' = AfterMove
        /\ UNCHANGED result
     \/ /\ key = "ENTER"
        /\ Return(sel)
        /\ need_redraw' = FALSE
        /\ UNCHANGED <<sel, top>>
     \/ /\ key \in {"ESC", "REBOOT"}
        /\ Return(Reboot)
        /\ need_redraw' = FALSE
        /\ UNCHANGED <<sel, top>>
     \/ /\ key = "SHUTDOWN"
        /\ Return(Shutdown)
        /\ need_redraw' = FALSE
        /\ UNCHANGED <<sel, top>>
  /\ UNCHANGED <<count, last_sec, remaining, timedOut, second, elapsed, lag>>

(* The second half looks at the clock, unless there is no timeout. *)
PassClock ==
  /\ mpc = "clock"
  /\ lag' = 0
  /\ UNCHANGED <<count, sel, top, need_redraw, second, pending, elapsed>>

(* Nothing to count... *)
SameSecond ==
  /\ PassClock
  /\ Timeout <= 0 \/ last_sec \in SecondsRead(second, ClockMayFail)
  /\ mpc' = "poll"
  /\ UNCHANGED <<last_sec, remaining, screen, result, timedOut>>

(* ...or a new second: the countdown goes on, with a new status line... *)
CountDown(now) ==
  /\ PassClock
  /\ Timeout > 0 /\ now # last_sec
  /\ last_sec' = now
  /\ remaining' = remaining - Delta(now, last_sec)
  /\ remaining' > 0
  /\ screen' = [screen EXCEPT !.booting = sel, !.left = remaining']
  /\ mpc' = "poll"
  /\ UNCHANGED <<result, timedOut>>

(* ...or ends, on the first entry. *)
TimeOut(now) ==
  /\ PassClock
  /\ Timeout > 0 /\ now # last_sec
  /\ last_sec' = now
  /\ remaining' = remaining - Delta(now, last_sec)
  /\ remaining' <= 0
  /\ Return(0)
  /\ timedOut' = TRUE
  /\ UNCHANGED screen

Clock == \/ SameSecond
         \/ \E now \in SecondsRead(second, ClockMayFail) : CountDown(now) \/ TimeOut(now)

(* No entries: kbd_wait reads a key; on none it notes the second... *)
WaitPoll ==
  /\ mpc = "wait"
  /\ pending' = NoStroke
  /\ LET key == KeyOf(pending) IN
     \/ /\ LeavesWait(key)
        /\ Return(Reboot)
        /\ UNCHANGED last_sec
     \/ /\ key # "NONE" /\ ~LeavesWait(key)
        /\ mpc' = "wait"
        /\ UNCHANGED <<last_sec, result>>
     \/ /\ key = "NONE"
        /\ last_sec' \in SecondsRead(second, ClockMayFail)
        /\ mpc' = "spin"
        /\ UNCHANGED result
  /\ lag' = 0
  /\ UNCHANGED <<count, sel, top, need_redraw, remaining, screen, timedOut,
                 second, elapsed>>

(* ...and spins until the clock shows another one. *)
WaitSpin ==
  /\ mpc = "spin"
  /\ \E now \in SecondsRead(second, ClockMayFail) :
       mpc' = IF now = last_sec THEN "spin" ELSE "wait"
  /\ lag' = 0
  /\ UNCHANGED <<count, sel, top, need_redraw, last_sec, remaining, result,
                 screen, timedOut, second, pending, elapsed>>

-----------------------------------------------------------------------------
Running == mpc \in {"poll", "clock", "wait", "spin"}

(* The firmware's clock.  elapsed counts while the countdown runs. *)
Tick ==
  /\ Running
  /\ lag < MaxLag
  /\ second' = (second + 1) % 60
  /\ lag' = lag + 1
  /\ elapsed' = IF count > 0 /\ Timeout > 0 THEN elapsed + 1 ELSE elapsed
  /\ UNCHANGED <<loopVars, pending>>

(* The user makes a stroke; the firmware keeps it until it is read. *)
Press(stroke) ==
  /\ Running
  /\ pending = NoStroke
  /\ pending' = stroke
  /\ UNCHANGED <<loopVars, second, elapsed, lag>>

Step == Poll \/ Clock \/ WaitPoll \/ WaitSpin

Next == \/ \E n \in Counts : Run(n)
        \/ Step
        \/ Tick
        \/ \E stroke \in KeyStrokes : Press(stroke)

(* The loop keeps running (nothing else runs on the machine) and time does *)
(* not stop.                                                                *)
Fairness == WF_vars(Step) /\ WF_vars(Tick) /\ WF_vars(\E n \in Counts : Run(n))

Spec == Init /\ [][Next]_vars /\ Fairness

-----------------------------------------------------------------------------
(* Types of the locals of menu_run and of its surroundings. *)
TypeOK ==
  /\ mpc \in {"idle", "poll", "clock", "wait", "spin", "done"}
  /\ count \in Int
  /\ sel \in Nat /\ top \in Nat
  /\ need_redraw \in BOOLEAN /\ timedOut \in BOOLEAN
  /\ last_sec \in 0 .. 59 /\ second \in 0 .. 59
  /\ remaining \in Int /\ result \in Int
  /\ screen \in [sel : Nat, top : Nat, booting : Nat, left : Int]
  /\ pending \in Strokes \cup {NoStroke}
  /\ elapsed \in Nat
  /\ lag \in 0 .. MaxLag

(* Whatever keys are pressed, in whatever order, the selection stays among *)
(* the entries and inside the window, and the window inside the list: it   *)
(* shows no row past the last entry while there are rows before it to show *)
(* (menu_handle_key, the clamps of menu.c:172-186).                        *)
SelectionVisible ==
  count > 0 /\ mpc # "idle" =>
    /\ sel \in 0 .. count - 1
    /\ top <= sel /\ sel < top + VISIBLE
    /\ IF count <= VISIBLE THEN top = 0 ELSE top <= count - VISIBLE

(* What menu_run hands to kmain, which indexes g_entries with it           *)
(* (main.c:105): an entry only when there is one, and nothing but a reboot *)
(* from the screen without entries.                                        *)
ReturnInRange ==
  mpc = "done" => IF count <= 0 THEN result = Reboot
                  ELSE result \in (0 .. count - 1) \cup {Reboot, Shutdown}

(* The entry Enter boots is the one highlighted and named in the status    *)
(* line when the key is read: a move of the selection is on the screen     *)
(* before the next key is (need_redraw, menu.c:211-215 and 229).           *)
EnterBootsHighlighted ==
  [][mpc = "poll" /\ mpc' = "done" /\ result' >= 0
       => /\ screen'.sel = result' /\ screen'.booting = result'
          /\ screen'.top = top]_vars

(* The countdown follows the clock to the second across the end of a       *)
(* minute: what is left is the timeout less the ticks seen so far          *)
(* (menu.c:233-238), if the loop looks at the clock once a minute and      *)
(* GetTime does not fail.                                                  *)
CountdownExact ==
  ~ClockMayFail /\ Timeout > 0 /\ mpc \in {"poll", "clock"}
    => remaining = Timeout - (elapsed - lag)

(* Left alone, or with keys that only move the selection, the menu returns *)
(* (memory.md:14, "countdown timer"): a key never restarts the countdown.  *)
MenuReturns == mpc = "poll" /\ Timeout > 0 ~> mpc = "done"

(* On the screen without entries, Esc or r always reaches the reboot, even *)
(* while kbd_wait spins on the clock (kbd.c:58-73).                        *)
EmptyMenuLeft ==
  mpc \in {"wait", "spin"} /\ KeyOf(pending) \in {"ESC", "REBOOT"}
    ~> mpc = "done"

(* main.c:5: the menu boots "the selected kernel", and the status line     *)
(* announces it ("Booting <name> in <n>s", menu.c:83-98).                  *)
TimeoutBootsAnnounced == timedOut => result = screen.booting
=============================================================================
