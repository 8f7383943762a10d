---------------------------- MODULE Menu_proofs ----------------------------
(***************************************************************************)
(* Proofs about the menu, for lists, windows, timeouts and clock delays of *)
(* any size: its types, that the selection is always inside the window,    *)
(* what it returns, and that the countdown follows the clock.              *)
(***************************************************************************)
EXTENDS Menu, TLAPS

(* What SelectionVisible says, as a relation of entry, window and count. *)
Shows(t, s, n) ==
  /\ s \in 0 .. n - 1
  /\ t <= s /\ s < t + VISIBLE
  /\ IF n <= VISIBLE THEN t = 0 ELSE t <= n - VISIBLE

(* No key moves the selection off the list. *)
LEMMA MovedInRange ==
  ASSUME NEW n \in Nat \ {0}, NEW s \in 0 .. n - 1, NEW key \in NavKeys
  PROVE  Moved(key, s, n) \in 0 .. n - 1
  <1>1. CASE key = "UP"
    BY <1>1 DEF Moved
  <1>2. CASE key = "DOWN"
    BY <1>2 DEF Moved
  <1>3. CASE key = "HOME"
    BY <1>3 DEF Moved
  <1>4. CASE key = "END"
    BY <1>4 DEF Moved
  <1>5. CASE key = "PGUP"
    BY <1>5, MenuAssumption DEF Moved
  <1>6. CASE key = "PGDN"
    BY <1>6, MenuAssumption DEF Moved
  <1> QED
    BY <1>1, <1>2, <1>3, <1>4, <1>5, <1>6 DEF NavKeys

(* The clamps bring any window to the selection. *)
LEMMA ScrolledShows ==
  ASSUME NEW n \in Nat \ {0}, NEW s \in 0 .. n - 1, NEW t \in Nat
  PROVE  Scrolled(t, s, n) \in Nat /\ Shows(Scrolled(t, s, n), s, n)
  BY MenuAssumption DEF Scrolled, Shows

-----------------------------------------------------------------------------
(* Which half of the loop runs is decided once, by the count. *)
LoopForCount ==
  /\ mpc \in {"poll", "clock"} => count > 0
  /\ mpc \in {"wait", "spin"} => count <= 0

(* A clock that does not fail is `lag` ticks past the second last seen. *)
ClockSeen ==
  ~ClockMayFail /\ Timeout > 0 /\ mpc \in {"poll", "clock"}
    => second = IF last_sec + lag < 60 THEN last_sec + lag ELSE last_sec + lag - 60

IInv == TypeOK /\ SelectionVisible /\ ReturnInRange /\ LoopForCount
          /\ CountdownExact /\ ClockSeen

LEMMA SecondsReadTyped ==
  ASSUME second \in 0 .. 59
  PROVE  SecondsRead(second, ClockMayFail) \subseteq 0 .. 59
  BY DEF SecondsRead

LEMMA InitIInv == Init => IInv
  <1> SUFFICES ASSUME Init PROVE IInv
    OBVIOUS
  <1>1. TypeOK
    <2>1. second \in 0 .. 59 /\ lag \in 0 .. MaxLag
      BY MenuAssumption DEF Init
    <2>2. pending \in Strokes \cup {NoStroke}
      BY DEF Init
    <2>3. screen \in [sel : Nat, top : Nat, booting : Nat, left : Int]
      BY DEF Init, BlankScreen
    <2>4. remaining \in Int /\ result \in Int /\ count \in Int
      BY DEF Init, NotReturned
    <2>5. need_redraw \in BOOLEAN /\ timedOut \in BOOLEAN
      BY DEF Init
    <2>6. /\ mpc \in {"idle", "poll", "clock", "wait", "spin", "done"}
          /\ sel \in Nat /\ top \in Nat /\ elapsed \in Nat /\ last_sec \in 0 .. 59
      BY DEF Init
    <2> QED
      BY <2>1, <2>2, <2>3, <2>4, <2>5, <2>6 DEF TypeOK
  <1>2. SelectionVisible /\ ReturnInRange /\ LoopForCount /\ CountdownExact /\ ClockSeen
    BY DEF Init, SelectionVisible, ReturnInRange, LoopForCount, CountdownExact, ClockSeen
  <1> QED
    BY <1>1, <1>2 DEF IInv

LEMMA RunIInv ==
  ASSUME IInv, NEW n \in Counts, Run(n)
  PROVE  IInv'
  <1>1. TypeOK'
    BY MenuAssumption, SecondsReadTyped DEF IInv, TypeOK, Run
  <1>2. SelectionVisible' /\ ReturnInRange' /\ LoopForCount'
    BY MenuAssumption
      DEF IInv, TypeOK, Run, SelectionVisible, ReturnInRange, LoopForCount
  <1>3. CountdownExact' /\ ClockSeen'
    <2>1. ~ClockMayFail => last_sec' = second
      BY DEF Run, SecondsRead
    <2>2. second \in 0 .. 59 /\ Timeout \in Int
      BY MenuAssumption DEF IInv, TypeOK
    <2>3. second' = second /\ lag' = 0 /\ elapsed' = 0 /\ remaining' = Timeout
      BY DEF Run
    <2> QED
      BY <2>1, <2>2, <2>3 DEF CountdownExact, ClockSeen
  <1> QED
    BY <1>1, <1>2, <1>3 DEF IInv

LEMMA PollIInv ==
  ASSUME IInv, Poll
  PROVE  IInv'
  <1> DEFINE key == KeyOf(pending)
  <1>1. count \in Nat \ {0} /\ sel \in 0 .. count - 1 /\ top \in Nat
    BY DEF IInv, TypeOK, Poll, LoopForCount, SelectionVisible
  <1>2. /\ screen' \in [sel : Nat, top : Nat, booting : Nat, left : Int]
        /\ pending' \in Strokes \cup {NoStroke}
    BY DEF IInv, TypeOK, Poll, Drawn
  <1>3. CASE key \in NavKeys
    <2>1. /\ sel' = Moved(key, sel, count)
          /\ top' = Scrolled(top, sel', count)
          /\ mpc' = "clock" /\ need_redraw' = TRUE /\ result' = result
      BY <1>3 DEF Poll, AfterMove, NavKeys
    <2>2. sel' \in 0 .. count - 1
      BY <1>1, <1>3, <2>1, MovedInRange
    <2>3. top' \in Nat /\ Shows(top', sel', count)
      BY <1>1, <2>1, <2>2, ScrolledShows
    <2>4. TypeOK'
      BY <1>2, <2>1, <2>2, <2>3 DEF IInv, TypeOK, Poll
    <2>5. SelectionVisible'
      BY <2>2, <2>3 DEF SelectionVisible, Shows, Poll
    <2>6. ReturnInRange' /\ LoopForCount' /\ CountdownExact' /\ ClockSeen'
      BY <1>1, <2>1 DEF IInv, Poll, ReturnInRange, LoopForCount, CountdownExact, ClockSeen
    <2> QED
      BY <2>4, <2>5, <2>6 DEF IInv
  <1>4. CASE key \notin NavKeys
    <2>1. /\ sel' = sel /\ top' = top /\ need_redraw' = FALSE
          /\ \/ mpc' = "clock" /\ result' = result
             \/ mpc' = "done" /\ result' \in {sel, Reboot, Shutdown}
      BY <1>4 DEF Poll, Return, NavKeys
    <2>2. TypeOK'
      <3>1. result' \in Int /\ mpc' \in {"clock", "done"}
        BY <1>1, <2>1 DEF IInv, TypeOK, Reboot, Shutdown
      <3> QED
        BY <1>2, <2>1, <3>1 DEF IInv, TypeOK, Poll
    <2>3. SelectionVisible' /\ ReturnInRange' /\ LoopForCount' /\ CountdownExact' /\ ClockSeen'
      BY <1>1, <2>1 DEF IInv, Poll, SelectionVisible, ReturnInRange, LoopForCount,
           CountdownExact, ClockSeen
    <2> QED
      BY <2>2, <2>3 DEF IInv
  <1> QED
    BY <1>3, <1>4

LEMMA ClockTypes ==
  ASSUME IInv, PassClock
  PROVE  /\ count > 0 /\ count \in Int /\ elapsed \in Nat /\ Timeout \in Int
         /\ remaining \in Int /\ last_sec \in 0 .. 59 /\ second \in 0 .. 59
         /\ lag \in 0 .. MaxLag /\ MaxLag \in 1 .. 59
         /\ \A now \in 0 .. 59 : Delta(now, last_sec) \in Int
  BY MenuAssumption DEF IInv, TypeOK, PassClock, LoopForCount, Delta

(* A clock that does not fail has moved on by lag since the last look. *)
LEMMA DeltaIsLag ==
  ASSUME IInv, PassClock, ~ClockMayFail, Timeout > 0
  PROVE  /\ remaining = Timeout - (elapsed - lag)
         /\ SecondsRead(second, ClockMayFail) = {second}
         /\ Delta(second, last_sec) = lag
         /\ second = last_sec => lag = 0
  <1>1. /\ remaining = Timeout - (elapsed - lag)
        /\ second = IF last_sec + lag < 60 THEN last_sec + lag ELSE last_sec + lag - 60
    BY DEF IInv, PassClock, CountdownExact, ClockSeen
  <1>2. SecondsRead(second, ClockMayFail) = {second}
    BY DEF SecondsRead
  <1>3. Delta(second, last_sec) = lag /\ (second = last_sec => lag = 0)
    BY <1>1, ClockTypes DEF Delta
  <1> QED
    BY <1>1, <1>2, <1>3

LEMMA ClockIInv ==
  ASSUME IInv, Clock
  PROVE  IInv'
  <1>1. CASE SameSecond
    <2>1. PassClock
      BY <1>1 DEF SameSecond
    <2>2. TypeOK'
      BY <1>1, MenuAssumption DEF IInv, TypeOK, SameSecond, PassClock
    <2>3. SelectionVisible' /\ LoopForCount' /\ ReturnInRange'
      BY <1>1, <2>1, ClockTypes
        DEF IInv, SameSecond, PassClock, SelectionVisible, LoopForCount, ReturnInRange
    <2>4. CountdownExact' /\ ClockSeen'
      <3> SUFFICES ASSUME ~ClockMayFail, Timeout > 0
                   PROVE  CountdownExact' /\ ClockSeen'
        BY <1>1 DEF SameSecond, PassClock, CountdownExact, ClockSeen
      <3>1. last_sec = second /\ lag = 0 /\ remaining = Timeout - (elapsed - lag)
        BY <1>1, <2>1, DeltaIsLag, ClockTypes DEF SameSecond
      <3> QED
        BY <1>1, <2>1, <3>1, ClockTypes DEF SameSecond, PassClock, CountdownExact, ClockSeen
    <2> QED
      BY <2>2, <2>3, <2>4 DEF IInv
  <1>2. ASSUME NEW now \in SecondsRead(second, ClockMayFail), CountDown(now)
        PROVE  IInv'
    <2>1. PassClock /\ now \in 0 .. 59
      BY <1>2, ClockTypes, SecondsReadTyped DEF CountDown
    <2>2. TypeOK'
      <3>1. remaining' \in Int
        BY <1>2, <2>1, ClockTypes DEF CountDown
      <3>2. screen' \in [sel : Nat, top : Nat, booting : Nat, left : Int]
        BY <1>2, <3>1 DEF IInv, TypeOK, CountDown
      <3> QED
        BY <1>2, <2>1, <3>1, <3>2, MenuAssumption DEF IInv, TypeOK, CountDown, PassClock
    <2>3. SelectionVisible' /\ LoopForCount' /\ ReturnInRange'
      BY <1>2, <2>1, ClockTypes
        DEF IInv, CountDown, PassClock, SelectionVisible, LoopForCount, ReturnInRange
    <2>4. CountdownExact' /\ ClockSeen'
      <3> SUFFICES ASSUME ~ClockMayFail
                   PROVE  CountdownExact' /\ ClockSeen'
        BY DEF CountdownExact, ClockSeen
      <3>1. now = second /\ Delta(now, last_sec) = lag /\ remaining = Timeout - (elapsed - lag)
        BY <1>2, <2>1, DeltaIsLag DEF CountDown
      <3> QED
        BY <1>2, <2>1, <3>1, ClockTypes DEF CountDown, PassClock, CountdownExact, ClockSeen
    <2> QED
      BY <2>2, <2>3, <2>4 DEF IInv
  <1>3. ASSUME NEW now \in SecondsRead(second, ClockMayFail), TimeOut(now)
        PROVE  IInv'
    <2>1. PassClock /\ now \in 0 .. 59
      BY <1>3, ClockTypes, SecondsReadTyped DEF TimeOut
    <2>2. TypeOK'
      <3>1. remaining' \in Int
        BY <1>3, <2>1, ClockTypes DEF TimeOut
      <3> QED
        BY <1>3, <2>1, <3>1, MenuAssumption DEF IInv, TypeOK, TimeOut, PassClock, Return
    <2>3. SelectionVisible' /\ LoopForCount' /\ ReturnInRange' /\ CountdownExact' /\ ClockSeen'
      BY <1>3, <2>1, ClockTypes
        DEF IInv, TimeOut, PassClock, Return, SelectionVisible, LoopForCount, ReturnInRange,
            CountdownExact, ClockSeen
    <2> QED
      BY <2>2, <2>3 DEF IInv
  <1> QED
    BY <1>1, <1>2, <1>3 DEF Clock

LEMMA WaitIInv ==
  ASSUME IInv, WaitPoll \/ WaitSpin
  PROVE  IInv'
  <1>1. count <= 0 /\ count \in Int
    BY DEF IInv, TypeOK, WaitPoll, WaitSpin, LoopForCount
  <1>2. TypeOK'
    BY SecondsReadTyped, MenuAssumption DEF IInv, TypeOK, WaitPoll, WaitSpin, Return, Reboot
  <1>3. SelectionVisible' /\ ReturnInRange' /\ LoopForCount' /\ CountdownExact' /\ ClockSeen'
    BY <1>1 DEF WaitPoll, WaitSpin, Return, SelectionVisible, ReturnInRange, LoopForCount,
         CountdownExact, ClockSeen
  <1> QED
    BY <1>2, <1>3 DEF IInv

LEMMA TickIInv ==
  ASSUME IInv, Tick
  PROVE  IInv'
  <1>1. second \in 0 .. 59 /\ lag \in 0 .. MaxLag /\ lag < MaxLag /\ MaxLag \in 1 .. 59
        /\ last_sec \in 0 .. 59 /\ elapsed \in Nat
    BY MenuAssumption DEF IInv, TypeOK, Tick
  <1>2. second' = IF second = 59 THEN 0 ELSE second + 1
    BY <1>1 DEF Tick
  <1>3. TypeOK'
    BY <1>1, <1>2 DEF IInv, TypeOK, Tick, loopVars
  <1>4. SelectionVisible' /\ ReturnInRange' /\ LoopForCount'
    BY DEF IInv, Tick, loopVars, SelectionVisible, ReturnInRange, LoopForCount
  <1>5. CountdownExact' /\ ClockSeen'
    BY <1>1, <1>2, MenuAssumption
      DEF IInv, TypeOK, Tick, loopVars, CountdownExact, ClockSeen, LoopForCount
  <1> QED
    BY <1>3, <1>4, <1>5 DEF IInv

LEMMA NextIInv == IInv /\ [Next]_vars => IInv'
  <1> SUFFICES ASSUME IInv, [Next]_vars PROVE IInv'
    OBVIOUS
  <1>1. ASSUME NEW stroke \in KeyStrokes, Press(stroke) PROVE IInv'
    <2>1. TypeOK'
      BY <1>1, MenuAssumption DEF IInv, TypeOK, Press, loopVars
    <2> QED
      BY <1>1, <2>1 DEF IInv, Press, loopVars, SelectionVisible, ReturnInRange,
           LoopForCount, CountdownExact, ClockSeen
  <1>2. CASE UNCHANGED vars
    BY <1>2 DEF IInv, vars, loopVars, envVars, TypeOK, SelectionVisible, ReturnInRange,
         LoopForCount, CountdownExact, ClockSeen
  <1> QED
    BY <1>1, <1>2, RunIInv, PollIInv, ClockIInv, WaitIInv, TickIInv DEF Next, Step

LEMMA Invariance == Spec => []IInv
  BY InitIInv, NextIInv, PTL DEF Spec

(* The menu's variables keep their types; no index is ever negative. *)
THEOREM MenuTypes == Spec => []TypeOK
  <1>1. IInv => TypeOK
    BY DEF IInv
  <1> QED
    BY Invariance, <1>1, PTL

(* After any sequence of keys, on a list of any length and a window of any *)
(* height, the selected entry is one of the list and is on the screen.     *)
THEOREM MenuSelectionVisible == Spec => []SelectionVisible
  <1>1. IInv => SelectionVisible
    BY DEF IInv
  <1> QED
    BY Invariance, <1>1, PTL

(* kmain can index the entry list with any non-negative value returned. *)
THEOREM MenuReturnInRange == Spec => []ReturnInRange
  <1>1. IInv => ReturnInRange
    BY DEF IInv
  <1> QED
    BY Invariance, <1>1, PTL

(* The countdown loses no second at the end of a minute, for any timeout   *)
(* and any delay below a minute.                                           *)
THEOREM MenuCountdownExact == Spec => []CountdownExact
  <1>1. IInv => CountdownExact
    BY DEF IInv
  <1> QED
    BY Invariance, <1>1, PTL

-----------------------------------------------------------------------------
(* Unless a redraw is due, the screen shows the selection and its window.   *)
ScreenCurrent ==
  mpc \in {"poll", "clock"} /\ ~need_redraw
    => screen.sel = sel /\ screen.booting = sel /\ screen.top = top

LEMMA ScreenStep == TypeOK /\ ScreenCurrent /\ [Next]_vars => ScreenCurrent'
  <1> SUFFICES ASSUME TypeOK, ScreenCurrent, [Next]_vars PROVE ScreenCurrent'
    OBVIOUS
  <1>1. ASSUME NEW n \in Counts, Run(n) PROVE ScreenCurrent'
    BY <1>1 DEF Run, ScreenCurrent
  <1>2. CASE Poll
    <2>1. need_redraw => screen' = Drawn(sel, top, remaining)
      BY <1>2 DEF Poll
    <2>2. ~need_redraw => screen' = screen
      BY <1>2 DEF Poll
    <2>3. need_redraw' \/ mpc' = "done" \/ (sel' = sel /\ top' = top)
      BY <1>2 DEF Poll, Return
    <2>4. mpc = "poll"
      BY <1>2 DEF Poll
    <2> QED
      BY <2>1, <2>2, <2>3, <2>4 DEF ScreenCurrent, Drawn
  <1>3. CASE Clock
    <2>1. CASE SameSecond
      BY <2>1 DEF SameSecond, PassClock, ScreenCurrent
    <2>2. ASSUME NEW now, CountDown(now) PROVE ScreenCurrent'
      <3>1. /\ screen' = [screen EXCEPT !.booting = sel, !.left = remaining']
            /\ sel' = sel /\ top' = top /\ need_redraw' = need_redraw /\ mpc = "clock"
        BY <2>2 DEF CountDown, PassClock
      <3>2. screen'.sel = screen.sel /\ screen'.top = screen.top /\ screen'.booting = sel
        BY <3>1 DEF TypeOK
      <3> QED
        BY <3>1, <3>2 DEF ScreenCurrent
    <2>3. ASSUME NEW now, TimeOut(now) PROVE ScreenCurrent'
      BY <2>3 DEF TimeOut, Return, ScreenCurrent
    <2> QED
      BY <1>3, <2>1, <2>2, <2>3 DEF Clock
  <1>4. CASE WaitPoll \/ WaitSpin
    BY <1>4 DEF WaitPoll, WaitSpin, Return, ScreenCurrent
  <1>5. CASE Tick
    BY <1>5 DEF Tick, loopVars, ScreenCurrent
  <1>6. ASSUME NEW stroke \in KeyStrokes, Press(stroke) PROVE ScreenCurrent'
    BY <1>6 DEF Press, loopVars, ScreenCurrent
  <1>7. CASE UNCHANGED vars
    BY <1>7 DEF vars, loopVars, ScreenCurrent
  <1> QED
    BY <1>1, <1>2, <1>3, <1>4, <1>5, <1>6, <1>7 DEF Next, Step

(* Enter boots what the screen shows, however fast the keys come. *)
THEOREM MenuEnterBootsHighlighted == Spec => EnterBootsHighlighted
  <1> DEFINE Act == mpc = "poll" /\ mpc' = "done" /\ result' >= 0
                      => /\ screen'.sel = result' /\ screen'.booting = result'
                         /\ screen'.top = top
  <1>1. Init => ScreenCurrent
    BY DEF Init, ScreenCurrent
  <1>2. TypeOK /\ ScreenCurrent /\ [Next]_vars => [Act]_vars
    <2> SUFFICES ASSUME TypeOK, ScreenCurrent, [Next]_vars,
                        mpc = "poll", mpc' = "done", result' >= 0
                 PROVE  /\ screen'.sel = result' /\ screen'.booting = result'
                        /\ screen'.top = top
      OBVIOUS
    <2>1. Poll
      BY DEF Next, Step, Run, Clock, SameSecond, CountDown, TimeOut, PassClock, WaitPoll,
           WaitSpin, Tick, Press, loopVars, vars
    <2>2. result' = sel
      BY <2>1 DEF Poll, AfterMove, Return, Reboot, Shutdown
    <2> QED
      BY <2>1, <2>2 DEF Poll, ScreenCurrent, Drawn, TypeOK
  <1> QED
    BY <1>1, <1>2, ScreenStep, MenuTypes, PTL DEF Spec, EnterBootsHighlighted
=============================================================================
