-------------------------- MODULE DiagRing_proofs --------------------------
(***************************************************************************)
(* Proofs about the diagnostic recorder, for a ring of any size: its       *)
(* types, the consistency of every held record, and that it implements     *)
(* DiagLog.  The index arithmetic is settled once, in SlotBackIs.          *)
(***************************************************************************)
EXTENDS DiagRing, TLAPS

(* Reduction modulo n of a number below 2 * n. *)
LEMMA ModOnce ==
  ASSUME NEW n \in Nat \ {0}, NEW a \in 0 .. 2 * n - 1
  PROVE  a % n = IF a < n THEN a ELSE a - n
  OBVIOUS

(* The slot k places behind head, and the one after it, without modulus. *)
LEMMA SlotBackIs ==
  ASSUME NEW h \in Slots, NEW k \in 1 .. DIAG_MAX
  PROVE  SlotBack(h, k) = IF k <= h THEN h - k ELSE h + DIAG_MAX - k
  <1>1. h + DIAG_MAX - k \in 0 .. 2 * DIAG_MAX - 1
    BY RingAssumption DEF Slots
  <1>2. \A a \in 0 .. 2 * DIAG_MAX - 1 :
          a % DIAG_MAX = IF a < DIAG_MAX THEN a ELSE a - DIAG_MAX
    BY ModOnce, RingAssumption
  <1> QED
    BY <1>1, <1>2, RingAssumption DEF SlotBack, Slots

LEMMA SlotBackInRing ==
  ASSUME NEW h \in Slots, NEW k \in 1 .. DIAG_MAX
  PROVE  SlotBack(h, k) \in Slots
  <1>1. SlotBack(h, k) = IF k <= h THEN h - k ELSE h + DIAG_MAX - k
    BY SlotBackIs
  <1> QED
    BY <1>1, RingAssumption DEF Slots

LEMMA NextHeadIs ==
  ASSUME NEW h \in Slots
  PROVE  NextHead(h) = IF h = DIAG_MAX - 1 THEN 0 ELSE h + 1
  <1>1. h + 1 \in 0 .. 2 * DIAG_MAX - 1
    BY RingAssumption DEF Slots
  <1>2. \A a \in 0 .. 2 * DIAG_MAX - 1 :
          a % DIAG_MAX = IF a < DIAG_MAX THEN a ELSE a - DIAG_MAX
    BY ModOnce, RingAssumption
  <1> QED
    BY <1>1, <1>2, RingAssumption DEF NextHead, Slots

(* Advancing head puts the old head one place behind and every other slot  *)
(* one place further back.                                                  *)
LEMMA SlotBackStep ==
  ASSUME NEW h \in Slots
  PROVE  /\ NextHead(h) \in Slots
         /\ SlotBack(NextHead(h), 1) = h
         /\ \A k \in 2 .. DIAG_MAX : /\ SlotBack(NextHead(h), k) = SlotBack(h, k - 1)
                                     /\ SlotBack(h, k - 1) # h
  <1>1. NextHead(h) \in Slots /\ NextHead(h) = IF h = DIAG_MAX - 1 THEN 0 ELSE h + 1
    BY NextHeadIs, RingAssumption DEF Slots
  <1>2. SlotBack(NextHead(h), 1) = h
    <2>1. SlotBack(NextHead(h), 1) = IF 1 <= NextHead(h) THEN NextHead(h) - 1
                                     ELSE NextHead(h) + DIAG_MAX - 1
      BY <1>1, SlotBackIs, RingAssumption
    <2> QED
      BY <1>1, <2>1, RingAssumption DEF Slots
  <1>3. ASSUME NEW k \in 2 .. DIAG_MAX
        PROVE  SlotBack(NextHead(h), k) = SlotBack(h, k - 1) /\ SlotBack(h, k - 1) # h
    <2>1. SlotBack(NextHead(h), k) = IF k <= NextHead(h) THEN NextHead(h) - k
                                     ELSE NextHead(h) + DIAG_MAX - k
      BY <1>1, SlotBackIs, RingAssumption
    <2>2. SlotBack(h, k - 1) = IF k - 1 <= h THEN h - (k - 1) ELSE h + DIAG_MAX - (k - 1)
      BY SlotBackIs, RingAssumption
    <2> QED
      BY <1>1, <2>1, <2>2, RingAssumption DEF Slots
  <1> QED
    BY <1>1, <1>2, <1>3

(* bancode_to_trap and bancode_trap_to_bancode_range agree: a dispatched   *)
(* code's trap is a kernel trap, and the code is in the range it manages.  *)
THEOREM TrapRoundTrip ==
  ASSUME NEW code \in Nat, HasTrap(code)
  PROVE  /\ IsKernelTrap(ToTrap(code))
         /\ code \in TrapRange(ToTrap(code))
  BY DEF HasTrap, IsKernelTrap, ToTrap, TrapRange, TrapSlotOf, IsFatal, BancodeBlock,
         TrapSlotCount, BancodesPerTrap, KernelTrapMin, KernelTrapMax

-----------------------------------------------------------------------------
IInv == TypeOK /\ RecordsConsistent

(* A record just filled describes its own code. *)
LEMMA FilledSlotIs ==
  ASSUME NEW code \in Codes, NEW old \in Record
  PROVE  LET r == FilledSlot(old, code)
         IN  /\ r \in Record
             /\ r.code = code
             /\ r.trap_cp = ToTrap(code)
             /\ HasTrap(code) => r.slot = r.trap_cp - KernelTrapMin
             /\ ~HasTrap(code) => r.slot = TrapSlotCount
  <1>1. code \in Nat
    BY RingAssumption
  <1>2. HasTrap(code) => /\ ToTrap(code) \in KernelTrapMin .. KernelTrapMax
                         /\ ToTrap(code) - KernelTrapMin \in 0 .. TrapSlotCount
    BY <1>1 DEF HasTrap, ToTrap, TrapSlotOf, IsFatal, BancodeBlock,
         TrapSlotCount, BancodesPerTrap, KernelTrapMin, KernelTrapMax
  <1>3. ~HasTrap(code) => ToTrap(code) = InvalidCodepoint
    BY DEF ToTrap
  <1>4. TrapSlotCount \in 0 .. TrapSlotCount
    BY DEF TrapSlotCount
  <1> QED
    BY <1>2, <1>3, <1>4 DEF FilledSlot, Record

LEMMA InitIInv == Init => IInv
  <1> SUFFICES ASSUME Init PROVE IInv
    OBVIOUS
  <1>1. BlankRecord \in Record
    BY DEF BlankRecord, Record, TrapSlotCount
  <1>2. TypeOK
    BY <1>1, RingAssumption DEF Init, TypeOK, Slots
  <1>3. Held = {}
    BY DEF Init, Held
  <1> QED
    BY <1>2, <1>3 DEF IInv, RecordsConsistent

(* What a raise does to the held slots: the slot just filled becomes held, *)
(* every other held slot was held before and is not written.                *)
LEMMA RaiseStep ==
  ASSUME TypeOK, NEW code \in Codes, Raise(code)
  PROVE  /\ TypeOK'
         /\ Held' \subseteq Held \cup {head}
         /\ ring'[head] = FilledSlot(ring[head], code)
         /\ \A s \in Slots \ {head} : ring'[s] = ring[s]
  <1>1. ring[head] \in Record /\ head \in Slots /\ count \in 0 .. DIAG_MAX
    BY DEF TypeOK
  <1>2. FilledSlot(ring[head], code) \in Record
    BY <1>1, FilledSlotIs
  <1>3. head' \in Slots
    BY <1>1, SlotBackStep DEF Raise
  <1>4. count' \in 0 .. DIAG_MAX /\ count' <= count + 1
    BY <1>1, RingAssumption DEF Raise, Counted
  <1>5. ring' = [ring EXCEPT ![head] = FilledSlot(ring[head], code)]
    BY DEF Raise
  <1>6. TypeOK'
    BY <1>1, <1>2, <1>3, <1>4, <1>5 DEF TypeOK
  <1>7. ring'[head] = FilledSlot(ring[head], code)
        /\ \A s \in Slots \ {head} : ring'[s] = ring[s]
    BY <1>1, <1>5 DEF TypeOK
  <1>8. ASSUME NEW k \in 1 .. count'
        PROVE  SlotBack(NextHead(head), k) \in Held \cup {head}
    <2>1. CASE k = 1
      BY <1>1, <2>1, SlotBackStep
    <2>2. CASE k # 1
      <3>1. k \in 2 .. DIAG_MAX /\ k - 1 \in 1 .. count
        BY <2>2, <1>1, <1>4, <1>8, RingAssumption
      <3> QED
        BY <1>1, <3>1, SlotBackStep DEF Held
    <2> QED
      BY <2>1, <2>2
  <1>9. Held' \subseteq Held \cup {head}
    BY <1>8 DEF Held, Raise
  <1> QED
    BY <1>6, <1>7, <1>9

(* The fields RecordsConsistent relates, for one record. *)
Consistent(r) ==
  /\ r.trap_cp = ToTrap(r.code)
  /\ IF HasTrap(r.code)
     THEN /\ IsKernelTrap(r.trap_cp)
          /\ r.slot = r.trap_cp - KernelTrapMin
          /\ r.code \in TrapRange(r.trap_cp)
     ELSE r.slot = TrapSlotCount

LEMMA FilledSlotConsistent ==
  ASSUME NEW code \in Codes, NEW old \in Record
  PROVE  Consistent(FilledSlot(old, code))
  <1> code \in Nat
    BY RingAssumption
  <1> QED
    BY FilledSlotIs, TrapRoundTrip DEF Consistent

LEMMA NextIInv == IInv /\ [Next]_vars => IInv'
  <1> SUFFICES ASSUME IInv, [Next]_vars PROVE IInv'
    OBVIOUS
  <1>1. TypeOK /\ \A s \in Held : Consistent(ring[s])
    BY DEF IInv, RecordsConsistent, Consistent
  <1>2. ASSUME NEW code \in Codes, Raise(code)
        PROVE  IInv'
    <2>1. TypeOK' /\ Held' \subseteq Held \cup {head}
      BY <1>1, <1>2, RaiseStep
    <2>2. Held' \subseteq Slots
      <3>1. ASSUME NEW k \in 1 .. count' PROVE SlotBack(head', k) \in Slots
        <4>1. head' \in Slots /\ k \in 1 .. DIAG_MAX
          BY <2>1, <3>1, RingAssumption DEF TypeOK
        <4> QED
          BY <4>1, SlotBackInRing
      <3> QED
        BY <3>1 DEF Held
    <2>3. ring[head] \in Record
      BY <1>1 DEF TypeOK
    <2>4. \A s \in Held' : Consistent(ring'[s])
      BY <1>1, <1>2, <2>1, <2>2, <2>3, RaiseStep, FilledSlotConsistent
    <2> QED
      BY <2>1, <2>4 DEF IInv, RecordsConsistent, Consistent
  <1>3. CASE UNCHANGED vars
    BY <1>3 DEF IInv, TypeOK, RecordsConsistent, Held, vars
  <1> QED
    BY <1>2, <1>3 DEF Next

(* The recorder's objects keep their types: head stays inside the ring and *)
(* the count never exceeds its size, for a ring of any size.               *)
THEOREM RingTypes == Spec => []TypeOK
  <1>1. IInv => TypeOK
    BY DEF IInv
  <1> QED
    BY InitIInv, NextIInv, <1>1, PTL DEF Spec

(* Every record that can be read back describes its own code, however      *)
(* often its slot was reused.                                              *)
THEOREM RingRecordsConsistent == Spec => []RecordsConsistent
  <1>1. IInv => RecordsConsistent
    BY DEF IInv
  <1> QED
    BY InitIInv, NextIInv, <1>1, PTL DEF Spec

-----------------------------------------------------------------------------
(* The codes held in a ring r with n records behind slot h form a sequence *)
(* of length n.                                                             *)
CodesHeld(r, h, n) == [i \in 1 .. n |-> r[SlotBack(h, n - i + 1)].code]

LEMMA CodesHeldIsSeq ==
  ASSUME NEW r \in [Slots -> Record], NEW h \in Slots, NEW n \in 0 .. DIAG_MAX
  PROVE  /\ CodesHeld(r, h, n) \in Seq(Codes \cup {0})
         /\ Len(CodesHeld(r, h, n)) = n
         /\ DOMAIN CodesHeld(r, h, n) = 1 .. n
  <1>1. n \in Nat /\ n <= DIAG_MAX
    BY RingAssumption
  <1>2. ASSUME NEW i \in 1 .. n
        PROVE  r[SlotBack(h, n - i + 1)].code \in Codes \cup {0}
    <2>1. n - i + 1 \in 1 .. DIAG_MAX
      BY <1>1, RingAssumption
    <2>2. SlotBack(h, n - i + 1) \in Slots
      BY <2>1, SlotBackInRing
    <2> QED
      BY <2>2 DEF Record
  <1>3. CodesHeld(r, h, n) \in [1 .. n -> Codes \cup {0}]
    BY <1>2 DEF CodesHeld
  <1> QED
    BY <1>1, <1>3

(* mbl_diag_last reads the newest code the log remembers. *)
LEMMA LastIsNewest ==
  ASSUME TypeOK, HasLast
  PROVE  DiagLast.code = Log!Newest(Recent)
  <1>1. count \in 1 .. DIAG_MAX
    BY RingAssumption DEF TypeOK, HasLast
  <1>2. Len(Recent) = count
    BY CodesHeldIsSeq DEF Recent, CodesHeld, TypeOK
  <1>3. Recent[count] = ring[SlotBack(head, 1)].code
    BY <1>1, RingAssumption DEF Recent
  <1>4. SlotBack(head, 1) = LastIndex
    BY DEF SlotBack, LastIndex
  <1> QED
    BY <1>2, <1>3, <1>4 DEF Log!Newest, DiagLast

(* One raise appends to the log and drops the oldest code once it is full. *)
LEMMA RaiseImplements ==
  ASSUME TypeOK, NEW code \in Codes, Raise(code)
  PROVE  Recent' = Log!Keep(Append(Recent, code))
  <1>1. TypeOK'
    BY RaiseStep
  <1>2. /\ count \in 0 .. DIAG_MAX /\ head \in Slots /\ ring[head] \in Record
        /\ head' = NextHead(head)
        /\ count' = IF count < DIAG_MAX THEN count + 1 ELSE count
    BY DEF TypeOK, Raise, Counted
  <1> DEFINE app == Append(Recent, code)
  <1>3. /\ app \in Seq(Codes \cup {0})
        /\ Len(app) = count + 1
        /\ app[count + 1] = code
        /\ \A i \in 1 .. count : app[i] = Recent[i]
    <2>1. /\ Recent \in Seq(Codes \cup {0})
          /\ Len(Recent) = count
      BY CodesHeldIsSeq DEF Recent, CodesHeld, TypeOK
    <2> QED
      BY <1>2, <2>1
  (* The new record is the last element... *)
  <1>4. ring'[SlotBack(head', 1)].code = code
    BY <1>2, SlotBackStep, RaiseStep, FilledSlotIs
  (* ...and the others are read from where they were. *)
  <1>5. ASSUME NEW k \in 2 .. count'
        PROVE  ring'[SlotBack(head', k)] = ring[SlotBack(head, k - 1)]
    <2>1. k \in 2 .. DIAG_MAX /\ k - 1 \in 1 .. DIAG_MAX
      BY <1>2, <1>5, RingAssumption
    <2>2. SlotBack(head', k) = SlotBack(head, k - 1) /\ SlotBack(head, k - 1) # head
      BY <1>2, <2>1, SlotBackStep
    <2>3. SlotBack(head, k - 1) \in Slots
      BY <1>2, <2>1, SlotBackInRing
    <2> QED
      BY <2>2, <2>3, RaiseStep
  <1>6. /\ Recent' \in Seq(Codes \cup {0})
        /\ Len(Recent') = count'
        /\ DOMAIN Recent' = 1 .. count'
    BY <1>1, CodesHeldIsSeq DEF Recent, CodesHeld, TypeOK
  <1>7. Recent'[count'] = code
    <2>1. count' \in 1 .. count' /\ count' - count' + 1 = 1
      BY <1>2, RingAssumption
    <2> QED
      BY <1>4, <2>1 DEF Recent
  <1>8. ASSUME NEW i \in 1 .. count' - 1
        PROVE  Recent'[i] = ring[SlotBack(head, count' - i)].code
    <2> DEFINE k == count' - i + 1
    <2>1. i \in 1 .. count' /\ k \in 2 .. count' /\ k - 1 = count' - i
      BY <1>2, RingAssumption
    <2>2. Recent'[i] = ring'[SlotBack(head', k)].code
      BY <2>1 DEF Recent
    <2>3. ring'[SlotBack(head', k)] = ring[SlotBack(head, k - 1)]
      BY <1>5, <2>1
    <2> QED
      BY <2>1, <2>2, <2>3
  <1>9. \A i \in 1 .. count : Recent[i] = ring[SlotBack(head, count - i + 1)].code
    BY DEF Recent
  <1>10. CASE count < DIAG_MAX
    <2>1. count' = count + 1
      BY <1>2, <1>10
    <2>2. \A i \in 1 .. count : Recent'[i] = app[i]
      BY <1>2, <1>3, <1>8, <1>9, <2>1
    <2>3. Recent' = app
      BY <1>2, <1>3, <1>6, <1>7, <2>1, <2>2
    <2>4. Log!Keep(app) = app
      BY <1>2, <1>3, <1>10, RingAssumption DEF Log!Keep
    <2> QED
      BY <2>3, <2>4
  <1>11. CASE count = DIAG_MAX
    <2>1. count' = count /\ Len(app) = DIAG_MAX + 1
      BY <1>2, <1>3, <1>11
    <2>2. Log!Keep(app) = SubSeq(app, 2, DIAG_MAX + 1)
      BY <2>1, RingAssumption DEF Log!Keep
    <2>3. /\ Len(SubSeq(app, 2, DIAG_MAX + 1)) = DIAG_MAX
          /\ SubSeq(app, 2, DIAG_MAX + 1) \in Seq(Codes \cup {0})
          /\ \A i \in 1 .. DIAG_MAX : SubSeq(app, 2, DIAG_MAX + 1)[i] = app[i + 1]
      BY <1>3, <2>1, RingAssumption
    <2>4. \A i \in 1 .. DIAG_MAX - 1 : Recent'[i] = app[i + 1]
      <3> SUFFICES ASSUME NEW i \in 1 .. DIAG_MAX - 1 PROVE Recent'[i] = app[i + 1]
        OBVIOUS
      <3>1. /\ i \in 1 .. count' - 1 /\ i + 1 \in 1 .. count
            /\ count - (i + 1) + 1 = count' - i
        BY <1>11, <2>1, RingAssumption
      <3> QED
        BY <1>3, <1>8, <1>9, <3>1
    <2>5. \A i \in 1 .. DIAG_MAX : Recent'[i] = app[i + 1]
      BY <1>3, <1>7, <1>11, <2>1, <2>4, RingAssumption
    <2> QED
      BY <1>6, <1>11, <2>1, <2>2, <2>3, <2>5, RingAssumption
  <1> QED
    BY <1>2, <1>10, <1>11, RingAssumption

(* The ring buffer of bancode_boot.c implements the log the header         *)
(* promises, for a ring of any size: its held codes are always the last    *)
(* DIAG_MAX raised, oldest first.                                          *)
THEOREM RingImplementsLog == Spec => ImplementsLog
  <1>1. Init => Log!Init
    <2> SUFFICES ASSUME Init PROVE Recent = <<>>
      BY DEF Log!Init
    <2> QED
      BY DEF Init, Recent
  <1>2. TypeOK /\ [Next]_vars => [Log!Next]_Recent
    <2> SUFFICES ASSUME TypeOK, [Next]_vars PROVE [Log!Next]_Recent
      OBVIOUS
    <2>1. ASSUME NEW code \in Codes, Raise(code) PROVE Log!Next
      BY <2>1, RaiseImplements DEF Log!Next, Log!Raise
    <2>2. CASE UNCHANGED vars
      BY <2>2 DEF vars, Recent
    <2> QED
      BY <2>1, <2>2 DEF Next
  <1> QED
    BY <1>1, <1>2, RingTypes, PTL DEF Spec, ImplementsLog, Log!Spec
=============================================================================
