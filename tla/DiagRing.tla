------------------------------ MODULE DiagRing ------------------------------
(***************************************************************************)
(* The diagnostic recorder of src/bancode/bancode_boot.c: a ring of        *)
(* DIAG_MAX records that mbl_diag_raise overwrites in place, never         *)
(* clearing a record before it is reused.  Indices run from 0, as in C.    *)
(***************************************************************************)
EXTENDS Bancode, Sequences

CONSTANTS Codes,      \* the codes that are raised
          DIAG_MAX    \* MBL_DIAG_MAX

ASSUME RingAssumption == /\ DIAG_MAX \in Nat \ {0}
                         /\ Codes \subseteq Nat

VARIABLES ring,       \* g_diag_ring
          head,       \* g_diag_head: the slot the next record goes to
          count       \* g_diag_count: saturates at DIAG_MAX

vars == <<ring, head, count>>

Slots == 0 .. DIAG_MAX - 1

(* mbl_diag_t; slot is TrapSlotCount and trap_cp InvalidCodepoint when the *)
(* code has no trap.                                                        *)
Record == [fired : BOOLEAN, slot : 0 .. TrapSlotCount,
           trap_cp : (KernelTrapMin .. KernelTrapMax) \cup {InvalidCodepoint, 0},
           code : Codes \cup {0}]

(* The ring is a static object: zero before the first record is written. *)
BlankRecord == [fired |-> FALSE, slot |-> 0, trap_cp |-> 0, code |-> 0]

Init == /\ ring = [i \in Slots |-> BlankRecord]
        /\ head = 0
        /\ count = 0

-----------------------------------------------------------------------------
(* Plausible bugs, each in place of the definition after it. *)
FilledSlot_KeepsOldTrap(old, code) ==
  [old EXCEPT !.code = code, !.trap_cp = ToTrap(code),
              !.slot = IF HasTrap(code) THEN ToTrap(code) - KernelTrapMin ELSE old.slot]

NextHead_NoWrap(h) == IF h = DIAG_MAX - 1 THEN h ELSE h + 1

Counted_Unbounded(n) == n + 1
-----------------------------------------------------------------------------
(* mbl_diag_raise writes every field but `fired`. *)
FilledSlot(old, code) ==
  [old EXCEPT !.code = code, !.trap_cp = ToTrap(code),
              !.slot = IF HasTrap(code) THEN ToTrap(code) - KernelTrapMin
                                        ELSE TrapSlotCount]

NextHead(h) == (h + 1) % DIAG_MAX

Counted(n) == IF n < DIAG_MAX THEN n + 1 ELSE n

Raise(code) ==
  /\ ring' = [ring EXCEPT ![head] = FilledSlot(ring[head], code)]
  /\ head' = NextHead(head)
  /\ count' = Counted(count)

Next == \E code \in Codes : Raise(code)

Spec == Init /\ [][Next]_vars

-----------------------------------------------------------------------------
(* mbl_diag_last: the slot before head; there is none while count = 0. *)
LastIndex == (head + DIAG_MAX - 1) % DIAG_MAX
HasLast   == count > 0
DiagLast  == ring[LastIndex]

(* The i-th oldest record that is still held lies count - i + 1 slots      *)
(* behind head.                                                             *)
SlotBack(h, k) == (h + DIAG_MAX - k) % DIAG_MAX
Held           == {SlotBack(head, k) : k \in 1 .. count}
Recent         == [i \in 1 .. count |-> ring[SlotBack(head, count - i + 1)].code]

-----------------------------------------------------------------------------
(* Types of the recorder's three static objects. *)
TypeOK == /\ ring \in [Slots -> Record]
          /\ head \in Slots
          /\ count \in 0 .. DIAG_MAX

(* Slot and trap codepoint of every held record belong to that record's    *)
(* own code, not to the one it overwrote: the slot is the trap's index if  *)
(* the code is dispatched, and the count of slots if it is not.            *)
RecordsConsistent ==
  \A s \in Held :
    /\ ring[s].trap_cp = ToTrap(ring[s].code)
    /\ IF HasTrap(ring[s].code)
       THEN /\ IsKernelTrap(ring[s].trap_cp)
            /\ ring[s].slot = ring[s].trap_cp - KernelTrapMin
            /\ ring[s].code \in TrapRange(ring[s].trap_cp)
       ELSE ring[s].slot = TrapSlotCount

(* The ring implements the recorder's promise: the codes it holds, read    *)
(* from the oldest slot to the newest, are the last DIAG_MAX raised.       *)
Log == INSTANCE DiagLog WITH log <- Recent
ImplementsLog == Log!Spec
=============================================================================
