------------------------------ MODULE Bancode ------------------------------
(***************************************************************************)
(* The BANcode registry: the four code blocks, the codes the boot path     *)
(* raises (include/bancode/mbl_bancode.h), their classification            *)
(* (include/mbl.h) and the trap dispatch geometry                          *)
(* (include/bancode/bancode_all.h).  Everything here is a pure function of *)
(* a 32-bit code, so the module has no variables.                          *)
(***************************************************************************)
EXTENDS Integers

(* Registry blocks, first and last code of each. *)
BancodeBlock  == \h0011A000 .. \h0011A7FF
WarncodeBlock == \h0011A800 .. \h0011ABFF
ComcodeBlock  == \h0011AC00 .. \h0011ADFF
SoftcodeBlock == \h0011AE00 .. \h0011AEFF

KernelTrapMin    == \h7FFFFFF0
KernelTrapMax    == \h7FFFFFFE
InvalidCodepoint == \h7FFFFFFF
TrapSlotCount    == 15
BancodesPerTrap  == 128

(* Codes raised or returned on the boot path. *)
ComVolumeProbeOk  == \h0011AC20
ComCatalogEnumOk  == \h0011AC21
ComKernelLoadOk   == \h0011AC22
ComBootHandoffOk  == \h0011AC23

WarnVolumeDirty     == \h0011AA20
WarnVolumeLocked    == \h0011AA21
WarnStateError      == \h0011AA22
WarnVersionMismatch == \h0011AA23

SoftNoVolume        == \h0011AEA0
SoftIsUsfs          == \h0011AEA1
SoftNotAFile        == \h0011AEA2
SoftKernelTooSmall  == \h0011AEA3
SoftKernelTooLarge  == \h0011AEA4
SoftEncryptedVolume == \h0011AEA5
SoftBadBlockMap     == \h0011AEA6

BanSbMagic         == \h0011A2E0
BanSbChecksum      == \h0011A2E1
BanInodeChecksum   == \h0011A2E2
BanCatalogChecksum == \h0011A2E3
BanIoError         == \h0011A2E4
BanLoadFailed      == \h0011A2E5

ComCodes  == {ComVolumeProbeOk, ComCatalogEnumOk, ComKernelLoadOk, ComBootHandoffOk}
WarnCodes == {WarnVolumeDirty, WarnVolumeLocked, WarnStateError, WarnVersionMismatch}
SoftCodes == {SoftNoVolume, SoftIsUsfs, SoftNotAFile, SoftKernelTooSmall,
              SoftKernelTooLarge, SoftEncryptedVolume, SoftBadBlockMap}
BanCodes  == {BanSbMagic, BanSbChecksum, BanInodeChecksum, BanCatalogChecksum,
              BanIoError, BanLoadFailed}
MblCodes  == ComCodes \cup WarnCodes \cup SoftCodes \cup BanCodes

-----------------------------------------------------------------------------
(* mbl_code_is_*: the class of a code is the block it lies in. *)
IsSuccess(code) == code \in ComcodeBlock
IsFatal(code)   == code \in BancodeBlock
IsSoft(code)    == code \in SoftcodeBlock
IsWarning(code) == code \in WarncodeBlock

IsKernelTrap(cp) == cp \in KernelTrapMin .. KernelTrapMax

(* bancode_to_trap: only a fatal code whose 128-code cluster has a slot is *)
(* dispatched; the 16th cluster of the block is unmapped.                   *)
TrapSlotOf(code) == (code - \h0011A000) \div BancodesPerTrap
HasTrap(code)    == IsFatal(code) /\ TrapSlotOf(code) < TrapSlotCount
ToTrap(code)     == IF HasTrap(code) THEN KernelTrapMin + TrapSlotOf(code)
                                     ELSE InvalidCodepoint

(* bancode_trap_to_bancode_range: the cluster a trap handler manages. *)
TrapRange(trap) ==
  LET first == \h0011A000 + (trap - KernelTrapMin) * BancodesPerTrap
  IN  first .. first + (BancodesPerTrap - 1)
=============================================================================
