----------------------------- MODULE MCDiagRing -----------------------------
(***************************************************************************)
(* The recorder at its real size (8 records), raising a code with a trap,  *)
(* a fatal code of the unmapped last cluster and a soft code.              *)
(***************************************************************************)
EXTENDS DiagRing

MCCodes == {BanIoError, \h0011A7FF, SoftNoVolume}
=============================================================================
