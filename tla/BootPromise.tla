---------------------------- MODULE BootPromise ----------------------------
(***************************************************************************)
(* What the bootloader promises whoever sits at the machine (main.c:4-6):  *)
(* it offers a list of files, is asked for one of them, for a reset or for *)
(* power off, and does what it was asked and nothing else.  Only a file    *)
(* can fail to come up, and then the machine halts instead of booting      *)
(* something else.  Boot is the code's flow and implements this module.    *)
(***************************************************************************)
EXTENDS Naturals, Sequences

VARIABLES offered,   \* the inodes offered
          asked,     \* <<>>, <<"reset">>, <<"off">> or <<"boot", inode>>
          machine    \* "loader", "kernel", "running", "halted", "reset" or "off"

vars == <<offered, asked, machine>>

Init == offered = {} /\ asked = <<>> /\ machine = "loader"

Deciding == machine = "loader" /\ asked = <<>>

(* A list is offered once, before anything is asked. *)
Offer ==
  /\ Deciding /\ offered = {}
  /\ offered' # {}
  /\ UNCHANGED <<asked, machine>>

Ask ==
  /\ Deciding
  /\ \/ asked' = <<"reset">>
     \/ asked' = <<"off">> /\ offered # {}
     \/ \E inode \in offered : asked' = <<"boot", inode>>
  /\ UNCHANGED <<offered, machine>>

(* With nothing to offer, a reset needs no more than asking for it. *)
Abandon ==
  /\ Deciding /\ offered = {}
  /\ asked' = <<"reset">> /\ machine' = "reset"
  /\ UNCHANGED offered

Obey ==
  /\ machine = "loader"
  /\ \/ asked \in {<<"reset">>, <<"off">>} /\ machine' = asked[1]
     \/ /\ \E inode \in offered : asked = <<"boot", inode>>
        /\ machine' \in {"kernel", "halted"}
  /\ UNCHANGED <<offered, asked>>

(* A kernel once entered has the machine; a restart begins again.          *)
Leave ==
  /\ machine = "kernel" /\ machine' = "running"
  /\ offered' = {} /\ asked' = <<>>
Restart ==
  /\ machine # "loader" /\ machine' = "loader"
  /\ offered' = {} /\ asked' = <<>>

Next == Offer \/ Ask \/ Abandon \/ Obey \/ Leave \/ Restart

Spec == Init /\ [][Next]_vars
=============================================================================
