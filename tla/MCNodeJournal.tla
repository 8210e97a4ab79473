--------------------------- MODULE MCNodeJournal ---------------------------
(***************************************************************************)
(* Instances of NodeJournal for TLC: a private key, authorized_keys and    *)
(* two Netplan files; or one file of each of these handlers.               *)
(***************************************************************************)
EXTENDS NodeJournal

MCPhase == <<"prepare", "ssh", "network", "network">>
MCPhase3 == <<"prepare", "ssh", "network">>
=============================================================================
