-------------------------- MODULE MCLaunchCluster --------------------------
(***************************************************************************)
(* Instances of LaunchCluster for TLC: a daemon and a foreground run in    *)
(* Ray mode, both with mods, started in any order and at any time.         *)
(***************************************************************************)
EXTENDS LaunchCluster

CONSTANTS d, r

MCLaunchers == {d, r}
MCDaemons == {d}
MCRay == {r}
=============================================================================
