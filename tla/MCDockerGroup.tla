--------------------------- MODULE MCDockerGroup ---------------------------
(***************************************************************************)
(* Instances of DockerGroup for TLC.                                       *)
(***************************************************************************)
EXTENDS DockerGroup
=============================================================================
