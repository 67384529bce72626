--------------------------- MODULE MCLauncherStack ---------------------------
(* A small instance of LauncherStack for TLC.                               *)
EXTENDS LauncherStack

CliAndWeb == {"cli", "web"}

=============================================================================
