---------------------------- MODULE MCPromptTurns ----------------------------
(* Small instances of PromptTurns for TLC: fresh sessions, and sessions     *)
(* that are restored with one prompt behind them.                           *)
EXTENDS PromptTurns

RestoredCounts == {1}

=============================================================================
