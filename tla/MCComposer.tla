----------------------------- MODULE MCComposer -----------------------------
(* A line is typed from a slash, a blank, the letter of a command and the  *)
(* one request ids begin with; the rest comes from completions.  The first *)
(* line of a session, or the second.                                       *)
EXTENDS Composer

TypedKeys == {Slash, Blank, "a", "r"}
EarlierLines == {<<>>, <<<<"a">>>>}
=============================================================================
