---------------------------- MODULE CommandLine ----------------------------
(***************************************************************************)
(* The launch command of an agent profile.  The settings page splits what  *)
(* the administrator types into arguments (command_line_to_argv in         *)
(* infrastructure/api/workspaces.rs), the backend keeps them trimmed, and  *)
(* the page joins them into a line again for its table (agent_command_-    *)
(* preview) - which it splits anew when the row is saved, also if only the *)
(* name was changed.                                                       *)
(***************************************************************************)
EXTENDS Naturals, Sequences, SequencesExt

CONSTANT MaxTyped   (* bound: the characters typed *)

ASSUME CommandLineAssumption == MaxTyped \in Nat

Blank == " "
Single == "'"
Double == "\""
Backslash == "\\"
Characters == {"a", Blank, Single, Double, Backslash}
Lines == UNION {[1..n -> Characters] : n \in 0..MaxTyped}

-----------------------------------------------------------------------------
(* CommandLineParser                                                       *)

NoQuote == "none"
Parser == [argv |-> <<>>, current |-> <<>>, quote |-> NoQuote,
           escaped |-> FALSE, started |-> FALSE]

PushLiteral(p, ch) ==
  [p EXCEPT !.current = Append(@, ch), !.started = TRUE]

StartEscape(p) == [p EXCEPT !.escaped = TRUE, !.started = TRUE]
StartQuote(p, quote) == [p EXCEPT !.quote = quote, !.started = TRUE]
EndQuote(p) == [p EXCEPT !.quote = NoQuote, !.started = TRUE]

FinishArg(p) ==
  IF p.started
  THEN [p EXCEPT !.argv = Append(@, p.current), !.current = <<>>, !.started = FALSE]
  ELSE p

(* In double quotes a backslash escapes nothing but itself and the quote.  *)
PushEscaped(p, ch) ==
  LET kept == IF p.quote = Double /\ ch \notin {Double, Backslash}
              THEN PushLiteral(p, Backslash) ELSE p
  IN  [PushLiteral(kept, ch) EXCEPT !.escaped = FALSE]

PushChar(p, ch) ==
  CASE p.escaped -> PushEscaped(p, ch)
    [] ~p.escaped /\ ch = p.quote -> EndQuote(p)
    [] ~p.escaped /\ ch # p.quote /\ ch = Backslash /\ p.quote # Single ->
         StartEscape(p)
    [] ~p.escaped /\ p.quote = NoQuote /\ ch \in {Single, Double} ->
         StartQuote(p, ch)
    [] ~p.escaped /\ p.quote = NoQuote /\ ch = Blank -> FinishArg(p)
    [] OTHER -> PushLiteral(p, ch)

Parsed(line) == FoldLeft(PushChar, Parser, line)

(* finish succeeds.  What surrounds the line is trimmed first.             *)
IsCommand(line) ==
  LET p == Parsed(line) IN
  ~p.escaped /\ p.quote = NoQuote /\ FinishArg(p).argv # <<>>

-----------------------------------------------------------------------------
(* trim: what is between the first and the last that is not blank.         *)
Trimmed(s) ==
  LET solid == {i \in 1..Len(s) : s[i] # Blank}
      first == CHOOSE i \in solid : \A j \in solid : i <= j
      last == CHOOSE i \in solid : \A j \in solid : j <= i
  IN  IF solid = {} THEN <<>> ELSE SubSeq(s, first, last)

CommandLineToArgv(line) == FinishArg(Parsed(Trimmed(line))).argv

(* normalize_command_argv of the backend; an empty result is refused.      *)
NormalizeArgv(argv) ==
  FoldLeft(LAMBDA kept, arg :
         IF Trimmed(arg) = <<>> THEN kept ELSE Append(kept, Trimmed(arg)),
       <<>>, argv)

(* Faulty variant: a backslash is thought to stand for itself.             *)
CanStayUnquotedWithBackslash(ch) == ch \notin {Blank, Single, Double}

CanStayUnquoted(ch) == ch \notin {Blank, Single, Double, Backslash}

(* A quote in quotes: end them, escape it, begin them again.               *)
QuotedChar(s, ch) ==
  s \o IF ch = Single THEN <<Single, Backslash, Single, Single>> ELSE <<ch>>

PreviewArg(arg) ==
  IF arg # <<>> /\ \A i \in 1..Len(arg) : CanStayUnquoted(arg[i])
  THEN arg
  ELSE Append(FoldLeft(QuotedChar, <<Single>>, arg), Single)

AgentCommandPreview(argv) ==
  FoldLeft(LAMBDA line, arg :
         (IF line = <<>> THEN <<>> ELSE Append(line, Blank)) \o PreviewArg(arg),
       <<>>, argv)

-----------------------------------------------------------------------------
(* The lines that make a command which is not the same when the page has   *)
(* shown it and sent it back.                                              *)
LostCommands ==
  {line \in Lines :
     LET kept == NormalizeArgv(CommandLineToArgv(line))
         shown == AgentCommandPreview(kept)
     IN  /\ IsCommand(Trimmed(line)) /\ kept # <<>>
         /\ ~IsCommand(Trimmed(shown)) \/ NormalizeArgv(CommandLineToArgv(shown)) # kept}
=============================================================================
