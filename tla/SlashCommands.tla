--------------------------- MODULE SlashCommands ---------------------------
(***************************************************************************)
(* The slash commands the programs share (crates/acp-contracts-slash),     *)
(* what the backend offers to complete a line (completions.rs), and what   *)
(* the two clients make of a line: execute_repl_command of the command     *)
(* line client and parse_browser_slash_action of the web page.             *)
(*                                                                         *)
(* A line is a sequence of characters.  A command's name is the slash and  *)
(* one letter, a request id two characters, the first of which they share: *)
(* so that "/" and "r" can be completed in several ways, and what follows  *)
(* in one.                                                                 *)
(***************************************************************************)
EXTENDS Naturals, Sequences, SequencesExt

Slash == "/"
Blank == " "
IsBlank(ch) == ch = Blank

(* SLASH_COMMAND_SPECS, in their order.                                    *)
Commands == <<"help", "quit", "cancel", "approve", "deny">>
Name == [help |-> <<Slash, "h">>, quit |-> <<Slash, "q">>,
         cancel |-> <<Slash, "c">>, approve |-> <<Slash, "a">>,
         deny |-> <<Slash, "d">>]

TakesRequestId(command) == command \in {"approve", "deny"}

InsertText(command) ==
  IF TakesRequestId(command) THEN Append(Name[command], Blank) ELSE Name[command]

(* The ids the backend gives to permission requests, in its order.         *)
RequestIds == <<<<"r", "1">>, <<"r", "2">>>>

-----------------------------------------------------------------------------
(* Lines.                                                                  *)
TrimStart(line) ==
  LET first == SelectInSeq(line, LAMBDA ch : ~IsBlank(ch))
  IN IF first = 0 THEN <<>> ELSE SubSeq(line, first, Len(line))

Trim(line) ==
  TrimStart(SubSeq(line, 1, SelectLastInSeq(line, LAMBDA ch : ~IsBlank(ch))))

(* The members of a set of numbers, from the least on.                     *)
InOrder(S) ==
  [n \in 1 .. Cardinality(S) |->
     CHOOSE i \in S : Cardinality({j \in S : j <= i}) = n]

(* filter: what the list has at these places.                              *)
Fitting(list, places) ==
  LET kept == InOrder(places)
  IN [n \in DOMAIN kept |-> list[kept[n]]]

(* split_whitespace                                                        *)
Words(line) ==
  LET starts == InOrder({i \in DOMAIN line : ~IsBlank(line[i])
                                     /\ (i = 1 \/ IsBlank(line[i - 1]))})
      end(i) == CHOOSE j \in i .. Len(line) :
                  /\ \A k \in i .. j : ~IsBlank(line[k])
                  /\ j = Len(line) \/ IsBlank(line[j + 1])
  IN [n \in DOMAIN starts |-> SubSeq(line, starts[n], end(starts[n]))]

StartsWithSlash(line) == line # <<>> /\ line[1] = Slash

(* parse_slash_command: the command of that name, or none.                 *)
ParseSlashCommand(word) == {c \in DOMAIN Name : Name[c] = word}

-----------------------------------------------------------------------------
(* classify_slash_completion_prefix: what is to be completed.              *)
NoQuery == [kind |-> "none", prefix |-> <<>>]
CommandQuery(prefix) == [kind |-> "command", prefix |-> prefix]
RequestQuery(prefix) == [kind |-> "request", prefix |-> prefix]

ArgumentQuery(name, argument) ==
  IF /\ \E c \in ParseSlashCommand(name) : TakesRequestId(c)
     /\ \A i \in DOMAIN argument : ~IsBlank(argument[i])
  THEN RequestQuery(argument)
  ELSE NoQuery

ClassifySlashCompletionPrefix(text) ==
  LET line == TrimStart(text)
      space == SelectInSeq(line, IsBlank)
  IN CASE ~StartsWithSlash(line) -> NoQuery
       [] StartsWithSlash(line) /\ space > 0 ->
            ArgumentQuery(SubSeq(line, 1, space - 1),
                          TrimStart(SubSeq(line, space + 1, Len(line))))
       [] OTHER ->
            IF \E c \in DOMAIN Name : IsPrefix(line, Name[c])
            THEN CommandQuery(line)
            ELSE NoQuery

(* resolve_slash_completions: the texts to insert, given the requests that *)
(* are pending.                                                            *)
CommandCandidates(prefix) ==
  LET fits == {i \in DOMAIN Commands : IsPrefix(prefix, Name[Commands[i]])}
      fitting == Fitting(Commands, fits)
  IN [i \in DOMAIN fitting |-> InsertText(fitting[i])]

ResolveSlashCompletions(text, pending) ==
  LET query == ClassifySlashCompletionPrefix(text)
      fits == {i \in DOMAIN RequestIds : /\ RequestIds[i] \in pending
                                          /\ IsPrefix(query.prefix, RequestIds[i])}
  IN CASE query.kind = "request" -> Fitting(RequestIds, fits)
       [] query.kind = "command" -> CommandCandidates(query.prefix)
       [] OTHER -> <<>>

-----------------------------------------------------------------------------
(* What a submitted line does.                                             *)
Does(what) == [what |-> what, request |-> <<>>]
Decides(command, id) == [what |-> command, request |-> id]
Nothing == Does("nothing")

(* execute_repl_command: anything but these only shows a status.           *)
ExecuteReplCommand(line) ==
  LET words == Words(line)
      command == ParseSlashCommand(words[1])
  IN CASE command \subseteq {"help"} -> Nothing
       [] command = {"quit"} -> Does("quit")
       [] command = {"cancel"} ->
            IF Len(words) = 1 THEN Does("cancel") ELSE Nothing
       [] OTHER ->
            IF Len(words) = 2
            THEN Decides(CHOOSE c \in command : TRUE, words[2])
            ELSE Nothing

(* The browser has controls for the others.                                *)
BrowserSupports(command) == command = "help"

ParseBrowserSlashAction(line) ==
  LET words == Words(line)
  IN IF Len(words) = 1 /\ \E c \in ParseSlashCommand(words[1]) : BrowserSupports(c)
     THEN Does("help")
     ELSE Nothing

(* local_slash_candidates                                                  *)
LocalSlashCandidates(draft) ==
  LET query == ClassifySlashCompletionPrefix(draft)
      fits == {i \in DOMAIN Commands : /\ BrowserSupports(Commands[i])
                                        /\ IsPrefix(query.prefix, Name[Commands[i]])}
      fitting == Fitting(Commands, fits)
  IN IF query.kind = "command"
     THEN [i \in DOMAIN fitting |-> InsertText(fitting[i])]
     ELSE <<>>

(* slash_palette_is_visible                                                *)
SlashPaletteIsVisible(draft) ==
  LET query == ClassifySlashCompletionPrefix(draft)
  IN query.kind = "command"
     /\ \E c \in DOMAIN Name : BrowserSupports(c) /\ IsPrefix(query.prefix, Name[c])

(* apply_slash_completion: the blanks the draft begins with stay; a draft  *)
(* that cannot be completed is left alone.                                 *)
ApplySlashCompletion(draft, insertText) ==
  LET query == ClassifySlashCompletionPrefix(draft)
      kept == CASE query.kind = "command" -> Len(draft) - Len(TrimStart(draft))
                [] query.kind = "request" -> SelectLastInSeq(draft, IsBlank)
                [] OTHER -> Len(draft)
  IN IF query.kind = "none" THEN draft ELSE SubSeq(draft, 1, kept) \o insertText
=============================================================================
