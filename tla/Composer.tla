------------------------------ MODULE Composer ------------------------------
(***************************************************************************)
(* Writing a line in a chat: the input line of the terminal client         *)
(* (acp-cli/src/tui/app.rs, tui/input.rs) and the composer of the web page *)
(* (components/composer.rs, composer_palette.rs, slash.rs,                 *)
(* session_page_actions/slash.rs of acp-web-frontend), each with a menu of *)
(* completions and its own reading of the Enter key.                       *)
(*                                                                         *)
(* The terminal asks the backend for completions when Tab is pressed, of   *)
(* the text before the cursor, and waits for them: its UI is one thread.   *)
(* Its menu is gone as soon as the text changes, but not when the cursor   *)
(* moves.  The web page derives its palette from the draft, with each      *)
(* change of it.  A terminal's prompt is sent while the UI waits; the web  *)
(* page's on its own, and the answer to it clears the draft, whatever has  *)
(* become of it.                                                           *)
(***************************************************************************)
EXTENDS SlashCommands

CONSTANTS
  Keys,        (* the characters that are typed                            *)
  Earlier,     (* the lines a session of the terminal has had before       *)
  MaxInserted, (* bound: characters typed and completions put in           *)
  MaxLine,     (* bound: characters in the line                            *)
  MaxSubmits,  (* bound: lines submitted                                   *)
  MaxRequests  (* bound: changes of the pending requests by others         *)

(* What lines are made of: what is typed, and what completions put in.     *)
Characters ==
  Keys \cup {Slash, Blank, "h", "q", "c", "a", "d", "r", "1", "2"}

ASSUME ComposerAssumption ==
  /\ Earlier \subseteq Seq(Seq(Characters))
  /\ {MaxInserted, MaxLine, MaxSubmits, MaxRequests} \subseteq Nat

VARIABLES
  client,    (* which of the two it is; "left" once the terminal has quit  *)
  text,      (* ChatApp.input, or the draft                                *)
  cursor,    (* the characters before the cursor                           *)
  menu,      (* the candidates, and which is selected                      *)
  recall,    (* input_history, history_index (0: none) and history_draft   *)
  sending,   (* the web page's prompts on their way                        *)
  busy,      (* its turn_state is not Idle                                 *)
  pending,   (* the permission requests that wait for a decision           *)
  askedAt,   (* history: where the cursor was when the menu came up        *)
  begun,     (* history: the text when the recall began                    *)
  inserted, submits, requests  (* what the bounds count                    *)

lineVars == <<text, cursor, menu, askedAt>>
historyVars == <<recall, begun>>
webVars == <<sending, busy>>
countVars == <<inserted, submits, requests>>
composerVars == <<client, lineVars, historyVars, webVars, pending,
                  countVars>>

-----------------------------------------------------------------------------
KnownRequests == {RequestIds[i] : i \in DOMAIN RequestIds}
NoMenu == [candidates |-> <<>>, selected |-> 0]
MenuIsOpen == menu.candidates # <<>>
Selected == menu.candidates[menu.selected]
NoRecall(history) == [history |-> history, index |-> 0, draft |-> <<>>]
Before == SubSeq(text, 1, cursor)
After == SubSeq(text, cursor + 1, Len(text))

Terminal == client = "terminal"
Web == client = "web"
(* session_composer_disabled                                               *)
Editable == Terminal \/ (Web /\ ~busy)

(* show_completion_menu, and the palette: nothing is shown of nothing.     *)
ShowMenu(candidates) ==
  menu' = IF candidates = <<>> THEN NoMenu
          ELSE [candidates |-> candidates, selected |-> 1]

(* The text is changed: the terminal's menu goes, the web's is made anew.  *)
SetLine(line, at) ==
  /\ Len(line) <= MaxLine
  /\ text' = line
  /\ cursor' = at
  /\ ShowMenu(IF Terminal THEN <<>> ELSE LocalSlashCandidates(line))
  /\ askedAt' = at

Rewrite(before, after) == SetLine(before \o after, Len(before))
ReplaceInput(line) == SetLine(line, Len(line))

(* reset_history_navigation                                                *)
ResetHistoryNavigation ==
  /\ recall' = NoRecall(recall.history)
  /\ begun' = <<>>

Uncounted == UNCHANGED countVars
Inserted ==
  /\ inserted < MaxInserted
  /\ inserted' = inserted + 1
  /\ UNCHANGED <<submits, requests>>
Unsent == UNCHANGED <<client, webVars, pending>>

ComposerInit ==
  /\ client \in {"terminal", "web"}
  /\ text = <<>> /\ cursor = 0
  /\ menu = NoMenu
  /\ \E history \in Earlier : recall = NoRecall(history)
  /\ sending = 0 /\ busy = FALSE
  /\ pending = {}
  /\ askedAt = 0 /\ begun = <<>>
  /\ inserted = 0 /\ submits = 0 /\ requests = 0

-----------------------------------------------------------------------------
(* Editing.                                                                *)
InsertChar(ch) ==
  /\ Editable
  /\ Inserted
  /\ Rewrite(Append(Before, ch), After)
  /\ ResetHistoryNavigation
  /\ Unsent

Backspace ==
  /\ Editable
  /\ cursor > 0
  /\ Rewrite(Front(Before), After)
  /\ ResetHistoryNavigation
  /\ Unsent /\ Uncounted

MoveCursor ==
  /\ Editable
  /\ cursor' \in {cursor - 1, cursor + 1} \cap (0 .. Len(text))
  /\ askedAt' = IF MenuIsOpen THEN askedAt ELSE cursor'
  /\ UNCHANGED <<text, menu, historyVars>> /\ Unsent /\ Uncounted

-----------------------------------------------------------------------------
(* The menu.                                                               *)

(* cycle_slash_selection, select_next and select_previous.                 *)
SelectNext(n) == (n % Len(menu.candidates)) + 1
SelectPrevious(n) == IF n = 1 THEN Len(menu.candidates) ELSE n - 1

(* Tab and BackTab in the terminal, the arrows in both.                    *)
CycleMenu ==
  /\ Terminal \/ (Web /\ ~busy /\ SlashPaletteIsVisible(text))
  /\ MenuIsOpen
  /\ \/ menu' = [menu EXCEPT !.selected = SelectNext(@)]
     \/ menu' = [menu EXCEPT !.selected = SelectPrevious(@)]
  /\ UNCHANGED <<text, cursor, askedAt, historyVars>> /\ Unsent /\ Uncounted

(* Escape.  What the palette had is gone, it is shown all the same.        *)
DismissMenu ==
  /\ Terminal \/ (Web /\ ~busy /\ SlashPaletteIsVisible(text))
  /\ MenuIsOpen
  /\ menu' = NoMenu
  /\ UNCHANGED <<text, cursor, askedAt, historyVars>> /\ Unsent /\ Uncounted

CompletionStart(before) == SelectLastInSeq(before, IsBlank)

(* Faulty variant: the blank goes with what it precedes.                   *)
CompletedWithoutBlank(before, insertText) ==
  LET start == CompletionStart(before)
  IN SubSeq(before, 1, IF start = 0 THEN 0 ELSE start - 1) \o insertText

(* What remains of the text before the cursor, with the completion.        *)
Completed(before, insertText) ==
  SubSeq(before, 1, CompletionStart(before)) \o insertText

(* apply_selected_completion: what follows the cursor stays.               *)
Complete(insertText) ==
  /\ Rewrite(Completed(Before, insertText), After)
  /\ ResetHistoryNavigation

(* update_completion_menu; an answer that fails changes nothing.           *)
AskForCompletions ==
  /\ Terminal
  /\ ~MenuIsOpen
  /\ LET candidates == ResolveSlashCompletions(Before, pending)
     IN IF Len(candidates) = 1
        THEN Complete(candidates[1]) /\ Inserted
        ELSE /\ ShowMenu(candidates)
             /\ askedAt' = cursor
             /\ UNCHANGED <<text, cursor, historyVars>> /\ Uncounted
  /\ Unsent

(* apply_slash_candidate_at: by Tab, or with the mouse.                    *)
ApplyToDraft ==
  /\ Rewrite(ApplySlashCompletion(text, Selected), <<>>)
  /\ UNCHANGED historyVars

PickCandidate ==
  /\ Web
  /\ MenuIsOpen /\ SlashPaletteIsVisible(text)
  /\ ApplyToDraft
  /\ Inserted
  /\ Unsent

-----------------------------------------------------------------------------
(* Enter.                                                                  *)

(* slash_palette_should_apply_selected                                     *)
ShouldApplySelected ==
  MenuIsOpen /\ ApplySlashCompletion(text, Selected) # text

EnterCompletes ==
  /\ MenuIsOpen
  /\ \/ Terminal /\ Complete(Selected)
     \/ /\ Web /\ ~busy
        /\ SlashPaletteIsVisible(text) /\ ShouldApplySelected
        /\ ApplyToDraft
  /\ Inserted
  /\ Unsent

(* clear_input: nothing of the line is left.                               *)
ClearInput == ReplaceInput(<<>>)

(* record_submitted_input                                                  *)
Recorded(line) ==
  IF recall.history # <<>> /\ Last(recall.history) = line
  THEN recall.history
  ELSE Append(recall.history, line)

RecordSubmittedInput(line) ==
  /\ recall' = NoRecall(Recorded(line))
  /\ begun' = <<>>

(* resolve_permission: a request that is not pending is an error.          *)
Decide(outcome) ==
  pending' = IF outcome.what \in {"approve", "deny"}
             THEN pending \ {outcome.request} ELSE pending

RunCommand(line) ==
  LET outcome == ExecuteReplCommand(line)
  IN /\ Decide(outcome)
     /\ client' = IF outcome.what = "quit" THEN "left" ELSE client
     /\ ClearInput

(* submit_prompt: a prompt that is refused stays in the line.              *)
SubmitPrompt ==
  /\ ClearInput \/ UNCHANGED lineVars
  /\ UNCHANGED <<client, pending>>

(* submit_current_input, also for a line that is pasted with its end.      *)
SubmitCurrentInput ==
  LET line == Trim(text)
  IN /\ Terminal
     /\ line # <<>>
     /\ submits < MaxSubmits
     /\ submits' = submits + 1
     /\ RecordSubmittedInput(line)
     /\ IF StartsWithSlash(line) THEN RunCommand(line) ELSE SubmitPrompt
     /\ UNCHANGED <<webVars, inserted, requests>>

EnterSubmits == ~MenuIsOpen /\ SubmitCurrentInput
PasteLineEnd == MenuIsOpen /\ SubmitCurrentInput

(* handle_slash_submit and session_submit_callback: by Enter, or with the   *)
(* button, which does not ask the palette.                                 *)
SubmitDraft ==
  LET line == Trim(text)
  IN /\ Web /\ ~busy
     /\ line # <<>>
     /\ submits < MaxSubmits
     /\ submits' = submits + 1
     /\ IF StartsWithSlash(line)
        THEN /\ IF ParseBrowserSlashAction(line) = Does("help")
                THEN ClearInput
                ELSE UNCHANGED lineVars
             /\ UNCHANGED webVars
        ELSE /\ sending' = sending + 1
             /\ busy' = TRUE
             /\ menu' = NoMenu
             /\ UNCHANGED <<text, cursor, askedAt>>
     /\ UNCHANGED <<client, historyVars, pending, inserted, requests>>

(* The answer to a prompt, and the end of its turn, in either order.       *)
PromptAccepted ==
  /\ sending > 0
  /\ sending' = sending - 1
  /\ busy' = TRUE
  /\ ClearInput
  /\ UNCHANGED <<client, historyVars, pending, countVars>>

PromptRefused ==
  /\ sending > 0
  /\ sending' = sending - 1
  /\ busy' = FALSE
  /\ UNCHANGED <<client, lineVars, historyVars, pending, countVars>>

TurnEnds ==
  /\ Web /\ busy
  /\ busy' = FALSE
  /\ UNCHANGED <<client, lineVars, historyVars, sending, pending, countVars>>

(* The page is loaded again: the draft is kept in the session's storage.   *)
ReloadPage ==
  /\ Web
  /\ ReplaceInput(text)
  /\ sending' = 0
  /\ busy' \in BOOLEAN
  /\ UNCHANGED <<client, historyVars, pending, countVars>>

-----------------------------------------------------------------------------
(* Recalling lines: Up and Down without a menu.                            *)
Recall(index, draft) ==
  /\ recall' = [recall EXCEPT !.index = index, !.draft = draft]
  /\ ReplaceInput(IF index = 0 THEN recall.draft ELSE recall.history[index])

(* Faulty variant: each step back keeps what it replaces.                  *)
RecallPreviousSaving ==
  /\ Terminal /\ ~MenuIsOpen
  /\ recall.history # <<>>
  /\ Recall(CASE recall.index = 0 -> Len(recall.history)
              [] recall.index = 1 -> 1
              [] OTHER -> recall.index - 1, text)
  /\ begun' = IF recall.index = 0 THEN text ELSE begun
  /\ Unsent /\ Uncounted

RecallPreviousInput ==
  /\ Terminal /\ ~MenuIsOpen
  /\ recall.history # <<>>
  /\ CASE recall.index = 0 -> Recall(Len(recall.history), text)
       [] recall.index = 1 -> Recall(1, recall.draft)
       [] OTHER -> Recall(recall.index - 1, recall.draft)
  /\ begun' = IF recall.index = 0 THEN text ELSE begun
  /\ Unsent /\ Uncounted

RecallNextInput ==
  /\ Terminal /\ ~MenuIsOpen
  /\ recall.index > 0
  /\ IF recall.index < Len(recall.history)
     THEN Recall(recall.index + 1, recall.draft) /\ begun' = begun
     ELSE Recall(0, <<>>) /\ begun' = <<>>
  /\ Unsent /\ Uncounted

(* The agent asks, another client answers, or the turn ends.               *)
OthersChangeRequests ==
  /\ client # "left"
  /\ requests < MaxRequests
  /\ requests' = requests + 1
  /\ pending' \in SUBSET KnownRequests \ {pending}
  /\ UNCHANGED <<client, lineVars, historyVars, webVars, inserted, submits>>

-----------------------------------------------------------------------------
TerminalStep ==
  \/ AskForCompletions \/ EnterSubmits \/ PasteLineEnd
  \/ RecallPreviousInput \/ RecallNextInput

WebStep ==
  \/ PickCandidate \/ SubmitDraft \/ PromptAccepted \/ PromptRefused
  \/ TurnEnds \/ ReloadPage

ComposerNext ==
  \/ \E ch \in Keys : InsertChar(ch)
  \/ Backspace \/ MoveCursor \/ CycleMenu \/ DismissMenu \/ EnterCompletes
  \/ TerminalStep \/ WebStep
  \/ OthersChangeRequests

ComposerSpec == ComposerInit /\ [][ComposerNext]_composerVars

-----------------------------------------------------------------------------
(* Every variable keeps its type: the cursor is within the text, and an    *)
(* open menu has something selected.                                       *)
ComposerTypeOK ==
  /\ client \in {"terminal", "web", "left"}
  /\ cursor \in 0 .. Len(text)
  /\ askedAt \in Nat
  /\ menu = NoMenu \/ menu.selected \in DOMAIN menu.candidates
  /\ recall.index \in 0 .. Len(recall.history)
  /\ sending \in 0 .. MaxSubmits
  /\ busy \in BOOLEAN
  /\ pending \subseteq KnownRequests

(* What a line with a completion in it comes to: a request is decided by   *)
(* the command the line began with, and a command is the one that was      *)
(* offered, which may want a request id after it.                          *)
Obeys(line, insertText) ==
  IF insertText \in KnownRequests
  THEN \E c \in ParseSlashCommand(Words(text)[1]) :
         ExecuteReplCommand(Trim(line)) = Decides(c, insertText)
  ELSE \E c \in DOMAIN Name :
         /\ InsertText(c) = insertText
         /\ ParseSlashCommand(Words(line)[1]) = {c}
         /\ TakesRequestId(c) =>
              ClassifySlashCompletionPrefix(line) = RequestQuery(<<>>)

(* The backend's completions, the terminal's way to put them into the line *)
(* and the reading of a command agree: whatever is offered, or put in at   *)
(* once because nothing else fits, makes a line that does just that; so    *)
(* does what the web page offers of its own.                               *)
CompletionsAreObeyed ==
  IF Terminal
  THEN LET offered == IF MenuIsOpen THEN menu.candidates
                      ELSE ResolveSlashCompletions(Before, pending)
       IN (MenuIsOpen => cursor = askedAt) =>
            \A i \in DOMAIN offered :
              Obeys(Completed(Before, offered[i]), offered[i])
  ELSE MenuIsOpen =>
         ParseBrowserSlashAction(Trim(ApplySlashCompletion(text, Selected)))
           = Does("help")

(* However a user steps through the lines submitted before, the one that   *)
(* was being written comes back: it is kept as it was when the stepping    *)
(* began, and what is stepped through is never changed in its place.       *)
DraftsSurviveRecall ==
  recall.index > 0 =>
    /\ recall.draft = begun
    /\ text = recall.history[recall.index]
=============================================================================
