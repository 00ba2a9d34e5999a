-------------------------------- MODULE Menu --------------------------------
(***************************************************************************)
(* tools::cli::menu, menu_command and command_sequence, and the prompts    *)
(* of input.hpp that menus use.  The objects own one another and never     *)
(* change: the constants below are that tree.  Only the option strings are *)
(* state: one static local for all the menus of one size.                  *)
(***************************************************************************)
EXTENDS CallStack

CONSTANTS Commands,   \* the objects that derive from cli::command
          Menus,
          Items,      \* Items[m]: the commands of menu m
          ExitItem,   \* ExitItem[m]: its exit command, or None
          InnerMenu,  \* InnerMenu[c]: the menu of c, for each menu_command c
          Parts       \* Parts[c]: the commands of c, for each command_sequence c

CommandCodes == {"success", "failure"}

ASSUME MenuAssumption ==
    /\ None \notin Commands \union Menus
    /\ Items \in [Menus -> Seq(Commands)]
    /\ ExitItem \in [Menus -> Commands \union {None}]
    /\ DOMAIN InnerMenu \subseteq Commands /\ InnerMenu \in [DOMAIN InnerMenu -> Menus]
    /\ DOMAIN Parts \subseteq Commands /\ Parts \in [DOMAIN Parts -> Seq(Commands)]
    /\ DOMAIN InnerMenu \intersect DOMAIN Parts = {}

VARIABLE optionStrings   \* optionStrings[n]: the menu the static string is made of

Sizes == {Len(Items[m]) : m \in Menus}

MenuInit == optionStrings = [n \in Sizes |-> None]

(* options: the menu whose options are on the screen; choice: the last one *)
(* made.                                                                   *)
MenuFrame(m) == [kind |-> "menu", of |-> m, at |-> "top", options |-> None, choice |-> 0]

SequenceFrame(c) == [kind |-> "sequence", of |-> c, at |-> 1]

(* Running a command: a menu_command shows its menu.  The others are the   *)
(* program's.                                                              *)
Run(c) == CASE c \in DOMAIN InnerMenu -> MenuFrame(InnerMenu[c])
            [] c \in DOMAIN Parts     -> SequenceFrame(c)
            [] OTHER                  -> [kind |-> "command", cmd |-> c]

-----------------------------------------------------------------------------
(* Input.  A line is a number that fits an int, a number that does not, or *)
(* something else, which the empty line at the end of the input is too.    *)

Answers(max) == [kind : {"number"}, value : -1..(max + 1)]
                  \union {[kind |-> "huge"], [kind |-> "text"]}

(* prompt asks again after std::invalid_argument only: a number too large  *)
(* for std::stoi leaves it as std::out_of_range.                           *)
LeavesPrompt(answer) == answer.kind = "huge"

InBounds(answer, min, max) ==
    answer.kind = "number" /\ answer.value >= min /\ answer.value <= max

-----------------------------------------------------------------------------
(* menu::show.                                                             *)

(* The static string is made by the first menu of its size to be shown.    *)
PrintMenu ==
    /\ Runs("menu") /\ Top.at = "top"
    /\ LET n   == Len(Items[Top.of])
           now == IF optionStrings[n] = None THEN Top.of ELSE optionStrings[n]
       IN  /\ optionStrings' = [optionStrings EXCEPT ![n] = now]
           /\ Becomes([Top EXCEPT !.at = "prompt", !.options = now])

AtPrompt(answer) ==
    Runs("menu") /\ Top.at = "prompt" /\ answer \in Answers(Len(Items[Top.of]))

Chosen(answer) == InBounds(answer, 0, Len(Items[Top.of]))

(* Any other answer is asked for again.                                    *)
AskAgain(answer) ==
    /\ AtPrompt(answer)
    /\ ~LeavesPrompt(answer) /\ ~Chosen(answer)
    /\ UNCHANGED <<callVars, optionStrings>>

PromptThrows(answer) ==
    AtPrompt(answer) /\ LeavesPrompt(answer) /\ Ends("exception") /\ UNCHANGED optionStrings

ChooseExit(answer) ==
    /\ AtPrompt(answer) /\ Chosen(answer) /\ answer.value = 0
    /\ IF ExitItem[Top.of] = None
         THEN Ends("success")
         ELSE Calls([Top EXCEPT !.at = "exit"], Run(ExitItem[Top.of]))
    /\ UNCHANGED optionStrings

(* Mutant: the choice is used as an index of an array that starts at 0.    *)
ChooseNextItem(answer) ==
    /\ AtPrompt(answer) /\ Chosen(answer) /\ answer.value # 0
    /\ LET next == (answer.value % Len(Items[Top.of])) + 1
       IN  Calls([Top EXCEPT !.at = "command", !.choice = answer.value],
                 Run(Items[Top.of][next]))
    /\ UNCHANGED optionStrings

ChooseItem(answer) ==
    /\ AtPrompt(answer) /\ Chosen(answer) /\ answer.value # 0
    /\ Calls([Top EXCEPT !.at = "command", !.choice = answer.value],
             Run(Items[Top.of][answer.value]))
    /\ UNCHANGED optionStrings

(* The command's code is not looked at; its exceptions are reported.       *)
ItemEnded ==
    /\ Resumes("menu") /\ Top.at = "command" /\ outcome # "foreign"
    /\ Becomes([Top EXCEPT !.at = "top", !.options = None, !.choice = 0])
    /\ UNCHANGED optionStrings

(* Mutant: the exit command's code becomes the menu's.                     *)
AnswersAsExitItem ==
    /\ Resumes("menu") /\ Top.at = "exit" /\ outcome \notin Raised
    /\ Ends(outcome)
    /\ UNCHANGED optionStrings

(* show returns, and so does a menu_command, with success.                 *)
ExitItemEnded ==
    /\ Resumes("menu") /\ Top.at = "exit" /\ outcome \notin Raised
    /\ Ends("success")
    /\ UNCHANGED optionStrings

ExceptionLeavesMenu ==
    /\ Resumes("menu") /\ outcome \in Raised
    /\ Top.at = "exit" \/ outcome = "foreign"
    /\ Ends(outcome)
    /\ UNCHANGED optionStrings

-----------------------------------------------------------------------------
(* command_sequence::run.  at: the index of the command that runs or, when *)
(* none does, of the next one.                                             *)

Finished == Top.at > Len(Parts[Top.of])

RunPart ==
    /\ Runs("sequence")
    /\ IF Finished THEN Ends("success") ELSE Calls(Top, Run(Parts[Top.of][Top.at]))
    /\ UNCHANGED optionStrings

PartSucceeded ==
    /\ Resumes("sequence") /\ outcome = "success"
    /\ Becomes([Top EXCEPT !.at = @ + 1])
    /\ UNCHANGED optionStrings

(* Mutant: the exception of a part is not caught.                          *)
PartRethrows ==
    /\ Resumes("sequence") /\ outcome # "success"
    /\ Ends(outcome)
    /\ UNCHANGED optionStrings

(* Mutant: the sequence goes on after a part that failed.                  *)
PartSkipped ==
    /\ Resumes("sequence") /\ outcome # "success"
    /\ IF outcome = "failure" THEN Becomes([Top EXCEPT !.at = @ + 1])
       ELSE Ends(IF outcome = "exception" THEN "failure" ELSE outcome)
    /\ UNCHANGED optionStrings

PartFailed ==
    /\ Resumes("sequence") /\ outcome # "success"
    /\ Ends(IF outcome = "exception" THEN "failure" ELSE outcome)
    /\ UNCHANGED optionStrings
=============================================================================
