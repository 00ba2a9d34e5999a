-------------------------------- MODULE Cli --------------------------------
(***************************************************************************)
(* A program with a shell and menus on one thread.  The program's code is  *)
(* the bottom of the stack and the body of every command that is neither a *)
(* menu nor a sequence: it may change the shell's table, show a menu, run  *)
(* a sequence, run the shell, and end with any code or exception.          *)
(***************************************************************************)
EXTENDS Shell, Menu

CONSTANTS OpenMenus,      \* the menus the program shows itself
          OpenSequences,  \* the sequences it runs itself
          MaxDepth        \* bound on the frames below a call of the program

ASSUME CliAssumption ==
    /\ OpenMenus \subseteq Menus
    /\ OpenSequences \subseteq DOMAIN Parts
    /\ MaxDepth \in Nat

vars == <<callVars, shellVars, optionStrings>>

Init ==
    /\ stack = <<>> /\ outcome = "none"
    /\ ShellInit
    /\ MenuInit

Opened == {MenuFrame(m) : m \in OpenMenus}
            \union {SequenceFrame(c) : c \in OpenSequences}
            \union (IF built THEN {ShellFrame} ELSE {})

ProgramCalls ==
    /\ ProgramRuns /\ Len(stack) <= MaxDepth
    /\ \E f \in Opened : stack' = Append(stack, f)
    /\ UNCHANGED <<outcome, shellVars, optionStrings>>

(* A command of the program ends.                                          *)
CommandEnds ==
    /\ \/ Runs("command") /\ \E o \in CommandCodes \union Raised : Ends(o)
       \/ Runs("shell_command") /\ \E o \in Codes \union Raised : Ends(o)
    /\ UNCHANGED <<shellVars, optionStrings>>

(* The program looks at how its call ended, or lets the exception through. *)
ProgramResumes ==
    /\ outcome \notin {"none", "undefined"}
    /\ \/ stack = <<>> /\ outcome' = "none" /\ UNCHANGED stack
       \/ /\ Resumes("command") \/ Resumes("shell_command")
          /\ Becomes(Top) \/ (outcome \in Raised /\ Ends(outcome))
    /\ UNCHANGED <<shellVars, optionStrings>>

(* Nothing is known of a program that has read an entry that is gone.      *)
Undefined == outcome = "undefined" /\ UNCHANGED vars

RegistryNext ==
    /\ \/ Construct
       \/ \E c \in held : AddCommand(c)
       \/ \E w \in DOMAIN commands : RemoveCommand(w)
       \/ \E c \in held \union {None} : SetExitCommand(c)
       \/ ClearCommands
    /\ UNCHANGED optionStrings

ShellReads ==
    /\ \E line \in Lines :
         \/ BlankLine(line)  \/ Help(line)     \/ HelpUnknown(line)
         \/ Exit(line)       \/ NotFound(line) \/ RunCommand(line)
    /\ UNCHANGED optionStrings

ShellResumes ==
    (CommandReturned \/ CommandThrew \/ ExceptionLeaves) /\ UNCHANGED optionStrings

MenuReads ==
    /\ \/ PrintMenu
       \/ Runs("menu") /\ \E answer \in Answers(Len(Items[Top.of])) :
            \/ AskAgain(answer)   \/ PromptThrows(answer)
            \/ ChooseExit(answer) \/ ChooseItem(answer)
    /\ UNCHANGED shellVars

MenuResumes ==
    (ItemEnded \/ ExitItemEnded \/ ExceptionLeavesMenu) /\ UNCHANGED shellVars

SequenceNext ==
    (RunPart \/ PartSucceeded \/ PartFailed) /\ UNCHANGED shellVars

Next == \/ ProgramCalls \/ CommandEnds \/ ProgramResumes \/ Undefined
        \/ RegistryNext \/ ShellReads \/ ShellResumes
        \/ MenuReads    \/ MenuResumes \/ SequenceNext

Spec == Init /\ [][Next]_vars

-----------------------------------------------------------------------------
(* Properties.                                                             *)

ProgramFrames == [kind : {"command"}, cmd : Commands]
                   \union [kind : {"shell_command"}, cmd : ShellCommands]

(* Types.  The code a shell keeps is never exit: it does not read a line   *)
(* after a command said exit.                                              *)
TypeOK ==
    /\ \A i \in DOMAIN stack :
         CASE stack[i].kind = "shell" ->
                stack[i] \in [kind : {"shell"}, at : {"prompt", "command", "exit"},
                              cmd : ShellCommands \union {None}, entry : BOOLEAN,
                              code : Codes \ {"exit"}]
           [] stack[i].kind = "menu" ->
                stack[i] \in [kind : {"menu"}, of : Menus, options : Menus \union {None},
                              choice : Nat, at : {"top", "prompt", "command", "exit"}]
           [] stack[i].kind = "sequence" ->
                /\ stack[i].of \in DOMAIN Parts
                /\ stack[i].at \in 1..(Len(Parts[stack[i].of]) + 1)
           [] OTHER -> stack[i] \in ProgramFrames
    /\ outcome \in {"none", "undefined"} \union Codes \union Raised
    /\ built \in BOOLEAN
    /\ DOMAIN commands \subseteq Words /\ Registered \subseteq ShellCommands
    /\ exitCommand \in ShellCommands \union {None}
    /\ held \subseteq ShellCommands
    /\ optionStrings \in [Sizes -> Menus \union {None}]

SameCall(g, f) ==
    g.kind = f.kind /\ IF f.kind = "command" THEN g.cmd = f.cmd ELSE g.of = f.of

IsLoop(f)    == f.kind \in {"shell", "menu", "sequence"}
IsWaiting(f) == f.kind = "sequence" \/ f.at \in {"command", "exit"}

(* The frame g is that of the call the loop of frame f waits for.          *)
IsCalleeOf(g, f) ==
    /\ f.kind = "shell"    => g = CommandFrame(f.cmd)
    /\ f.kind = "sequence" => SameCall(g, Run(Parts[f.of][f.at]))
    /\ f.kind = "menu"     =>
         SameCall(g, Run(IF f.at = "exit" THEN ExitItem[f.of] ELSE Items[f.of][f.choice]))

(* A loop that is not on top waits for the very call above it; the one on  *)
(* top waits only when its call has ended, and with an answer it knows (a  *)
(* shell's codes never reach a menu or a sequence).                        *)
CallsMatch ==
    /\ \A i \in 1..(Len(stack) - 1) : IsLoop(stack[i]) =>
         IsWaiting(stack[i]) /\ IsCalleeOf(stack[i + 1], stack[i])
    /\ stack # <<>> /\ IsLoop(Top) =>
         IF outcome = "none" THEN Top.kind = "sequence" \/ ~IsWaiting(Top)
         ELSE /\ IsWaiting(Top)
              /\ Top.kind # "shell" => outcome \in CommandCodes \union Raised

(* A command is in the table under its own name, never under a keyword     *)
(* (which would hide it), and has one owner: table, exit slot or program.  *)
RegistryAgrees ==
    /\ \A w \in DOMAIN commands : NameOf[commands[w]] = w /\ w \notin Keywords
    /\ held \intersect Registered = {}
    /\ exitCommand \notin held \union Registered

(* shell.hpp:104: "Do not accept several commands with the same name, nor  *)
(* any command named 'exit' or 'help'."  The constructor has the same two  *)
(* checks (shell.hpp:86-91): an array it accepts must pass them.           *)
ConstructorChecksNames ==
    [][\A a \in Arrays, e \in held \union {None} :
          ConstructFrom(a, e) /\ built' =>
              \A i, j \in DOMAIN a : /\ NameOf[a[i]] \notin Keywords
                                    /\ NameOf[a[i]] = NameOf[a[j]] => i = j]_vars

(* While a command found by name runs, and may itself change the table,    *)
(* the entry it was found through stays that command's unless it has been  *)
(* erased: adding never replaces it, so the report of an exception names   *)
(* the command that threw.                                                 *)
RunningEntryIsCurrent ==
    \A i \in DOMAIN stack : stack[i].kind = "shell" /\ stack[i].entry =>
      /\ NameOf[stack[i].cmd] \in DOMAIN commands
      /\ commands[NameOf[stack[i].cmd]] = stack[i].cmd

(* Once the shell is built, only clear_commands destroys commands: what is *)
(* refused, removed or replaced goes back to the program.                  *)
OnlyClearDestroys ==
    [][built => \/ Alive \subseteq Alive'
                \/ commands' = NoCommands /\ held' = held]_vars

Ended == stack # <<>> /\ stack' = Below

(* run returns when exit is typed and there is no exit command, or when    *)
(* the exit command, or any other, has returned exit: an exit command that *)
(* returns something else keeps the shell open.                            *)
ShellEndsOnExit ==
    [][Ended /\ Top.kind = "shell" /\ outcome' \notin Raised =>
         /\ outcome' = "exit"
         /\ IF Top.at = "prompt" THEN exitCommand = None ELSE outcome = "exit"]_vars

(* An exception derived from std::exception leaves a loop only from the    *)
(* places that have no handler: help about an unknown command, a prompt    *)
(* given a number too large for int, an exit command.  A sequence lets     *)
(* none through, whatever menus and sequences it is made of.               *)
ExceptionsStop ==
    [][Ended /\ outcome' = "exception" =>
         CASE Top.kind = "shell" -> Top.at \in {"prompt", "exit"}
           [] Top.kind = "menu"  -> Top.at \in {"prompt", "exit"}
           [] OTHER -> Top.kind # "sequence"]_vars

(* A sequence, and one inside it, goes on to its next part when the part   *)
(* before has succeeded and at no other time, keeps its place while its    *)
(* parts run whatever they call, answers success only after the last part, *)
(* and lets its caller know of the first failure.                          *)
SequencesStopAtFailure ==
    [][/\ Resumes("sequence") /\ outcome # "success" => Ended /\ outcome' # "success"
       /\ Ended /\ Top.kind = "sequence" /\ outcome' = "success" => Finished
       /\ \A i \in DOMAIN stack :
            stack[i].kind = "sequence" /\ i \in DOMAIN stack' =>
                \/ stack'[i] = stack[i]
                \/ /\ i = Len(stack) /\ outcome = "success"
                   /\ stack'[i] = [stack[i] EXCEPT !.at = @ + 1]]_vars

(* Whatever the commands of a menu answered, and its exit command too, a   *)
(* menu that returns is a success to the menu or sequence it is part of.   *)
MenusSucceed ==
    [][Ended /\ Top.kind = "menu" /\ outcome' \notin Raised => outcome' = "success"]_vars

=============================================================================
