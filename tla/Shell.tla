------------------------------- MODULE Shell -------------------------------
(***************************************************************************)
(* tools::cli::shell (src/cpptools/cli/shell.hpp): a table of commands by  *)
(* name, an optional exit command, and a loop that reads a line and runs   *)
(* the command it names.  Commands are owned: by the table, by the exit    *)
(* slot, or by the program (held); one that is owned by nobody is gone.    *)
(*                                                                         *)
(* A line is the sequence of its words.  Words of a line after the second  *)
(* one, and after the first one of a line that is not a help line, go to   *)
(* the command and change nothing here.                                    *)
(***************************************************************************)
EXTENDS CallStack, FiniteSets

CONSTANTS Words,          \* the words a user may type
          ShellCommands,  \* the command objects
          NameOf,         \* NameOf[c]: what c->name() returns
          MaxArray        \* bound on the commands given to the constructor

Keywords == {"help", "exit"}   \* shell_command_keywords

Codes == {"exit", "success", "failure", "bad_arguments", "not_found"}

ASSUME ShellAssumption ==
    /\ Keywords \subseteq Words
    /\ NameOf \in [ShellCommands -> Words]
    /\ None \notin ShellCommands
    /\ MaxArray \in Nat

VARIABLES built,         \* the shell exists
          commands,      \* _commands
          exitCommand,   \* _exit_command
          held           \* the commands the program owns

shellVars == <<built, commands, exitCommand, held>>

NoCommands == [w \in {} |-> None]

ShellInit ==
    /\ built = FALSE
    /\ commands = NoCommands
    /\ exitCommand = None
    /\ held = ShellCommands

Registered == {commands[w] : w \in DOMAIN commands}
Alive == Registered \union held \union ({exitCommand} \ {None})

ShellFrame == [kind |-> "shell", at |-> "prompt", cmd |-> None,
               entry |-> FALSE, code |-> "success"]

CommandFrame(c) == [kind |-> "shell_command", cmd |-> c]

(* The program's own code runs: outside of any call or inside a command.   *)
ProgramRuns ==
    outcome = "none" /\ (stack # <<>> => Top.kind \in {"shell_command", "command"})

-----------------------------------------------------------------------------
(* The table of commands.                                                  *)

Arrays == {a \in UNION {[1..n -> held] : n \in 0..MaxArray} :
             \A i, j \in DOMAIN a : a[i] = a[j] => i = j}

(* The constructor looks each name up among views of the earlier names,    *)
(* and these were local to an earlier turn of the loop: from the second    *)
(* command on, the look-up may answer anything.                            *)
IsRefused(a, found) == \E i \in DOMAIN a : NameOf[a[i]] \in Keywords \/ found[i]

(* The table after the commands have been assigned to their names in turn. *)
IsTableOf(f, a) ==
    \A w \in DOMAIN f : \E i \in DOMAIN a :
      /\ f[w] = a[i] /\ NameOf[a[i]] = w
      /\ \A j \in DOMAIN a : NameOf[a[j]] = w => j <= i

Tables(a) == {f \in [{NameOf[a[i]] : i \in DOMAIN a} -> {a[i] : i \in DOMAIN a}] : IsTableOf(f, a)}

(* A refused construction leaves the array to the program and destroys the *)
(* exit command, which had been moved into the shell.                      *)
ConstructFrom(a, e) ==
    /\ ~built /\ stack = <<>> /\ outcome = "none"
    /\ e \notin {a[i] : i \in DOMAIN a}
    /\ \E found \in [DOMAIN a -> BOOLEAN] :
         /\ 1 \in DOMAIN a => ~found[1]
         /\ IF IsRefused(a, found)
              THEN /\ held' = held \ {e}
                   /\ UNCHANGED <<built, commands, exitCommand>>
              ELSE /\ built' = TRUE
                   /\ commands' \in Tables(a)
                   /\ exitCommand' = e
                   /\ held' = held \ ({a[i] : i \in DOMAIN a} \union {e})
    /\ UNCHANGED callVars

Construct == \E a \in Arrays, e \in held \union {None} : ConstructFrom(a, e)

(* Mutant: the keywords are not rejected.                                  *)
AcceptsKeywords(w) == w \notin DOMAIN commands

(* Mutant: a name that is taken is not rejected, and the insertion assigns.*)
AcceptsTakenNames(w) == w \notin Keywords

IsValidCommandName(w) == w \notin Keywords /\ w \notin DOMAIN commands

(* A call with a name that is not valid throws and changes nothing, as     *)
(* does RemoveCommand with an unknown name.                                *)
AddCommand(c) ==
    /\ built /\ ProgramRuns
    /\ c \in held
    /\ IsValidCommandName(NameOf[c])
    /\ commands' = [w \in DOMAIN commands \union {NameOf[c]} |->
                      IF w = NameOf[c] THEN c ELSE commands[w]]
    /\ held' = held \ {c}
    /\ UNCHANGED <<built, exitCommand, callVars>>

(* The iterators to the entries under these names become invalid.          *)
Invalidated(ws) ==
    [i \in DOMAIN stack |->
       IF stack[i].kind = "shell" /\ stack[i].at = "command"
            /\ NameOf[stack[i].cmd] \in ws
         THEN [stack[i] EXCEPT !.entry = FALSE]
         ELSE stack[i]]

RemoveCommand(w) ==
    /\ built /\ ProgramRuns
    /\ w \in DOMAIN commands
    /\ commands' = [v \in DOMAIN commands \ {w} |-> commands[v]]
    /\ held' = held \union {commands[w]}
    /\ stack' = Invalidated({w})
    /\ UNCHANGED <<built, exitCommand, outcome>>

(* Mutant: the previous exit command is not returned.                      *)
DropsPreviousExit(c) ==
    /\ built /\ ProgramRuns
    /\ c \in held \union {None}
    /\ exitCommand' = c
    /\ held' = held \ {c}
    /\ UNCHANGED <<built, commands, callVars>>

SetExitCommand(c) ==
    /\ built /\ ProgramRuns
    /\ c \in held \union {None}
    /\ exitCommand' = c
    /\ held' = (held \ {c}) \union ({exitCommand} \ {None})
    /\ UNCHANGED <<built, commands, callVars>>

(* Destroys the commands of the table.                                     *)
ClearCommands ==
    /\ built /\ ProgramRuns
    /\ commands' = NoCommands
    /\ stack' = Invalidated(DOMAIN commands)
    /\ UNCHANGED <<built, exitCommand, held, outcome>>

-----------------------------------------------------------------------------
(* The loop: run and _process_input.                                       *)

Lines == {<<>>} \union {<<w>> : w \in Words} \union {<<"help", w>> : w \in Words}

Reads(line) == Runs("shell") /\ Top.at = "prompt" /\ line \in Lines

(* The loop goes on with the code a line was answered with.                *)
Answered(code) ==
    Becomes([Top EXCEPT !.at = "prompt", !.cmd = None, !.entry = FALSE, !.code = code])

BlankLine(line) ==
    Reads(line) /\ line = <<>> /\ Answered("not_found") /\ UNCHANGED shellVars

Help(line) ==
    /\ Reads(line) /\ line # <<>> /\ line[1] = "help"
    /\ Len(line) > 1 => line[2] \in DOMAIN commands
    /\ Answered("success")
    /\ UNCHANGED shellVars

(* Help about an unknown command throws, outside of any try block.         *)
HelpUnknown(line) ==
    /\ Reads(line) /\ Len(line) > 1 /\ line[2] \notin DOMAIN commands
    /\ Ends("exception")
    /\ UNCHANGED shellVars

Exit(line) ==
    /\ Reads(line) /\ line # <<>> /\ line[1] = "exit"
    /\ IF exitCommand = None
         THEN Ends("exit")
         ELSE Calls([Top EXCEPT !.at = "exit", !.cmd = exitCommand],
                    CommandFrame(exitCommand))
    /\ UNCHANGED shellVars

NotFound(line) ==
    /\ Reads(line) /\ line # <<>>
    /\ line[1] \notin Keywords \union DOMAIN commands
    /\ Answered("not_found")
    /\ UNCHANGED shellVars

RunCommand(line) ==
    /\ Reads(line) /\ line # <<>>
    /\ line[1] \in DOMAIN commands \ Keywords
    /\ Calls([Top EXCEPT !.at = "command", !.cmd = commands[line[1]], !.entry = TRUE],
             CommandFrame(commands[line[1]]))
    /\ UNCHANGED shellVars

(* Mutant: the loop does not test the code it was answered with.           *)
NeverLeaves ==
    Resumes("shell") /\ outcome \in Codes /\ Answered(outcome) /\ UNCHANGED shellVars

(* Mutant: the loop ends after the exit command, whatever it returned.     *)
LeavesAfterExitCommand ==
    /\ Resumes("shell") /\ outcome \in Codes
    /\ IF outcome = "exit" \/ Top.at = "exit" THEN Ends("exit") ELSE Answered(outcome)
    /\ UNCHANGED shellVars

CommandReturned ==
    /\ Resumes("shell") /\ outcome \in Codes
    /\ IF outcome = "exit" THEN Ends("exit") ELSE Answered(outcome)
    /\ UNCHANGED shellVars

(* The report of an exception names the command through its entry in the   *)
(* table, which the command may have removed.                              *)
CommandThrew ==
    /\ Resumes("shell") /\ Top.at = "command" /\ outcome = "exception"
    /\ IF Top.entry THEN Answered("failure")
                    ELSE outcome' = "undefined" /\ UNCHANGED stack
    /\ UNCHANGED shellVars

(* The exit command is called outside of the try block, and the handler    *)
(* catches std::exception only.                                            *)
ExceptionLeaves ==
    /\ Resumes("shell") /\ outcome \in Raised
    /\ Top.at = "exit" \/ outcome = "foreign"
    /\ Ends(outcome)
    /\ UNCHANGED shellVars
=============================================================================
