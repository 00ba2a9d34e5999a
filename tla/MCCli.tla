------------------------------- MODULE MCCli -------------------------------
(* Cli with four shell commands, two of one name and one named as a        *)
(* keyword is, and a menu that leads to a menu of its size, and from there *)
(* to a sequence, to a sequence inside it and to a smaller menu, for TLC.  *)
EXTENDS Cli, TLC

CONSTANTS draw1, draw2, undo, aid,      \* shell commands
          main, edit, confirm,          \* menus
          open, toEdit, leave,          \* items of main, and its exit command
          paste, macro,                 \* items of edit
          copy, script, toConfirm,      \* parts of the sequences macro and script
          yes                           \* the item of confirm

MCWords         == {"help", "exit", "draw", "undo"}
MCShellCommands == {draw1, draw2, undo, aid}
MCNameOf        == draw1 :> "draw" @@ draw2 :> "draw" @@ undo :> "undo" @@ aid :> "help"

MCMenus     == {main, edit, confirm}
MCCommands  == {open, toEdit, leave, paste, macro, copy, script, toConfirm, yes}
MCItems     == main :> <<open, toEdit>> @@ edit :> <<paste, macro>> @@ confirm :> <<yes>>
MCExitItem  == main :> leave @@ edit :> None @@ confirm :> None
MCInnerMenu == toEdit :> edit @@ toConfirm :> confirm
MCParts     == macro :> <<copy, script>> @@ script :> <<toConfirm, copy>>

Symmetry == Permutations({draw1, draw2})
=============================================================================
