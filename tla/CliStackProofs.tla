--------------------------- MODULE CliStackProofs ----------------------------
(***************************************************************************)
(* Theorems about the shell's table of commands and about the stack of     *)
(* shells, menus, sequences and commands, for any commands, names, menus,  *)
(* sequences, depth and bounds, while commands run, nest and change the    *)
(* table: which entries there are, what waits for what, where an exit code or*)
(* an exception stops, and the entry a shell holds across the command it   *)
(* runs.                                                                   *)
(***************************************************************************)
EXTENDS Cli, SequenceTheorems, TLAPS

(* RegistryAgrees with the types it rests on.                              *)
IInv ==
    /\ commands \in [DOMAIN commands -> ShellCommands]
    /\ exitCommand \in ShellCommands \union {None}
    /\ held \subseteq ShellCommands
    /\ \A w \in DOMAIN commands : NameOf[commands[w]] = w /\ w \notin Keywords
    /\ \A w \in DOMAIN commands : commands[w] \notin held /\ commands[w] # exitCommand
    /\ exitCommand \notin held

LEMMA InvariantAgrees == IInv => RegistryAgrees
BY ShellAssumption DEF IInv, RegistryAgrees, Registered

(* Steps of the loops and of the commands leave the table alone.           *)
LEMMA OthersLeaveTable ==
    ASSUME [Next]_vars, ~RegistryNext
    PROVE  UNCHANGED shellVars
BY DEF Next, vars, RegistryNext, ProgramCalls, CommandEnds, ProgramResumes, Undefined,
       ShellReads, BlankLine, Help, HelpUnknown, Exit, NotFound, RunCommand,
       ShellResumes, CommandReturned, CommandThrew, ExceptionLeaves,
       MenuReads, MenuResumes, SequenceNext

LEMMA InitInvariant == Init => IInv
BY ShellAssumption DEF Init, ShellInit, IInv, NoCommands

LEMMA ConstructInvariant == IInv /\ Construct => IInv'
<1> SUFFICES ASSUME IInv, Construct PROVE IInv'
  OBVIOUS
<1>1. PICK a, e, found :
        /\ a \in Arrays /\ e \in held \union {None}
        /\ e \notin {a[i] : i \in DOMAIN a}
        /\ IF IsRefused(a, found)
             THEN /\ held' = held \ {e}
                  /\ UNCHANGED <<built, commands, exitCommand>>
             ELSE /\ built' = TRUE
                  /\ commands' \in Tables(a)
                  /\ exitCommand' = e
                  /\ held' = held \ ({a[i] : i \in DOMAIN a} \union {e})
  BY DEF Construct, ConstructFrom
<1>2. CASE IsRefused(a, found)
  BY <1>1, <1>2 DEF IInv
<1>3. CASE ~IsRefused(a, found)
  <2>1. \A i \in DOMAIN a : a[i] \in held /\ NameOf[a[i]] \notin Keywords
    BY <1>1, <1>3 DEF Arrays, IsRefused
  <2>2. /\ commands' \in [DOMAIN commands' -> {a[i] : i \in DOMAIN a}]
        /\ \A w \in DOMAIN commands' : \E i \in DOMAIN a :
             commands'[w] = a[i] /\ NameOf[a[i]] = w
    BY <1>1, <1>3 DEF Tables, IsTableOf
  <2>3. e \in ShellCommands \union {None} /\ held' \subseteq ShellCommands
    BY <1>1, <1>3 DEF IInv
  <2>4. exitCommand' = e /\ held' = held \ ({a[i] : i \in DOMAIN a} \union {e})
    BY <1>1, <1>3
  <2>5. commands' \in [DOMAIN commands' -> ShellCommands]
    BY <2>1, <2>2 DEF IInv
  <2>6. \A w \in DOMAIN commands' : NameOf[commands'[w]] = w /\ w \notin Keywords
    BY <2>1, <2>2
  <2>7. \A w \in DOMAIN commands' : commands'[w] \notin held' /\ commands'[w] # e
    BY <1>1, <2>2, <2>4
  <2> QED BY <2>3, <2>4, <2>5, <2>6, <2>7 DEF IInv
<1> QED BY <1>2, <1>3

LEMMA AddInvariant == ASSUME NEW c, IInv, AddCommand(c) PROVE IInv'
<1>1. /\ c \in held /\ NameOf[c] \notin Keywords /\ NameOf[c] \notin DOMAIN commands
      /\ commands' = [w \in DOMAIN commands \union {NameOf[c]} |->
                        IF w = NameOf[c] THEN c ELSE commands[w]]
      /\ held' = held \ {c} /\ exitCommand' = exitCommand
  BY DEF AddCommand, IsValidCommandName
<1> QED BY <1>1 DEF IInv

LEMMA RemoveInvariant == ASSUME NEW w, IInv, RemoveCommand(w) PROVE IInv'
<1>1. /\ w \in DOMAIN commands
      /\ commands' = [v \in DOMAIN commands \ {w} |-> commands[v]]
      /\ held' = held \union {commands[w]} /\ exitCommand' = exitCommand
  BY DEF RemoveCommand
<1>2. \A v \in DOMAIN commands \ {w} : commands[v] # commands[w]
  BY <1>1 DEF IInv
<1> QED BY <1>1, <1>2 DEF IInv

LEMMA SetExitInvariant == ASSUME NEW c, IInv, SetExitCommand(c) PROVE IInv'
<1>1. /\ c \in held \union {None} /\ exitCommand' = c /\ commands' = commands
      /\ held' = (held \ {c}) \union ({exitCommand} \ {None})
  BY DEF SetExitCommand
<1>2. c # exitCommand \/ c = None
  BY <1>1 DEF IInv
<1>3. c \notin held'
  BY <1>1, <1>2, ShellAssumption DEF IInv
<1>4. \A w \in DOMAIN commands : commands[w] # c /\ commands[w] \notin held'
  BY <1>1, ShellAssumption DEF IInv
<1> QED BY <1>1, <1>3, <1>4 DEF IInv

LEMMA ClearInvariant == IInv /\ ClearCommands => IInv'
BY DEF IInv, ClearCommands, NoCommands

LEMMA StepInvariant == IInv /\ [Next]_vars => IInv'
<1> SUFFICES ASSUME IInv, [Next]_vars PROVE IInv'
  OBVIOUS
<1>1. CASE RegistryNext
  BY <1>1, ConstructInvariant, AddInvariant, RemoveInvariant, SetExitInvariant,
     ClearInvariant DEF RegistryNext
<1>2. CASE ~RegistryNext
  BY <1>2, OthersLeaveTable DEF IInv, shellVars
<1> QED BY <1>1, <1>2

LEMMA InductiveInvariant == Spec => []IInv
BY InitInvariant, StepInvariant, PTL DEF Spec

(* In every execution a command stands in the table under its own name,    *)
(* never under a keyword, and has one owner: the shell's add, remove and   *)
(* exchange neither lose nor share a command.                              *)
THEOREM ShellRegistryAgrees == Spec => []RegistryAgrees
BY InductiveInvariant, InvariantAgrees, PTL

(* The steps of the constructed shell, for OnlyClearDestroys.              *)
LEMMA StepKeepsCommands ==
    ASSUME IInv, [Next]_vars, built
    PROVE  Alive \subseteq Alive' \/ (commands' = NoCommands /\ held' = held)
<1>1. CASE ~RegistryNext
  BY <1>1, OthersLeaveTable DEF shellVars, Alive, Registered
<1>2. CASE Construct
  BY <1>2 DEF Construct, ConstructFrom
<1>3. ASSUME NEW c, AddCommand(c) PROVE Alive \subseteq Alive'
  <2>1. /\ c \in held /\ NameOf[c] \notin DOMAIN commands
        /\ commands' = [w \in DOMAIN commands \union {NameOf[c]} |->
                          IF w = NameOf[c] THEN c ELSE commands[w]]
        /\ held' = held \ {c} /\ exitCommand' = exitCommand
    BY <1>3 DEF AddCommand, IsValidCommandName
  <2>2. \A w \in DOMAIN commands : w \in DOMAIN commands' /\ commands'[w] = commands[w]
    BY <2>1
  <2>3. NameOf[c] \in DOMAIN commands' /\ commands'[NameOf[c]] = c
    BY <2>1
  <2> QED BY <2>1, <2>2, <2>3 DEF Alive, Registered
<1>4. ASSUME NEW w, RemoveCommand(w) PROVE Alive \subseteq Alive'
  <2>1. /\ w \in DOMAIN commands
        /\ commands' = [v \in DOMAIN commands \ {w} |-> commands[v]]
        /\ held' = held \union {commands[w]} /\ exitCommand' = exitCommand
    BY <1>4 DEF RemoveCommand
  <2>2. \A v \in DOMAIN commands : v = w \/ (v \in DOMAIN commands' /\ commands'[v] = commands[v])
    BY <2>1
  <2> QED BY <2>1, <2>2 DEF Alive, Registered
<1>5. ASSUME NEW c, SetExitCommand(c) PROVE Alive \subseteq Alive'
  <2>1. /\ c \in held \union {None} /\ exitCommand' = c /\ commands' = commands
        /\ held' = (held \ {c}) \union ({exitCommand} \ {None})
    BY <1>5 DEF SetExitCommand
  <2>2. None \notin held
    BY ShellAssumption DEF IInv
  <2> QED BY <2>1, <2>2 DEF Alive, Registered
<1>6. CASE ClearCommands
  BY <1>6 DEF ClearCommands
<1> QED BY <1>1, <1>2, <1>3, <1>4, <1>5, <1>6 DEF RegistryNext

(* Once the shell is built no step destroys a command, clear_commands      *)
(* apart: what is removed, replaced or refused goes back to the program.   *)
THEOREM ShellOnlyClearDestroys == Spec => OnlyClearDestroys
<1>1. IInv /\ [Next]_vars =>
        [built => \/ Alive \subseteq Alive'
                  \/ commands' = NoCommands /\ held' = held]_vars
  BY StepKeepsCommands
<1> QED BY <1>1, InductiveInvariant, PTL DEF Spec, OnlyClearDestroys

-----------------------------------------------------------------------------
ShellFrames == [kind : {"shell"}, at : {"prompt", "command", "exit"},
                cmd : ShellCommands \union {None}, entry : BOOLEAN,
                code : Codes \ {"exit"}]

MenuFrames == [kind : {"menu"}, of : Menus, options : Menus \union {None},
               choice : Nat, at : {"top", "prompt", "command", "exit"}]

SequenceFrames ==
    {f \in [kind : {"sequence"}, of : DOMAIN Parts, at : Nat] :
       f.at \in 1..(Len(Parts[f.of]) + 1)}

Frames == ShellFrames \union MenuFrames \union SequenceFrames \union ProgramFrames

Outcomes == {"none", "undefined"} \union Codes \union Raised

(* The frame g stands above f: a loop waits for that very call, and a      *)
(* sequence that waits has a command to wait for.                          *)
Waits(f) == IsWaiting(f) /\ (f.kind = "sequence" => f.at <= Len(Parts[f.of]))

Linked(f, g) == IsLoop(f) => Waits(f) /\ IsCalleeOf(g, f)

(* The frame f is on top when the last call ended with o.                  *)
OnTop(f, o) ==
    IsLoop(f) =>
      IF o = "none" THEN f.kind = "sequence" \/ ~IsWaiting(f)
      ELSE Waits(f) /\ (f.kind # "shell" => o \in CommandCodes \union Raised)

WellLinked(s, o) ==
    /\ s \in Seq(Frames) /\ o \in Outcomes
    /\ \A i \in 1..(Len(s) - 1) : Linked(s[i], s[i + 1])
    /\ s # <<>> => OnTop(s[Len(s)], o)

(* A shell that holds an entry runs the command it was found through, and  *)
(* the table t has it under its name.                                      *)
Current(f, t) ==
    f.kind = "shell" /\ f.entry =>
      /\ f.at = "command" /\ f.cmd \in ShellCommands
      /\ NameOf[f.cmd] \in DOMAIN t /\ t[NameOf[f.cmd]] = f.cmd

StackInv ==
    /\ WellLinked(stack, outcome)
    /\ \A i \in 1..Len(stack) : Current(stack[i], commands)

StringsTyped == optionStrings \in [Sizes -> Menus \union {None}]

(* The inductive invariant of the whole.                                   *)
SInv == IInv /\ StackInv /\ StringsTyped /\ built \in BOOLEAN

-----------------------------------------------------------------------------
(* Sequences.                                                              *)

LEMMA AppendIs ==
    ASSUME NEW S, NEW s \in Seq(S), NEW e \in S
    PROVE  /\ Append(s, e) \in Seq(S) /\ Append(s, e) # <<>>
           /\ Len(s) \in Nat /\ Len(Append(s, e)) = Len(s) + 1
           /\ \A i \in 1..Len(s) : Append(s, e)[i] = s[i] /\ s[i] \in S
           /\ Append(s, e)[Len(s) + 1] = e
BY AppendProperties, ElementOfSeq, LenProperties

LEMMA LowerIs ==
    ASSUME NEW S, NEW s \in Seq(S), s # <<>>
    PROVE  LET low == SubSeq(s, 1, Len(s) - 1)
           IN  /\ Len(s) \in Nat \ {0} /\ s[Len(s)] \in S
               /\ low \in Seq(S) /\ Len(low) = Len(s) - 1
               /\ \A i \in 1..(Len(s) - 1) : low[i] = s[i] /\ s[i] \in S
<1> DEFINE low == SubSeq(s, 1, Len(s) - 1)
<1>1. Len(s) \in Nat \ {0}
  BY EmptySeq
<1>2. \A i \in 1..Len(s) : s[i] \in S
  BY ElementOfSeq
<1>3. /\ low \in Seq(S)
      /\ Len(low) = IF 1 <= Len(s) - 1 THEN Len(s) - 1 - 1 + 1 ELSE 0
      /\ \A i \in 1..(Len(s) - 1 - 1 + 1) : low[i] = s[1 + i - 1]
  BY <1>1, <1>2, SubSeqProperties
<1> HIDE DEF low
<1>4. \A i \in 1..(Len(s) - 1) : low[i] = s[i] /\ s[i] \in S
  BY <1>1, <1>2, <1>3
<1>5. Len(s) \in 1..Len(s)
  BY <1>1
<1>6. Len(low) = Len(s) - 1
  <2>1. Len(low) = IF 1 <= Len(s) - 1 THEN Len(s) - 1 - 1 + 1 ELSE 0
    BY <1>3
  <2>2. \A n \in Nat \ {0} : (IF 1 <= n - 1 THEN n - 1 - 1 + 1 ELSE 0) = n - 1
    OBVIOUS
  <2> QED BY <1>1, <2>1, <2>2
<1> QED BY <1>1, <1>2, <1>3, <1>4, <1>5, <1>6 DEF low

-----------------------------------------------------------------------------
(* The ways in which the stack changes.                                    *)

LEMMA TopIs ==
    ASSUME NEW s, NEW o, WellLinked(s, o), s # <<>>
    PROVE  Len(s) \in Nat \ {0} /\ s[Len(s)] \in Frames /\ OnTop(s[Len(s)], o)
BY LowerIs DEF WellLinked

(* A frame that is not a loop, or nothing, calls.                          *)
LEMMA PushLinks ==
    ASSUME NEW s, NEW o, WellLinked(s, o), NEW g \in Frames, OnTop(g, "none"),
           s # <<>> => ~IsLoop(s[Len(s)])
    PROVE  WellLinked(Append(s, g), "none")
<1>1. /\ s \in Seq(Frames) /\ \A i \in 1..(Len(s) - 1) : Linked(s[i], s[i + 1])
  BY DEF WellLinked
<1>2. /\ Append(s, g) \in Seq(Frames) /\ Len(s) \in Nat /\ Len(Append(s, g)) = Len(s) + 1
      /\ \A i \in 1..Len(s) : Append(s, g)[i] = s[i]
      /\ Append(s, g)[Len(s) + 1] = g
  BY <1>1, AppendIs
<1>3. ASSUME NEW i \in 1..(Len(Append(s, g)) - 1)
      PROVE  Linked(Append(s, g)[i], Append(s, g)[i + 1])
  <2>1. i \in 1..Len(s)
    BY <1>2
  <2>2. CASE i = Len(s)
    <3>1. s # <<>>
      BY <2>1, <2>2
    <3> QED BY <1>2, <2>1, <2>2, <3>1 DEF Linked
  <2>3. CASE i # Len(s)
    <3>1. i \in 1..(Len(s) - 1) /\ i + 1 \in 1..Len(s)
      BY <1>2, <2>1, <2>3
    <3> QED BY <1>1, <1>2, <2>1, <3>1
  <2> QED BY <2>2, <2>3
<1>4. Append(s, g)[Len(Append(s, g))] = g
  BY <1>2
<1> QED BY <1>2, <1>3, <1>4 DEF WellLinked, Outcomes

(* The frame f is the frame t after a step of its function: to the caller  *)
(* it is the same call.                                                    *)
SameLoop(f, t) ==
    /\ f \in Frames /\ f.kind = t.kind /\ IsLoop(t)
    /\ t.kind # "shell" => f.of = t.of

LEMMA SameLoopIsCallee ==
    ASSUME NEW c \in Frames, NEW t \in Frames, NEW f, SameLoop(f, t), Linked(c, t)
    PROVE  Linked(c, f)
<1>1. SUFFICES ASSUME IsLoop(c), IsCalleeOf(t, c) PROVE IsCalleeOf(f, c)
  BY DEF Linked
<1>2. t.kind \in {"shell", "menu", "sequence"}
  BY DEF SameLoop, IsLoop
<1>3. \A g : SameCall(t, Run(g)) => SameCall(f, Run(g))
  <2> SUFFICES ASSUME NEW g, SameCall(t, Run(g)) PROVE SameCall(f, Run(g))
    OBVIOUS
  <2>1. t.kind = Run(g).kind /\ t.kind # "command" /\ t.of = Run(g).of
    BY <1>2 DEF SameCall
  <2>2. t.kind # "shell"
    BY <2>1 DEF Run, MenuFrame, SequenceFrame
  <2> QED BY <2>1, <2>2 DEF SameLoop, SameCall
<1>4. c.kind # "shell"
  BY <1>1, <1>2 DEF IsCalleeOf, CommandFrame
<1> QED BY <1>1, <1>3, <1>4 DEF IsCalleeOf

(* The loop on top goes on.                                                *)
LEMMA BecomesLinks ==
    ASSUME NEW s, NEW o, WellLinked(s, o), s # <<>>,
           NEW f, SameLoop(f, s[Len(s)])
    PROVE  LET up == Append(SubSeq(s, 1, Len(s) - 1), f)
           IN  /\ up \in Seq(Frames) /\ Len(up) = Len(s) /\ up[Len(s)] = f
               /\ \A i \in 1..(Len(s) - 1) : up[i] = s[i]
               /\ \A i \in 1..(Len(up) - 1) : Linked(up[i], up[i + 1])
<1> DEFINE low == SubSeq(s, 1, Len(s) - 1)
           up  == Append(low, f)
<1>1. /\ s \in Seq(Frames) /\ f \in Frames
      /\ \A i \in 1..(Len(s) - 1) : Linked(s[i], s[i + 1])
  BY DEF WellLinked, SameLoop
<1>2. /\ Len(s) \in Nat \ {0} /\ s[Len(s)] \in Frames
      /\ low \in Seq(Frames) /\ Len(low) = Len(s) - 1
      /\ \A i \in 1..(Len(s) - 1) : low[i] = s[i] /\ s[i] \in Frames
  BY <1>1, LowerIs
<1> HIDE DEF low
<1>3. /\ up \in Seq(Frames) /\ Len(up) = Len(low) + 1
      /\ \A i \in 1..Len(low) : up[i] = low[i]
      /\ up[Len(low) + 1] = f
  BY <1>1, <1>2, AppendIs
<1> HIDE DEF up
<1>4. /\ Len(up) = Len(s) /\ up[Len(s)] = f
      /\ \A i \in 1..(Len(s) - 1) : up[i] = s[i]
  BY <1>2, <1>3
<1>5. ASSUME NEW i \in 1..(Len(s) - 1) PROVE Linked(up[i], up[i + 1])
  <2>1. Linked(s[i], s[i + 1]) /\ up[i] = s[i] /\ s[i] \in Frames
    BY <1>1, <1>2, <1>4
  <2>2. CASE i = Len(s) - 1
    <3>1. i + 1 = Len(s)
      BY <1>2, <2>2
    <3> QED BY <1>2, <1>4, <2>1, <3>1, SameLoopIsCallee
  <2>3. CASE i # Len(s) - 1
    <3>1. i + 1 \in 1..(Len(s) - 1)
      BY <1>2, <2>3
    <3> QED BY <1>4, <2>1, <3>1
  <2> QED BY <2>2, <2>3
<1> QED BY <1>3, <1>4, <1>5 DEF up, low

LEMMA BecomesKeeps ==
    ASSUME NEW s, NEW o, WellLinked(s, o), s # <<>>,
           NEW f, SameLoop(f, s[Len(s)]), OnTop(f, "none")
    PROVE  WellLinked(Append(SubSeq(s, 1, Len(s) - 1), f), "none")
<1> DEFINE up == Append(SubSeq(s, 1, Len(s) - 1), f)
<1>1. /\ up \in Seq(Frames) /\ Len(up) = Len(s) /\ up[Len(s)] = f
      /\ \A i \in 1..(Len(up) - 1) : Linked(up[i], up[i + 1])
  BY BecomesLinks
<1> HIDE DEF up
<1> QED BY <1>1 DEF WellLinked, Outcomes, up

(* The loop on top calls.                                                  *)
LEMMA CallLinks ==
    ASSUME NEW s, NEW o, WellLinked(s, o), s # <<>>,
           NEW f, SameLoop(f, s[Len(s)]),
           NEW g \in Frames, OnTop(g, "none"), Linked(f, g)
    PROVE  LET up == Append(SubSeq(s, 1, Len(s) - 1), f)
           IN  WellLinked(Append(up, g), "none")
<1> DEFINE up  == Append(SubSeq(s, 1, Len(s) - 1), f)
           top == Append(up, g)
<1>1. /\ up \in Seq(Frames) /\ Len(up) = Len(s) /\ up[Len(s)] = f
      /\ \A i \in 1..(Len(up) - 1) : Linked(up[i], up[i + 1])
  BY BecomesLinks
<1> HIDE DEF up
<1>2. /\ top \in Seq(Frames) /\ Len(up) \in Nat /\ Len(top) = Len(up) + 1
      /\ \A i \in 1..Len(up) : top[i] = up[i]
      /\ top[Len(up) + 1] = g
  BY <1>1, AppendIs
<1> HIDE DEF top
<1>3. ASSUME NEW i \in 1..(Len(top) - 1) PROVE Linked(top[i], top[i + 1])
  <2>1. CASE i = Len(up)
    <3>1. i \in 1..Len(up)
      BY <1>2
    <3> QED BY <1>1, <1>2, <2>1, <3>1
  <2>2. CASE i # Len(up)
    <3>1. i \in 1..(Len(up) - 1) /\ i \in 1..Len(up) /\ i + 1 \in 1..Len(up)
      BY <1>2, <2>2
    <3> QED BY <1>1, <1>2, <3>1
  <2> QED BY <2>1, <2>2
<1>4. top[Len(top)] = g
  BY <1>2
<1> QED BY <1>2, <1>3, <1>4 DEF WellLinked, Outcomes, up, top

(* The frame on top ends with o2, which for a frame that menus and         *)
(* sequences may have called is an answer they know.                       *)
LEMMA EndLinks ==
    ASSUME NEW s, NEW o, WellLinked(s, o), s # <<>>,
           NEW o2 \in Codes \union Raised,
           s[Len(s)].kind \in {"shell", "shell_command"} \/ o2 \in CommandCodes \union Raised
    PROVE  WellLinked(SubSeq(s, 1, Len(s) - 1), o2)
<1> DEFINE low == SubSeq(s, 1, Len(s) - 1)
<1>1. /\ s \in Seq(Frames)
      /\ \A i \in 1..(Len(s) - 1) : Linked(s[i], s[i + 1])
  BY DEF WellLinked
<1>2. /\ Len(s) \in Nat \ {0} /\ low \in Seq(Frames) /\ Len(low) = Len(s) - 1
      /\ \A i \in 1..(Len(s) - 1) : low[i] = s[i]
  BY <1>1, LowerIs
<1> HIDE DEF low
<1>3. \A i \in 1..(Len(low) - 1) : Linked(low[i], low[i + 1])
  <2> SUFFICES ASSUME NEW i \in 1..(Len(low) - 1) PROVE Linked(low[i], low[i + 1])
    OBVIOUS
  <2>1. i \in 1..(Len(s) - 1) /\ i + 1 \in 1..(Len(s) - 1)
    BY <1>2
  <2> QED BY <1>1, <1>2, <2>1
<1>4. ASSUME low # <<>> PROVE OnTop(low[Len(low)], o2)
  <2>1. Len(low) \in 1..(Len(s) - 1) /\ Len(low) + 1 = Len(s)
    BY <1>2, <1>4, EmptySeq
  <2>2. low[Len(low)] = s[Len(low)] /\ Linked(s[Len(low)], s[Len(s)])
    BY <1>1, <1>2, <2>1
  <2>3. ASSUME IsLoop(s[Len(low)]), s[Len(low)].kind # "shell"
        PROVE  s[Len(s)].kind \notin {"shell", "shell_command"}
    <3>1. \A c : Run(c).kind \notin {"shell", "shell_command"}
      BY DEF Run, MenuFrame, SequenceFrame
    <3>2. \E c : SameCall(s[Len(s)], Run(c))
      BY <2>2, <2>3 DEF Linked, IsCalleeOf, IsLoop
    <3> QED BY <3>1, <3>2 DEF SameCall
  <2>4. o2 # "none"
    BY DEF Codes, Raised
  <2> QED BY <2>2, <2>3, <2>4 DEF OnTop, Linked
<1> QED BY <1>2, <1>3, <1>4 DEF WellLinked, Outcomes, low

-----------------------------------------------------------------------------
(* The entries of the shells on the stack.                                 *)

Held(s, t) == \A i \in 1..Len(s) : Current(s[i], t)

LEMMA HeldAppend ==
    ASSUME NEW s \in Seq(Frames), NEW e \in Frames, NEW t, Held(s, t), Current(e, t)
    PROVE  Held(Append(s, e), t)
<1>1. /\ Len(s) \in Nat /\ Len(Append(s, e)) = Len(s) + 1
      /\ \A i \in 1..Len(s) : Append(s, e)[i] = s[i]
      /\ Append(s, e)[Len(s) + 1] = e
  BY AppendIs
<1>2. ASSUME NEW i \in 1..Len(Append(s, e)) PROVE Current(Append(s, e)[i], t)
  <2>1. i \in 1..Len(s) \/ i = Len(s) + 1
    BY <1>1
  <2> QED BY <1>1, <2>1 DEF Held
<1> QED BY <1>2 DEF Held

LEMMA HeldLower ==
    ASSUME NEW s \in Seq(Frames), s # <<>>, NEW t, Held(s, t)
    PROVE  Held(SubSeq(s, 1, Len(s) - 1), t) /\ Current(s[Len(s)], t)
<1> DEFINE low == SubSeq(s, 1, Len(s) - 1)
<1>1. /\ Len(s) \in Nat \ {0} /\ Len(low) = Len(s) - 1
      /\ \A i \in 1..(Len(s) - 1) : low[i] = s[i]
  BY LowerIs
<1> HIDE DEF low
<1>2. Len(s) \in 1..Len(s) /\ 1..Len(low) \subseteq 1..Len(s)
  BY <1>1
<1> QED BY <1>1, <1>2 DEF Held, low

-----------------------------------------------------------------------------
(* The same for the state.                                                 *)

LEMMA StackInvIs ==
    StackInv <=> WellLinked(stack, outcome) /\ Held(stack, commands)
BY DEF StackInv, Held

LEMMA TopFrame ==
    ASSUME StackInv, stack # <<>>
    PROVE  /\ Top \in Frames /\ OnTop(Top, outcome) /\ Current(Top, commands)
           /\ Top.kind = "shell"    => Top \in ShellFrames
           /\ Top.kind = "menu"     => Top \in MenuFrames
           /\ Top.kind = "sequence" => Top \in SequenceFrames
<1>1. Top \in Frames /\ OnTop(Top, outcome)
  BY TopIs DEF StackInv, Top
<1>2. Current(Top, commands)
  BY HeldLower, StackInvIs DEF WellLinked, Top
<1> QED BY <1>1, <1>2 DEF Frames, ShellFrames, MenuFrames, SequenceFrames, ProgramFrames

LEMMA PushKeeps ==
    ASSUME StackInv, NEW g \in Frames, OnTop(g, "none"), Current(g, commands),
           stack # <<>> => ~IsLoop(Top),
           stack' = Append(stack, g), outcome' = "none", commands' = commands
    PROVE  StackInv'
<1>1. WellLinked(stack, outcome) /\ Held(stack, commands)
  BY StackInvIs
<1>2. WellLinked(Append(stack, g), "none")
  BY <1>1, PushLinks DEF Top
<1>3. Held(Append(stack, g), commands)
  BY <1>1, HeldAppend DEF WellLinked
<1> QED BY <1>2, <1>3 DEF StackInv, Held

LEMMA GoesOnKeeps ==
    ASSUME StackInv, stack # <<>>, NEW f, SameLoop(f, Top), OnTop(f, "none"),
           Current(f, commands), Becomes(f), commands' = commands
    PROVE  StackInv'
<1>1. WellLinked(stack, outcome) /\ Held(stack, commands) /\ stack \in Seq(Frames)
  BY StackInvIs DEF WellLinked
<1>2. WellLinked(Append(Below, f), "none")
  BY <1>1, BecomesKeeps DEF Top, Below
<1>3. Below \in Seq(Frames) /\ Held(Below, commands) /\ f \in Frames
  BY <1>1, LowerIs, HeldLower DEF Below, SameLoop
<1>4. Held(Append(Below, f), commands)
  BY <1>3, HeldAppend
<1> QED BY <1>2, <1>4 DEF StackInv, Held, Becomes

LEMMA CallKeeps ==
    ASSUME StackInv, stack # <<>>, NEW f, SameLoop(f, Top), Current(f, commands),
           NEW g \in Frames, OnTop(g, "none"), Current(g, commands), Linked(f, g),
           Calls(f, g), commands' = commands
    PROVE  StackInv'
<1>1. WellLinked(stack, outcome) /\ Held(stack, commands) /\ stack \in Seq(Frames)
  BY StackInvIs DEF WellLinked
<1>2. WellLinked(Append(Append(Below, f), g), "none")
  BY <1>1, CallLinks DEF Top, Below
<1>3. Below \in Seq(Frames) /\ Held(Below, commands) /\ f \in Frames
  BY <1>1, LowerIs, HeldLower DEF Below, SameLoop
<1>4. Append(Below, f) \in Seq(Frames) /\ Held(Append(Below, f), commands)
  BY <1>3, HeldAppend, AppendIs
<1>5. Held(Append(Append(Below, f), g), commands)
  BY <1>4, HeldAppend
<1> QED BY <1>2, <1>5 DEF StackInv, Held, Calls

LEMMA EndKeeps ==
    ASSUME StackInv, stack # <<>>, NEW o \in Codes \union Raised,
           Top.kind \in {"shell", "shell_command"} \/ o \in CommandCodes \union Raised,
           Ends(o), commands' = commands
    PROVE  StackInv'
<1>1. WellLinked(stack, outcome) /\ Held(stack, commands) /\ stack \in Seq(Frames)
  BY StackInvIs DEF WellLinked
<1>2. WellLinked(Below, o)
  BY <1>1, EndLinks DEF Top, Below
<1>3. Held(Below, commands)
  BY <1>1, HeldLower DEF Below
<1> QED BY <1>2, <1>3 DEF StackInv, Held, Ends

-----------------------------------------------------------------------------
(* The frames of calls.                                                    *)

LEMMA RunIs ==
    ASSUME NEW c \in Commands
    PROVE  /\ Run(c) \in Frames /\ OnTop(Run(c), "none")
           /\ Run(c).kind # "shell" /\ SameCall(Run(c), Run(c))
<1>1. CASE c \in DOMAIN InnerMenu
  <2>1. Run(c) = MenuFrame(InnerMenu[c]) /\ InnerMenu[c] \in Menus
    BY <1>1, MenuAssumption DEF Run
  <2> QED BY <2>1 DEF MenuFrame, Frames, MenuFrames, OnTop, IsWaiting, SameCall
<1>2. CASE c \in DOMAIN Parts
  <2>1. Run(c) = SequenceFrame(c)
    BY <1>2, MenuAssumption DEF Run
  <2>2. Len(Parts[c]) \in Nat
    BY <1>2, MenuAssumption, LenProperties
  <2>3. SequenceFrame(c) \in SequenceFrames
    BY <1>2, <2>2 DEF SequenceFrame, SequenceFrames
  <2> QED BY <2>1, <2>3 DEF SequenceFrame, Frames, OnTop, SameCall
<1>3. CASE c \notin DOMAIN InnerMenu \union DOMAIN Parts
  <2>1. Run(c) = [kind |-> "command", cmd |-> c]
    BY <1>3 DEF Run
  <2> QED BY <2>1 DEF Frames, ProgramFrames, OnTop, IsLoop, SameCall
<1> QED BY <1>1, <1>2, <1>3

LEMMA CommandFrameIs ==
    ASSUME NEW c \in ShellCommands
    PROVE  /\ CommandFrame(c) \in Frames /\ CommandFrame(c).kind = "shell_command"
           /\ ~IsLoop(CommandFrame(c))
BY DEF CommandFrame, Frames, ProgramFrames, IsLoop

LEMMA OpenedIs ==
    ASSUME NEW f \in Opened
    PROVE  f \in Frames /\ OnTop(f, "none") /\ Current(f, commands)
<1>1. CASE f \in {MenuFrame(m) : m \in OpenMenus}
  <2>1. PICK m \in Menus : f = MenuFrame(m)
    BY <1>1, CliAssumption
  <2> QED BY <2>1 DEF MenuFrame, Frames, MenuFrames, OnTop, IsWaiting, Current
<1>2. CASE f \in {SequenceFrame(c) : c \in OpenSequences}
  <2>1. PICK c \in DOMAIN Parts : f = SequenceFrame(c)
    BY <1>2, CliAssumption
  <2>2. Len(Parts[c]) \in Nat
    BY MenuAssumption, LenProperties
  <2>3. f \in SequenceFrames
    BY <2>1, <2>2 DEF SequenceFrame, SequenceFrames
  <2> QED BY <2>1, <2>3 DEF SequenceFrame, Frames, OnTop, Current
<1>3. CASE f = ShellFrame
  BY <1>3, ShellAssumption
     DEF ShellFrame, Frames, ShellFrames, OnTop, IsWaiting, Current, Codes
<1> QED BY <1>1, <1>2, <1>3 DEF Opened

-----------------------------------------------------------------------------
(* Erasing entries of the table.                                           *)

Erased(f, ws) ==
    IF f.kind = "shell" /\ f.at = "command" /\ NameOf[f.cmd] \in ws
      THEN [f EXCEPT !.entry = FALSE] ELSE f

LEMMA ErasedIs ==
    ASSUME NEW f \in Frames, NEW ws
    PROVE  /\ Erased(f, ws) \in Frames /\ Erased(f, ws).kind = f.kind
           /\ f.kind # "shell" => Erased(f, ws) = f
           /\ f.kind = "shell" => /\ Erased(f, ws).at = f.at /\ Erased(f, ws).cmd = f.cmd
                                  /\ Erased(f, ws).entry => f.entry
                                  /\ f.at = "command" /\ NameOf[f.cmd] \in ws
                                       => ~Erased(f, ws).entry
<1>1. CASE Erased(f, ws) = f /\ ~(f.kind = "shell" /\ f.at = "command" /\ NameOf[f.cmd] \in ws)
  BY <1>1
<1>2. CASE f.kind = "shell" /\ Erased(f, ws) = [f EXCEPT !.entry = FALSE]
  <2>1. f \in ShellFrames
    BY <1>2 DEF Frames, MenuFrames, SequenceFrames, ProgramFrames
  <2> QED BY <1>2, <2>1 DEF Frames, ShellFrames
<1> QED BY <1>1, <1>2 DEF Erased

LEMMA ErasedLinked ==
    ASSUME NEW f \in Frames, NEW g \in Frames, NEW ws, Linked(f, g)
    PROVE  Linked(Erased(f, ws), Erased(g, ws))
<1> DEFINE f2 == Erased(f, ws)
           g2 == Erased(g, ws)
<1>1. /\ f2.kind = f.kind
      /\ f.kind # "shell" => f2 = f
      /\ f.kind = "shell" => f2.at = f.at /\ f2.cmd = f.cmd
      /\ g2.kind = g.kind
      /\ g.kind # "shell" => g2 = g
  BY ErasedIs
<1> HIDE DEF f2, g2
<1>2. IsLoop(f2) = IsLoop(f) /\ IsWaiting(f2) = IsWaiting(f) /\ Waits(f2) = Waits(f)
  BY <1>1 DEF IsLoop, IsWaiting, Waits
<1>3. ASSUME IsCalleeOf(g, f), IsLoop(f) PROVE IsCalleeOf(g2, f2)
  <2>1. CASE f.kind = "shell"
    <3>1. g = CommandFrame(f.cmd) /\ g.kind = "shell_command"
      BY <1>3, <2>1 DEF IsCalleeOf, CommandFrame
    <3> QED BY <1>1, <2>1, <3>1 DEF IsCalleeOf
  <2>2. CASE f.kind # "shell"
    <3>1. f2 = f
      BY <1>1, <2>2
    <3>2. \E c : SameCall(g, Run(c))
      BY <1>3, <2>2 DEF IsCalleeOf, IsLoop
    <3>3. g.kind # "shell"
      BY <3>2 DEF SameCall, Run, MenuFrame, SequenceFrame
    <3> QED BY <1>1, <1>3, <3>1, <3>3
  <2> QED BY <2>1, <2>2
<1> QED BY <1>2, <1>3 DEF Linked, f2, g2

LEMMA InvalidatedKeeps ==
    ASSUME StackInv, NEW ws,
           stack' = Invalidated(ws), outcome' = outcome,
           \A w \in DOMAIN commands \ ws : w \in DOMAIN commands' /\ commands'[w] = commands[w]
    PROVE  StackInv'
<1>1. stack \in Seq(Frames) /\ outcome \in Outcomes /\ Held(stack, commands)
  BY StackInvIs DEF WellLinked
<1>2. Len(stack) \in Nat /\ DOMAIN stack = 1..Len(stack)
  BY <1>1, LenProperties
<1>3. \A i \in 1..Len(stack) : stack[i] \in Frames
  BY <1>1, ElementOfSeq
<1>4. stack' = [i \in 1..Len(stack) |-> Erased(stack[i], ws)]
  BY <1>2 DEF Invalidated, Erased
<1>5. stack' \in [1..Len(stack) -> Frames]
  BY <1>3, <1>4, ErasedIs
<1>6. stack' \in Seq(Frames)
  BY <1>2, <1>5, SeqDef
<1>7. Len(stack') = Len(stack)
  <2>1. DOMAIN stack' = 1..Len(stack)
    BY <1>5
  <2> QED BY <1>2, <1>6, <2>1, LenProperties
<1>8. ASSUME NEW i \in 1..(Len(stack) - 1) PROVE Linked(stack'[i], stack'[i + 1])
  <2>1. i \in 1..Len(stack) /\ i + 1 \in 1..Len(stack)
    BY <1>2
  <2>2. Linked(stack[i], stack[i + 1])
    BY StackInvIs DEF WellLinked
  <2>3. stack'[i] = Erased(stack[i], ws) /\ stack'[i + 1] = Erased(stack[i + 1], ws)
    BY <1>4, <2>1
  <2> QED BY <1>3, <2>1, <2>2, <2>3, ErasedLinked
<1>9. ASSUME stack' # <<>> PROVE OnTop(stack'[Len(stack)], outcome)
  <2>1. Len(stack) # 0
    BY <1>2, <1>5, <1>6, <1>7, <1>9, EmptySeq
  <2>2. stack # <<>> /\ Len(stack) \in 1..Len(stack)
    BY <1>2, <2>1, EmptySeq
  <2>3. Top \in Frames /\ OnTop(Top, outcome) /\ stack'[Len(stack)] = Erased(Top, ws)
    BY <1>4, <2>2, TopFrame DEF Top
  <2>4. /\ Erased(Top, ws).kind = Top.kind
        /\ Top.kind # "shell" => Erased(Top, ws) = Top
        /\ Top.kind = "shell" => Erased(Top, ws).at = Top.at
    BY <2>3, ErasedIs
  <2> QED BY <2>3, <2>4 DEF OnTop, IsLoop, IsWaiting, Waits
<1>10. ASSUME NEW i \in 1..Len(stack) PROVE Current(stack'[i], commands')
  <2>1. stack'[i] = Erased(stack[i], ws) /\ stack[i] \in Frames /\ Current(stack[i], commands)
    BY <1>1, <1>3, <1>4 DEF Held
  <2>2. ASSUME stack'[i].kind = "shell", stack'[i].entry
        PROVE  /\ stack[i].kind = "shell" /\ stack[i].entry
               /\ stack'[i].at = stack[i].at /\ stack'[i].cmd = stack[i].cmd
               /\ stack[i].at = "command" => NameOf[stack[i].cmd] \notin ws
    BY <2>1, <2>2, ErasedIs
  <2> QED BY <2>1, <2>2 DEF Current
<1> QED BY <1>1, <1>6, <1>7, <1>8, <1>9, <1>10 DEF StackInv, WellLinked

-----------------------------------------------------------------------------
(* The steps of the program and of the table.                              *)

LEMMA SameStack ==
    ASSUME StackInv, stack # <<>>
    PROVE  Append(Below, Top) = stack
<1>1. /\ stack \in Seq(Frames) /\ Len(stack) \in Nat \ {0} /\ Top \in Frames
      /\ Below \in Seq(Frames) /\ Len(Below) = Len(stack) - 1
      /\ \A i \in 1..(Len(stack) - 1) : Below[i] = stack[i]
  BY LowerIs DEF StackInv, WellLinked, Top, Below
<1> DEFINE up == Append(Below, Top)
<1>2. /\ up \in Seq(Frames) /\ Len(up) = Len(Below) + 1
      /\ \A i \in 1..Len(Below) : up[i] = Below[i]
      /\ up[Len(Below) + 1] = Top
  BY <1>1, AppendIs
<1> HIDE DEF up
<1>3. Len(up) = Len(stack)
  BY <1>1, <1>2
<1>4. ASSUME NEW i \in 1..Len(up) PROVE up[i] = stack[i]
  <2>1. CASE i = Len(stack)
    BY <1>1, <1>2, <2>1 DEF Top
  <2>2. CASE i # Len(stack)
    BY <1>1, <1>2, <1>3, <2>2
  <2> QED BY <2>1, <2>2
<1>5. up = stack
  BY <1>1, <1>2, <1>3, <1>4, SeqEqual
<1> QED BY <1>5 DEF up

LEMMA ProgramKeeps ==
    ASSUME StackInv, ProgramCalls \/ CommandEnds \/ ProgramResumes \/ Undefined
    PROVE  StackInv'
<1>1. CASE ProgramCalls
  <2>1. PICK g \in Opened : stack' = Append(stack, g)
    BY <1>1 DEF ProgramCalls
  <2>2. g \in Frames /\ OnTop(g, "none") /\ Current(g, commands)
    BY OpenedIs
  <2>3. outcome' = "none" /\ commands' = commands /\ (stack # <<>> => ~IsLoop(Top))
    BY <1>1 DEF ProgramCalls, ProgramRuns, shellVars, IsLoop
  <2> QED BY <2>1, <2>2, <2>3, PushKeeps
<1>2. CASE CommandEnds
  <2>1. stack # <<>> /\ commands' = commands
    BY <1>2 DEF CommandEnds, Runs, shellVars
  <2>2. PICK o \in Codes \union Raised :
          Ends(o) /\ (Top.kind = "shell_command" \/ o \in CommandCodes \union Raised)
    BY <1>2 DEF CommandEnds, Runs, Codes, CommandCodes
  <2> QED BY <2>1, <2>2, EndKeeps
<1>3. CASE ProgramResumes
  <2>0. commands' = commands
    BY <1>3 DEF ProgramResumes, shellVars
  <2>1. CASE stack = <<>> /\ outcome' = "none" /\ UNCHANGED stack
    BY <2>0, <2>1 DEF StackInv, WellLinked, Outcomes
  <2>2. CASE /\ Resumes("command") \/ Resumes("shell_command")
             /\ Becomes(Top)
    <3>1. stack' = stack /\ outcome' = "none" /\ ~IsLoop(Top)
      BY <2>2, SameStack DEF Becomes, Resumes, IsLoop
    <3> QED BY <2>0, <3>1 DEF StackInv, WellLinked, Outcomes, OnTop, Top
  <2>3. CASE /\ Resumes("command") \/ Resumes("shell_command")
             /\ outcome \in Raised /\ Ends(outcome)
    BY <2>0, <2>3, EndKeeps DEF Resumes
  <2> QED BY <1>3, <2>1, <2>2, <2>3 DEF ProgramResumes
<1>4. CASE Undefined
  BY <1>4 DEF Undefined, vars, callVars, shellVars, StackInv
<1> QED BY <1>1, <1>2, <1>3, <1>4

LEMMA RegistryKeeps == ASSUME IInv, StackInv, RegistryNext PROVE StackInv'
<1>1. CASE Construct
  <2>1. stack = <<>> /\ stack' = <<>> /\ outcome' = outcome
    BY <1>1 DEF Construct, ConstructFrom, callVars
  <2> QED BY <2>1 DEF StackInv, WellLinked
<1>2. ASSUME NEW c, AddCommand(c) PROVE StackInv'
  <2>1. /\ stack' = stack /\ outcome' = outcome
        /\ \A w \in DOMAIN commands : w \in DOMAIN commands' /\ commands'[w] = commands[w]
    BY <1>2 DEF AddCommand, IsValidCommandName, callVars
  <2> QED BY <2>1 DEF StackInv, Current
<1>3. ASSUME NEW w, RemoveCommand(w) PROVE StackInv'
  <2>1. /\ stack' = Invalidated({w}) /\ outcome' = outcome
        /\ \A v \in DOMAIN commands \ {w} : v \in DOMAIN commands' /\ commands'[v] = commands[v]
    BY <1>3 DEF RemoveCommand
  <2> QED BY <2>1, InvalidatedKeeps
<1>4. ASSUME NEW c, SetExitCommand(c) PROVE StackInv'
  BY <1>4 DEF SetExitCommand, callVars, StackInv
<1>5. CASE ClearCommands
  <2>1. stack' = Invalidated(DOMAIN commands) /\ outcome' = outcome
    BY <1>5 DEF ClearCommands
  <2> QED BY <2>1, InvalidatedKeeps
<1> QED BY <1>1, <1>2, <1>3, <1>4, <1>5 DEF RegistryNext

-----------------------------------------------------------------------------
(* The steps of the shell's loop.                                          *)

LEMMA AnsweredKeeps ==
    ASSUME StackInv, stack # <<>>, Top.kind = "shell", NEW code \in Codes \ {"exit"},
           Answered(code), commands' = commands
    PROVE  StackInv'
<1> DEFINE f == [Top EXCEPT !.at = "prompt", !.cmd = None, !.entry = FALSE, !.code = code]
<1>1. Top \in ShellFrames
  BY TopFrame
<1>2. /\ f \in ShellFrames /\ f.kind = Top.kind /\ f.at = "prompt" /\ f.entry = FALSE
  BY <1>1 DEF ShellFrames
<1>3. Becomes(f)
  BY DEF Answered
<1> HIDE DEF f
<1>4. SameLoop(f, Top) /\ OnTop(f, "none") /\ Current(f, commands)
  BY <1>2 DEF SameLoop, Frames, IsLoop, OnTop, IsWaiting, Current
<1> QED BY <1>3, <1>4, GoesOnKeeps

(* A shell that calls the command c: as its exit command, or through its   *)
(* entry in the table.                                                     *)
LEMMA ShellCallKeeps ==
    ASSUME StackInv, Runs("shell"), NEW c \in ShellCommands, NEW f,
           \/ f = [Top EXCEPT !.at = "exit", !.cmd = c] /\ Top.at = "prompt"
           \/ /\ f = [Top EXCEPT !.at = "command", !.cmd = c, !.entry = TRUE]
              /\ NameOf[c] \in DOMAIN commands /\ commands[NameOf[c]] = c,
           Calls(f, CommandFrame(c)), commands' = commands
    PROVE  StackInv'
<1>1. stack # <<>> /\ Top.kind = "shell" /\ Top \in ShellFrames /\ Current(Top, commands)
  BY TopFrame DEF Runs
<1>2. f \in ShellFrames /\ f.kind = "shell" /\ f.at \in {"exit", "command"} /\ f.cmd = c
  BY <1>1 DEF ShellFrames
<1>3. f.entry => /\ f.at = "command"
                 /\ NameOf[c] \in DOMAIN commands /\ commands[NameOf[c]] = c
  BY <1>1 DEF ShellFrames, Current
<1>4. SameLoop(f, Top) /\ Linked(f, CommandFrame(c)) /\ Current(f, commands)
  BY <1>1, <1>2, <1>3
     DEF SameLoop, Frames, IsLoop, Linked, Waits, IsWaiting, IsCalleeOf, Current
<1>5. /\ CommandFrame(c) \in Frames /\ OnTop(CommandFrame(c), "none")
      /\ Current(CommandFrame(c), commands)
  BY CommandFrameIs DEF OnTop, Current
<1> QED BY <1>1, <1>4, <1>5, CallKeeps

LEMMA ShellReadsKeeps == ASSUME IInv, StackInv, ShellReads PROVE StackInv'
<1>1. PICK line \in Lines :
         \/ BlankLine(line)  \/ Help(line)     \/ HelpUnknown(line)
         \/ Exit(line)       \/ NotFound(line) \/ RunCommand(line)
  BY DEF ShellReads
<1>2. Runs("shell") /\ stack # <<>> /\ Top.kind = "shell" /\ Top.at = "prompt" /\ commands' = commands
  BY <1>1 DEF BlankLine, Help, HelpUnknown, Exit, NotFound, RunCommand, Reads, Runs, shellVars
<1>3. CASE BlankLine(line) \/ Help(line) \/ NotFound(line)
  <2>1. Answered("not_found") \/ Answered("success")
    BY <1>3 DEF BlankLine, Help, NotFound
  <2> QED BY <1>2, <2>1, AnsweredKeeps DEF Codes
<1>4. CASE HelpUnknown(line)
  <2>1. Ends("exception")
    BY <1>4 DEF HelpUnknown
  <2> QED BY <1>2, <2>1, EndKeeps DEF Raised
<1>5. CASE Exit(line)
  <2>1. CASE exitCommand = None
    <3>1. Ends("exit")
      BY <1>5, <2>1 DEF Exit
    <3> QED BY <1>2, <3>1, EndKeeps DEF Codes
  <2>2. CASE exitCommand # None
    <3>1. exitCommand \in ShellCommands
      BY <2>2 DEF IInv
    <3>2. Calls([Top EXCEPT !.at = "exit", !.cmd = exitCommand], CommandFrame(exitCommand))
      BY <1>5, <2>2 DEF Exit
    <3> QED BY <1>2, <3>1, <3>2, ShellCallKeeps
  <2> QED BY <2>1, <2>2
<1>6. CASE RunCommand(line)
  <2> DEFINE c == commands[line[1]]
  <2>1. line[1] \in DOMAIN commands
    BY <1>6 DEF RunCommand
  <2>2. c \in ShellCommands /\ NameOf[c] = line[1]
    BY <2>1 DEF IInv
  <2>3. Calls([Top EXCEPT !.at = "command", !.cmd = c, !.entry = TRUE], CommandFrame(c))
    BY <1>6 DEF RunCommand
  <2>4. NameOf[c] \in DOMAIN commands /\ commands[NameOf[c]] = c
    BY <2>1, <2>2
  <2> HIDE DEF c
  <2> QED BY <1>2, <2>2, <2>3, <2>4, ShellCallKeeps
<1> QED BY <1>1, <1>3, <1>4, <1>5, <1>6

LEMMA ShellResumesKeeps == ASSUME StackInv, ShellResumes PROVE StackInv'
<1>1. Resumes("shell") /\ stack # <<>> /\ Top.kind = "shell" /\ commands' = commands
  BY DEF ShellResumes, CommandReturned, CommandThrew, ExceptionLeaves, Resumes, shellVars
<1>2. CASE CommandReturned
  <2>1. CASE outcome = "exit"
    <3>1. Ends("exit")
      BY <1>2, <2>1 DEF CommandReturned
    <3> QED BY <1>1, <3>1, EndKeeps DEF Codes
  <2>2. CASE outcome # "exit"
    <3>1. outcome \in Codes \ {"exit"} /\ Answered(outcome)
      BY <1>2, <2>2 DEF CommandReturned
    <3> QED BY <1>1, <3>1, AnsweredKeeps
  <2> QED BY <2>1, <2>2
<1>3. CASE CommandThrew
  <2>1. CASE Answered("failure")
    BY <1>1, <2>1, AnsweredKeeps DEF Codes
  <2>2. CASE outcome' = "undefined" /\ UNCHANGED stack
    <3>1. OnTop(Top, "undefined")
      <4>1. outcome # "none" /\ OnTop(Top, outcome)
        BY <1>1, TopFrame DEF Resumes
      <4> QED BY <1>1, <4>1 DEF OnTop
    <3> QED BY <1>1, <2>2, <3>1 DEF StackInv, WellLinked, Outcomes, Top
  <2> QED BY <1>3, <2>1, <2>2 DEF CommandThrew
<1>4. CASE ExceptionLeaves
  <2>1. Ends(outcome) /\ outcome \in Raised
    BY <1>4 DEF ExceptionLeaves
  <2> QED BY <1>1, <2>1, EndKeeps
<1> QED BY <1>2, <1>3, <1>4 DEF ShellResumes

-----------------------------------------------------------------------------
(* The steps of the menus' loops.                                          *)

LEMMA MenuCallKeeps ==
    ASSUME StackInv, Runs("menu"), NEW c \in Commands, NEW f \in MenuFrames,
           f.of = Top.of,
           \/ f.at = "exit" /\ c = ExitItem[f.of]
           \/ f.at = "command" /\ c = Items[f.of][f.choice],
           Calls(f, Run(c)), commands' = commands
    PROVE  StackInv'
<1>1. stack # <<>> /\ Top.kind = "menu" /\ f.kind = "menu"
  BY DEF Runs, MenuFrames
<1>2. SameLoop(f, Top) /\ Current(f, commands)
  BY <1>1 DEF SameLoop, Frames, IsLoop, Current
<1>3. /\ Run(c) \in Frames /\ OnTop(Run(c), "none") /\ SameCall(Run(c), Run(c))
      /\ Current(Run(c), commands)
  BY RunIs DEF Current
<1>4. Linked(f, Run(c))
  BY <1>1, <1>3 DEF Linked, Waits, IsWaiting, IsCalleeOf
<1> QED BY <1>1, <1>2, <1>3, <1>4, CallKeeps

(* A menu on top that goes on, without waiting for a call.                 *)
LEMMA MenuGoesOnKeeps ==
    ASSUME StackInv, stack # <<>>, Top.kind = "menu", NEW f \in MenuFrames,
           f.of = Top.of, f.at \in {"top", "prompt"}, Becomes(f), commands' = commands
    PROVE  StackInv'
<1>1. f.kind = "menu"
  BY DEF MenuFrames
<1>2. SameLoop(f, Top) /\ OnTop(f, "none") /\ Current(f, commands)
  BY <1>1 DEF SameLoop, Frames, IsLoop, OnTop, IsWaiting, Current
<1> QED BY <1>2, GoesOnKeeps

LEMMA PrintMenuKeeps ==
    ASSUME StackInv, StringsTyped, PrintMenu, commands' = commands
    PROVE  StackInv' /\ StringsTyped'
<1> DEFINE n   == Len(Items[Top.of])
           now == IF optionStrings[n] = None THEN Top.of ELSE optionStrings[n]
           f   == [Top EXCEPT !.at = "prompt", !.options = now]
<1>1. /\ stack # <<>> /\ Top.kind = "menu"
      /\ optionStrings' = [optionStrings EXCEPT ![n] = now] /\ Becomes(f)
  BY DEF PrintMenu, Runs
<1>2. Top \in MenuFrames
  BY <1>1, TopFrame
<1>3. n \in Sizes /\ Top.of \in Menus
  BY <1>2 DEF MenuFrames, Sizes
<1>4. now \in Menus \union {None}
  BY <1>3 DEF StringsTyped
<1> HIDE DEF now
<1>5. f \in MenuFrames /\ f.of = Top.of /\ f.at = "prompt"
  BY <1>2, <1>4 DEF MenuFrames
<1> HIDE DEF f, n
<1>6. StackInv'
  BY <1>1, <1>5, MenuGoesOnKeeps
<1>7. StringsTyped'
  BY <1>1, <1>3, <1>4 DEF StringsTyped
<1> QED BY <1>6, <1>7

LEMMA MenuReadsKeeps ==
    ASSUME StackInv, StringsTyped, MenuReads PROVE StackInv' /\ StringsTyped'
<1>1. Runs("menu") /\ stack # <<>> /\ Top.kind = "menu" /\ commands' = commands
  BY DEF MenuReads, PrintMenu, Runs, shellVars
<1>2. Top \in MenuFrames /\ Top.of \in Menus
  BY <1>1, TopFrame DEF MenuFrames
<1>3. CASE PrintMenu
  BY <1>1, <1>3, PrintMenuKeeps
<1>4. ASSUME NEW answer, AskAgain(answer) PROVE StackInv' /\ StringsTyped'
  BY <1>1, <1>4 DEF AskAgain, callVars, StackInv, StringsTyped
<1>5. ASSUME NEW answer, PromptThrows(answer) PROVE StackInv' /\ StringsTyped'
  <2>1. Ends("exception") /\ optionStrings' = optionStrings
    BY <1>5 DEF PromptThrows
  <2>2. StackInv'
    BY <1>1, <2>1, EndKeeps DEF Raised
  <2> QED BY <2>1, <2>2 DEF StringsTyped
<1>6. ASSUME NEW answer, ChooseExit(answer) PROVE StackInv' /\ StringsTyped'
  <2>1. optionStrings' = optionStrings
    BY <1>6 DEF ChooseExit
  <2>2. CASE ExitItem[Top.of] = None
    <3>1. Ends("success")
      BY <1>6, <2>2 DEF ChooseExit
    <3>2. StackInv'
      BY <1>1, <3>1, EndKeeps DEF CommandCodes, Codes
    <3> QED BY <2>1, <3>2 DEF StringsTyped
  <2>3. CASE ExitItem[Top.of] # None
    <3> DEFINE f == [Top EXCEPT !.at = "exit"]
               c == ExitItem[Top.of]
    <3>1. c \in Commands
      BY <1>2, <2>3, MenuAssumption
    <3>2. f \in MenuFrames /\ f.of = Top.of /\ f.at = "exit"
      BY <1>2 DEF MenuFrames
    <3>3. Calls(f, Run(c))
      BY <1>6, <2>3 DEF ChooseExit
    <3>4. c = ExitItem[f.of]
      BY <3>2
    <3> HIDE DEF f, c
    <3>5. StackInv'
      BY <1>1, <3>1, <3>2, <3>3, <3>4, MenuCallKeeps
    <3> QED BY <2>1, <3>5 DEF StringsTyped
  <2> QED BY <2>2, <2>3
<1>7. ASSUME NEW answer, ChooseItem(answer) PROVE StackInv' /\ StringsTyped'
  <2>1. optionStrings' = optionStrings
    BY <1>7 DEF ChooseItem
  <2>2. Items[Top.of] \in Seq(Commands) /\ Len(Items[Top.of]) \in Nat
    BY <1>2, MenuAssumption, LenProperties
  <2>3. answer.value \in 1..Len(Items[Top.of])
    <3>1. /\ answer.kind = "number" /\ answer.value >= 0 /\ answer.value # 0
          /\ answer.value <= Len(Items[Top.of]) /\ answer \in Answers(Len(Items[Top.of]))
      BY <1>7 DEF ChooseItem, AtPrompt, Chosen, InBounds
    <3>2. answer.value \in -1..(Len(Items[Top.of]) + 1)
      BY <3>1 DEF Answers
    <3> QED BY <2>2, <3>1, <3>2
  <2> DEFINE f == [Top EXCEPT !.at = "command", !.choice = answer.value]
             c == Items[Top.of][answer.value]
  <2>4. c \in Commands
    BY <2>2, <2>3, ElementOfSeq
  <2>5. answer.value \in Nat
    BY <2>2, <2>3
  <2>6. f \in MenuFrames /\ f.of = Top.of /\ f.at = "command" /\ f.choice = answer.value
    BY <1>2, <2>5 DEF MenuFrames
  <2>7. Calls(f, Run(c)) /\ c = Items[f.of][f.choice]
    BY <1>7, <2>6 DEF ChooseItem
  <2> HIDE DEF f, c
  <2>8. StackInv'
    BY <1>1, <2>4, <2>6, <2>7, MenuCallKeeps
  <2> QED BY <2>1, <2>8 DEF StringsTyped
<1> QED BY <1>3, <1>4, <1>5, <1>6, <1>7 DEF MenuReads

LEMMA MenuResumesKeeps ==
    ASSUME StackInv, StringsTyped, MenuResumes PROVE StackInv' /\ StringsTyped'
<1>1. /\ stack # <<>> /\ Top.kind = "menu" /\ commands' = commands
      /\ optionStrings' = optionStrings
  BY DEF MenuResumes, ItemEnded, ExitItemEnded, ExceptionLeavesMenu, Resumes, shellVars
<1>2. CASE ItemEnded
  <2> DEFINE f == [Top EXCEPT !.at = "top", !.options = None, !.choice = 0]
  <2>1. Becomes(f) /\ Top \in MenuFrames
    BY <1>1, <1>2, TopFrame DEF ItemEnded
  <2>2. f \in MenuFrames /\ f.of = Top.of /\ f.at = "top"
    BY <2>1 DEF MenuFrames
  <2> HIDE DEF f
  <2>3. StackInv'
    BY <1>1, <2>1, <2>2, MenuGoesOnKeeps
  <2> QED BY <1>1, <2>3 DEF StringsTyped
<1>3. CASE ExitItemEnded
  <2>1. Ends("success")
    BY <1>3 DEF ExitItemEnded
  <2>2. StackInv'
    BY <1>1, <2>1, EndKeeps DEF CommandCodes, Codes
  <2> QED BY <1>1, <2>2 DEF StringsTyped
<1>4. CASE ExceptionLeavesMenu
  <2>1. Ends(outcome) /\ outcome \in Raised
    BY <1>4 DEF ExceptionLeavesMenu
  <2>2. StackInv'
    BY <1>1, <2>1, EndKeeps
  <2> QED BY <1>1, <2>2 DEF StringsTyped
<1> QED BY <1>2, <1>3, <1>4 DEF MenuResumes

-----------------------------------------------------------------------------
(* The steps of the sequences' loops.                                      *)

LEMMA SequenceKeeps ==
    ASSUME StackInv, StringsTyped, SequenceNext PROVE StackInv' /\ StringsTyped'
<1>1. /\ stack # <<>> /\ Top.kind = "sequence" /\ commands' = commands
      /\ optionStrings' = optionStrings
  BY DEF SequenceNext, RunPart, PartSucceeded, PartFailed, Resumes, Runs, shellVars
<1>2. /\ Top \in SequenceFrames /\ Top \in Frames /\ OnTop(Top, outcome)
      /\ Current(Top, commands) /\ IsLoop(Top)
  BY <1>1, TopFrame DEF IsLoop
<1>3. /\ Top.of \in DOMAIN Parts /\ Parts[Top.of] \in Seq(Commands)
      /\ Len(Parts[Top.of]) \in Nat /\ Top.at \in 1..(Len(Parts[Top.of]) + 1)
  BY <1>2, MenuAssumption, LenProperties DEF SequenceFrames
<1>4. CASE RunPart
  <2>1. CASE Finished
    <3>1. Ends("success")
      BY <1>4, <2>1 DEF RunPart
    <3> QED BY <1>1, <3>1, EndKeeps DEF CommandCodes, Codes, StringsTyped
  <2>2. CASE ~Finished
    <3> DEFINE c == Parts[Top.of][Top.at]
    <3>1. Calls(Top, Run(c))
      BY <1>4, <2>2 DEF RunPart
    <3>2. Top.at \in 1..Len(Parts[Top.of])
      BY <1>3, <2>2 DEF Finished
    <3>3. c \in Commands
      BY <1>3, <3>2, ElementOfSeq
    <3> HIDE DEF c
    <3>4. /\ Run(c) \in Frames /\ OnTop(Run(c), "none") /\ SameCall(Run(c), Run(c))
          /\ Current(Run(c), commands)
      BY <3>3, RunIs DEF Current
    <3>5. Top.at <= Len(Parts[Top.of])
      BY <1>3, <3>2
    <3>6. Linked(Top, Run(c)) /\ SameLoop(Top, Top)
      BY <1>1, <1>2, <3>4, <3>5 DEF Linked, Waits, IsWaiting, IsCalleeOf, SameLoop, c
    <3>7. StackInv'
      BY <1>1, <1>2, <3>1, <3>4, <3>6, CallKeeps
    <3> QED BY <1>1, <3>7 DEF StringsTyped
  <2> QED BY <2>1, <2>2
<1>5. CASE PartSucceeded
  <2> DEFINE f == [Top EXCEPT !.at = @ + 1]
  <2>1. Becomes(f) /\ outcome = "success"
    BY <1>5 DEF PartSucceeded
  <2>2. Top.at <= Len(Parts[Top.of])
    BY <1>1, <1>2, <2>1 DEF OnTop, Waits
  <2>3. Top.at + 1 \in 1..(Len(Parts[Top.of]) + 1) /\ Top.at + 1 \in Nat
    BY <1>3, <2>2
  <2>4. f \in SequenceFrames /\ f.of = Top.of /\ f.kind = "sequence"
    BY <1>2, <2>3 DEF SequenceFrames
  <2> HIDE DEF f
  <2>5. SameLoop(f, Top) /\ OnTop(f, "none") /\ Current(f, commands)
    BY <1>1, <1>2, <2>4 DEF SameLoop, Frames, OnTop, Current
  <2>6. StackInv'
    BY <1>1, <2>1, <2>5, GoesOnKeeps
  <2> QED BY <1>1, <2>6 DEF StringsTyped
<1>6. CASE PartFailed
  <2> DEFINE o == IF outcome = "exception" THEN "failure" ELSE outcome
  <2>1. Ends(o) /\ outcome # "none"
    BY <1>6 DEF PartFailed, Resumes
  <2>2. outcome \in CommandCodes \union Raised
    BY <1>1, <1>2, <2>1 DEF OnTop
  <2>3. o \in Codes \union Raised /\ o \in CommandCodes \union Raised
    BY <2>2 DEF CommandCodes, Codes
  <2> HIDE DEF o
  <2>4. StackInv'
    BY <1>1, <2>1, <2>3, EndKeeps
  <2> QED BY <1>1, <2>4 DEF StringsTyped
<1> QED BY <1>4, <1>5, <1>6 DEF SequenceNext

-----------------------------------------------------------------------------
(* The invariant of the stack.                                             *)

LEMMA OthersLeaveStrings ==
    ASSUME [Next]_vars, ~MenuReads, ~MenuResumes, ~SequenceNext
    PROVE  optionStrings' = optionStrings
BY DEF Next, vars, ProgramCalls, CommandEnds, ProgramResumes, Undefined,
       RegistryNext, ShellReads, ShellResumes

LEMMA InitStack == Init => StackInv /\ StringsTyped /\ built \in BOOLEAN
<1> SUFFICES ASSUME Init PROVE StackInv /\ StringsTyped /\ built \in BOOLEAN
  OBVIOUS
<1>1. stack = <<>> /\ outcome = "none" /\ Len(stack) = 0 /\ stack \in Seq(Frames)
  BY EmptySeq DEF Init
<1>2. 1..Len(stack) = {} /\ 1..(Len(stack) - 1) = {}
  BY <1>1
<1>3. StackInv
  BY <1>1, <1>2 DEF StackInv, WellLinked, Outcomes
<1>4. StringsTyped /\ built \in BOOLEAN
  BY DEF Init, ShellInit, MenuInit, StringsTyped
<1> QED BY <1>3, <1>4

LEMMA StepStack == SInv /\ [Next]_vars => SInv'
<1> SUFFICES ASSUME SInv, [Next]_vars PROVE SInv'
  OBVIOUS
<1>1. IInv /\ IInv' /\ StackInv /\ StringsTyped /\ built \in BOOLEAN
  BY StepInvariant DEF SInv
<1>2. StackInv'
  BY <1>1, ProgramKeeps, RegistryKeeps, ShellReadsKeeps, ShellResumesKeeps, MenuReadsKeeps,
     MenuResumesKeeps, SequenceKeeps DEF Next, vars, callVars, shellVars, StackInv
<1>3. StringsTyped'
  BY <1>1, OthersLeaveStrings, MenuReadsKeeps, MenuResumesKeeps, SequenceKeeps
     DEF StringsTyped
<1>4. built' \in BOOLEAN
  <2>1. CASE RegistryNext
    BY <1>1, <2>1 DEF RegistryNext, Construct, ConstructFrom, AddCommand, RemoveCommand,
       SetExitCommand, ClearCommands
  <2>2. CASE ~RegistryNext
    BY <1>1, <2>2, OthersLeaveTable DEF shellVars
  <2> QED BY <2>1, <2>2
<1> QED BY <1>1, <1>2, <1>3, <1>4 DEF SInv

LEMMA StackInvariant == Spec => []SInv
<1>1. Init => SInv
  BY InitInvariant, InitStack DEF SInv
<1> QED BY <1>1, StepStack, PTL DEF Spec

-----------------------------------------------------------------------------
(* The theorems.                                                           *)

(* Every frame, however deep, has the local variables of its function; the *)
(* shell's code is never exit while its loop goes on; the tables hold      *)
(* commands and menus.                                                     *)
THEOREM CliTypeCorrect == Spec => []TypeOK
<1>1. SInv => TypeOK
  <2> SUFFICES ASSUME SInv PROVE TypeOK
    OBVIOUS
  <2>1. IInv /\ StackInv /\ StringsTyped /\ built \in BOOLEAN
    BY DEF SInv
  <2>2. DOMAIN commands \subseteq Words /\ Registered \subseteq ShellCommands
    BY <2>1, ShellAssumption DEF IInv, Registered
  <2>3. stack \in Seq(Frames) /\ outcome \in Outcomes
    BY <2>1 DEF StackInv, WellLinked
  <2>4. ASSUME NEW i \in DOMAIN stack
        PROVE  CASE stack[i].kind = "shell" ->
                      stack[i] \in [kind : {"shell"}, at : {"prompt", "command", "exit"},
                                    cmd : ShellCommands \union {None}, entry : BOOLEAN,
                                    code : Codes \ {"exit"}]
                 [] stack[i].kind = "menu" ->
                      stack[i] \in [kind : {"menu"}, of : Menus, options : Menus \union {None},
                                    choice : Nat, at : {"top", "prompt", "command", "exit"}]
                 [] stack[i].kind = "sequence" ->
                      /\ stack[i].of \in DOMAIN Parts
                      /\ stack[i].at \in 1..(Len(Parts[stack[i].of]) + 1)
                 [] OTHER -> stack[i] \in ProgramFrames
    <3> DEFINE f == stack[i]
    <3>1. f \in Frames
      BY <2>3, <2>4, LenProperties, ElementOfSeq
    <3> HIDE DEF f
    <3>2. /\ f.kind = "shell"    => f \in ShellFrames
          /\ f.kind = "menu"     => f \in MenuFrames
          /\ f.kind = "sequence" => f \in SequenceFrames
          /\ f.kind \notin {"shell", "menu", "sequence"} => f \in ProgramFrames
      BY <3>1 DEF Frames, ShellFrames, MenuFrames, SequenceFrames, ProgramFrames
    <3>3. CASE f.kind = "shell"
      BY <3>2, <3>3 DEF ShellFrames, f
    <3>4. CASE f.kind = "menu"
      BY <3>2, <3>4 DEF MenuFrames, f
    <3>5. CASE f.kind = "sequence"
      BY <3>2, <3>5 DEF SequenceFrames, f
    <3>6. CASE f.kind \notin {"shell", "menu", "sequence"}
      BY <3>2, <3>6 DEF f
    <3> QED BY <3>3, <3>4, <3>5, <3>6
  <2> QED BY <2>1, <2>2, <2>3, <2>4 DEF TypeOK, Outcomes, IInv, StringsTyped
<1> QED BY <1>1, StackInvariant, PTL

(* A loop that is not on top waits for exactly the call above it, to any   *)
(* depth of shells, menus and sequences in one another, and an answer that *)
(* comes back is one that the loop's code knows.                           *)
THEOREM CallsAlwaysMatch == Spec => []CallsMatch
<1>1. SInv => CallsMatch
  <2> SUFFICES ASSUME SInv PROVE CallsMatch
    OBVIOUS
  <2>1. StackInv
    BY DEF SInv
  <2>2. \A i \in 1..(Len(stack) - 1) : IsLoop(stack[i]) =>
          IsWaiting(stack[i]) /\ IsCalleeOf(stack[i + 1], stack[i])
    BY <2>1 DEF StackInv, WellLinked, Linked, Waits
  <2>3. stack # <<>> => OnTop(Top, outcome)
    BY <2>1, TopFrame
  <2> QED BY <2>2, <2>3 DEF CallsMatch, OnTop, Waits
<1> QED BY <1>1, StackInvariant, PTL

(* Whatever the running commands do to the table, a shell that still has   *)
(* the entry it found its command through finds that command in it.        *)
THEOREM EntriesStayCurrent == Spec => []RunningEntryIsCurrent
<1>1. SInv => RunningEntryIsCurrent
  <2> SUFFICES ASSUME SInv PROVE RunningEntryIsCurrent
    OBVIOUS
  <2>1. StackInv /\ DOMAIN stack = 1..Len(stack)
    BY LenProperties DEF SInv, StackInv, WellLinked
  <2> QED BY <2>1 DEF RunningEntryIsCurrent, StackInv, Current
<1> QED BY <1>1, StackInvariant, PTL

-----------------------------------------------------------------------------
(* The steps that end a call.                                              *)

LEMMA LongerAppend ==
    ASSUME NEW S, NEW s \in Seq(S), NEW e
    PROVE  Append(s, e) \in Seq(S \union {e}) /\ Len(Append(s, e)) = Len(s) + 1
<1>1. s \in Seq(S \union {e})
  BY SeqMonotonic
<1> QED BY <1>1, AppendProperties

LEMMA OnlyEndsEnd ==
    ASSUME StackInv, stack # <<>>
    PROVE  /\ stack # Below
           /\ \A g : Append(stack, g) # Below
           /\ \A f : Append(Below, f) # Below
           /\ \A f, g : Append(Append(Below, f), g) # Below
           /\ \A ws : Invalidated(ws) # Below
<1>1. /\ stack \in Seq(Frames) /\ Len(stack) \in Nat \ {0}
      /\ Below \in Seq(Frames) /\ Len(Below) = Len(stack) - 1
  BY LowerIs DEF StackInv, WellLinked, Below
<1>2. \A f : Len(Append(stack, f)) = Len(stack) + 1
  BY <1>1, LongerAppend
<1>3. \A f : Len(Append(Below, f)) = Len(Below) + 1
  BY <1>1, LongerAppend
<1>4. \A f, g : Len(Append(Append(Below, f), g)) = Len(Below) + 2
  <2> SUFFICES ASSUME NEW f, NEW g PROVE Len(Append(Append(Below, f), g)) = Len(Below) + 2
    OBVIOUS
  <2>1. Append(Below, f) \in Seq(Frames \union {f}) /\ Len(Append(Below, f)) = Len(Below) + 1
    BY <1>1, LongerAppend
  <2>2. Len(Append(Append(Below, f), g)) = Len(Append(Below, f)) + 1
    BY <2>1, LongerAppend
  <2> QED BY <1>1, <2>1, <2>2
<1>5. \A ws : DOMAIN Invalidated(ws) # DOMAIN Below
  <2>1. DOMAIN stack = 1..Len(stack) /\ DOMAIN Below = 1..(Len(stack) - 1)
    BY <1>1, LenProperties
  <2>2. Len(stack) \in 1..Len(stack) /\ Len(stack) \notin 1..(Len(stack) - 1)
    BY <1>1
  <2>3. \A ws : DOMAIN Invalidated(ws) = DOMAIN stack
    BY DEF Invalidated
  <2> QED BY <2>1, <2>2, <2>3
<1>6. stack # Below
  BY <1>1
<1> QED BY <1>1, <1>2, <1>3, <1>4, <1>5, <1>6

(* The ways in which a loop ends.                                          *)
LoopEnd ==
    \/ /\ Top.kind = "shell"
       /\ \/ Top.at = "prompt" /\ exitCommand = None /\ outcome' = "exit"
          \/ Top.at = "prompt" /\ outcome' = "exception"
          \/ Top.at # "prompt" /\ outcome = "exit" /\ outcome' = "exit"
          \/ outcome' \in Raised /\ (Top.at = "exit" \/ outcome' = "foreign")
    \/ /\ Top.kind = "menu"
       /\ \/ outcome' = "success"
          \/ Top.at = "prompt" /\ outcome' = "exception"
          \/ outcome' \in Raised /\ (Top.at = "exit" \/ outcome' = "foreign")
    \/ Top.kind = "sequence" /\ outcome' # "exception"

LEMMA LoopEnds ==
    ASSUME SInv, [Next]_vars, Ended, IsLoop(Top)
    PROVE  LoopEnd
<1>1. StackInv /\ stack # <<>> /\ stack' = Below
  BY DEF SInv, Ended
<1>2. /\ stack' # stack /\ \A g : stack' # Append(stack, g)
      /\ \A f : ~Becomes(f)
      /\ \A f, g : ~Calls(f, g)
      /\ \A ws : stack' # Invalidated(ws)
  BY <1>1, OnlyEndsEnd DEF Becomes, Calls
<1>3. ~ProgramCalls /\ ~CommandEnds /\ ~ProgramResumes /\ ~Undefined /\ ~RegistryNext
  <2>1. ~ProgramCalls
    BY <1>2 DEF ProgramCalls
  <2>2. ~CommandEnds /\ ~ProgramResumes
    BY <1>1 DEF CommandEnds, ProgramResumes, Runs, Resumes, IsLoop
  <2>3. ~Undefined
    BY <1>2 DEF Undefined, vars, callVars
  <2>4. ~RegistryNext
    BY <1>2 DEF RegistryNext, Construct, ConstructFrom, AddCommand, RemoveCommand,
       SetExitCommand, ClearCommands, callVars
  <2> QED BY <2>1, <2>2, <2>3, <2>4
<1>4. CASE ShellReads
  <2>1. PICK line \in Lines : HelpUnknown(line) \/ Exit(line)
    BY <1>2, <1>4 DEF ShellReads, BlankLine, Help, NotFound, RunCommand, Answered
  <2>2. Top.kind = "shell" /\ Top.at = "prompt"
    BY <2>1 DEF HelpUnknown, Exit, Reads, Runs
  <2>3. outcome' = "exception" \/ (exitCommand = None /\ outcome' = "exit")
    BY <1>2, <2>1 DEF HelpUnknown, Exit, Ends
  <2> QED BY <2>2, <2>3 DEF LoopEnd
<1>5. CASE ShellResumes
  <2>1. Top.kind = "shell" /\ outcome # "none" /\ OnTop(Top, outcome)
    BY <1>1, <1>5, TopFrame
       DEF ShellResumes, CommandReturned, CommandThrew, ExceptionLeaves, Resumes
  <2>2. Top.at # "prompt"
    BY <2>1 DEF OnTop, IsLoop, Waits, IsWaiting
  <2>3. CASE CommandReturned
    <3>1. outcome = "exit" /\ outcome' = "exit"
      BY <1>2, <2>3 DEF CommandReturned, Answered, Ends
    <3> QED BY <2>1, <2>2, <3>1 DEF LoopEnd
  <2>4. CASE CommandThrew
    BY <1>2, <2>4 DEF CommandThrew, Answered
  <2>5. CASE ExceptionLeaves
    BY <2>1, <2>5 DEF ExceptionLeaves, Ends, LoopEnd
  <2> QED BY <1>5, <2>3, <2>4, <2>5 DEF ShellResumes
<1>6. CASE MenuReads
  <2>1. Top.kind = "menu" /\ ~PrintMenu
    BY <1>2, <1>6 DEF MenuReads, PrintMenu, Runs
  <2>2. PICK answer : AskAgain(answer) \/ PromptThrows(answer)
                        \/ ChooseExit(answer) \/ ChooseItem(answer)
    BY <1>6, <2>1 DEF MenuReads
  <2>3. CASE PromptThrows(answer)
    BY <2>1, <2>3 DEF PromptThrows, AtPrompt, Ends, LoopEnd
  <2>4. CASE ChooseExit(answer)
    <3>1. outcome' = "success"
      BY <1>2, <2>4 DEF ChooseExit, Ends
    <3> QED BY <2>1, <3>1 DEF LoopEnd
  <2> QED BY <1>2, <2>2, <2>3, <2>4 DEF AskAgain, ChooseItem, callVars
<1>7. CASE MenuResumes
  <2>1. Top.kind = "menu" /\ (ExitItemEnded \/ ExceptionLeavesMenu)
    BY <1>2, <1>7 DEF MenuResumes, ItemEnded, ExitItemEnded, ExceptionLeavesMenu, Resumes
  <2> QED BY <2>1 DEF ExitItemEnded, ExceptionLeavesMenu, Ends, LoopEnd
<1>8. CASE SequenceNext
  <2>1. Top.kind = "sequence" /\ (RunPart \/ PartFailed)
    BY <1>2, <1>8 DEF SequenceNext, RunPart, PartSucceeded, PartFailed, Runs, Resumes
  <2>2. outcome' # "exception"
    BY <1>2, <2>1 DEF RunPart, PartFailed, Ends
  <2> QED BY <2>1, <2>2 DEF LoopEnd
<1> QED BY <1>2, <1>3, <1>4, <1>5, <1>6, <1>7, <1>8 DEF Next, vars, callVars

(* A shell's run returns on exit only: typed without an exit command, or   *)
(* answered by a command or the exit command.                              *)
THEOREM ShellsEndOnExit == Spec => ShellEndsOnExit
<1>1. SInv /\ [Next]_vars =>
        [Ended /\ Top.kind = "shell" /\ outcome' \notin Raised =>
           /\ outcome' = "exit"
           /\ IF Top.at = "prompt" THEN exitCommand = None ELSE outcome = "exit"]_vars
  BY LoopEnds DEF Raised, IsLoop, LoopEnd
<1> QED BY <1>1, StackInvariant, PTL DEF Spec, ShellEndsOnExit

(* A std::exception leaves a shell or a menu only where no handler is, and *)
(* never leaves a sequence, at any depth of nesting.                       *)
THEOREM ExceptionsAreStopped == Spec => ExceptionsStop
<1>1. SInv /\ [Next]_vars =>
        [Ended /\ outcome' = "exception" =>
           CASE Top.kind = "shell" -> Top.at \in {"prompt", "exit"}
             [] Top.kind = "menu"  -> Top.at \in {"prompt", "exit"}
             [] OTHER -> Top.kind # "sequence"]_vars
  <2> SUFFICES ASSUME SInv, [Next]_vars, Ended, outcome' = "exception"
               PROVE  CASE Top.kind = "shell" -> Top.at \in {"prompt", "exit"}
                        [] Top.kind = "menu"  -> Top.at \in {"prompt", "exit"}
                        [] OTHER -> Top.kind # "sequence"
    OBVIOUS
  <2>1. /\ Top.kind \in {"shell", "menu"} => Top.at \in {"prompt", "exit"}
        /\ Top.kind # "sequence"
    BY LoopEnds DEF IsLoop, LoopEnd
  <2> QED BY <2>1
<1> QED BY <1>1, StackInvariant, PTL DEF Spec, ExceptionsStop

(* A menu that returns, whatever was run in it, is a success to the menu   *)
(* or the sequence it is part of.                                          *)
THEOREM MenusAlwaysSucceed == Spec => MenusSucceed
<1>1. SInv /\ [Next]_vars =>
        [Ended /\ Top.kind = "menu" /\ outcome' \notin Raised => outcome' = "success"]_vars
  BY LoopEnds DEF Raised, IsLoop, LoopEnd
<1> QED BY <1>1, StackInvariant, PTL DEF Spec, MenusSucceed
-----------------------------------------------------------------------------
(* The place of a sequence.                                                *)

LEMMA AppendElements ==
    ASSUME NEW S, NEW s \in Seq(S), NEW e
    PROVE  /\ \A i \in 1..Len(s) : Append(s, e)[i] = s[i]
           /\ Append(s, e)[Len(s) + 1] = e
<1>1. s \in Seq(S \union {e})
  BY SeqMonotonic
<1> QED BY <1>1, AppendProperties

(* What the changes of the stack leave where it was.                       *)
LEMMA FramesBelowStay ==
    ASSUME StackInv, stack # <<>>
    PROVE  /\ DOMAIN stack = 1..Len(stack) /\ Len(stack) \in Nat \ {0}
           /\ Len(stack) \notin DOMAIN Below
           /\ \A f : Append(Below, f)[Len(stack)] = f
           /\ \A f, g : Append(Append(Below, f), g)[Len(stack)] = f
           /\ \A i \in 1..Len(stack) : \A f : Append(stack, f)[i] = stack[i]
           /\ \A i \in 1..(Len(stack) - 1) :
                 /\ Below[i] = stack[i]
                 /\ \A f : Append(Below, f)[i] = stack[i]
                 /\ \A f, g : Append(Append(Below, f), g)[i] = stack[i]
<1>1. /\ stack \in Seq(Frames) /\ Len(stack) \in Nat \ {0}
      /\ Below \in Seq(Frames) /\ Len(Below) = Len(stack) - 1
      /\ \A i \in 1..(Len(stack) - 1) : Below[i] = stack[i]
  BY LowerIs DEF StackInv, WellLinked, Below
<1>2. \A f : /\ Append(Below, f)[Len(stack)] = f
             /\ \A i \in 1..(Len(stack) - 1) : Append(Below, f)[i] = stack[i]
  <2> SUFFICES ASSUME NEW f
               PROVE  /\ Append(Below, f)[Len(stack)] = f
                      /\ \A i \in 1..(Len(stack) - 1) : Append(Below, f)[i] = stack[i]
    OBVIOUS
  <2>1. /\ \A i \in 1..Len(Below) : Append(Below, f)[i] = Below[i]
        /\ Append(Below, f)[Len(Below) + 1] = f
    BY <1>1, AppendElements
  <2> QED BY <1>1, <2>1
<1>3. \A f, g : /\ Append(Append(Below, f), g)[Len(stack)] = f
                /\ \A i \in 1..(Len(stack) - 1) : Append(Append(Below, f), g)[i] = stack[i]
  <2> SUFFICES ASSUME NEW f, NEW g
               PROVE  /\ Append(Append(Below, f), g)[Len(stack)] = f
                      /\ \A i \in 1..(Len(stack) - 1) :
                            Append(Append(Below, f), g)[i] = stack[i]
    OBVIOUS
  <2> DEFINE b == Append(Below, f)
  <2>1. b \in Seq(Frames \union {f}) /\ Len(b) = Len(stack)
    BY <1>1, LongerAppend
  <2>2. b[Len(stack)] = f /\ \A i \in 1..(Len(stack) - 1) : b[i] = stack[i]
    BY <1>2
  <2> HIDE DEF b
  <2>3. \A i \in 1..Len(b) : Append(b, g)[i] = b[i]
    BY <2>1, AppendElements
  <2>4. /\ Append(b, g)[Len(stack)] = f
        /\ \A i \in 1..(Len(stack) - 1) : Append(b, g)[i] = stack[i]
    BY <1>1, <2>1, <2>2, <2>3
  <2> QED BY <2>4 DEF b
<1>4. \A i \in 1..Len(stack) : \A f : Append(stack, f)[i] = stack[i]
  BY <1>1, AppendElements
<1>5. DOMAIN stack = 1..Len(stack) /\ Len(stack) \notin DOMAIN Below
  BY <1>1, LenProperties
<1> QED BY <1>1, <1>2, <1>3, <1>4, <1>5

(* While a sequence is on top, only its own loop runs.                     *)
LEMMA OnlySequencesRun ==
    ASSUME [Next]_vars, stack # <<>>, Top.kind = "sequence"
    PROVE  SequenceNext \/ UNCHANGED vars
<1>1. ~ProgramCalls /\ ~CommandEnds /\ ~ProgramResumes
  BY DEF ProgramCalls, ProgramRuns, CommandEnds, ProgramResumes, Runs, Resumes
<1>2. ~RegistryNext
  BY DEF RegistryNext, Construct, ConstructFrom, AddCommand, RemoveCommand,
     SetExitCommand, ClearCommands, ProgramRuns
<1>3. ~ShellReads /\ ~ShellResumes
  BY DEF ShellReads, BlankLine, Help, HelpUnknown, Exit, NotFound, RunCommand, Reads, Runs,
     ShellResumes, CommandReturned, CommandThrew, ExceptionLeaves, Resumes
<1>4. ~MenuReads /\ ~MenuResumes
  BY DEF MenuReads, PrintMenu, Runs, MenuResumes, ItemEnded, ExitItemEnded,
     ExceptionLeavesMenu, Resumes
<1> QED BY <1>1, <1>2, <1>3, <1>4 DEF Next, Undefined

(* The ways in which a step changes the stack.                             *)
LEMMA StackChanges ==
    ASSUME [Next]_vars, stack # <<>>
    PROVE  \/ stack' \in {stack, Below}
           \/ \E f : stack' \in {Append(stack, f), Append(Below, f)}
           \/ \E f, g : stack' = Append(Append(Below, f), g)
           \/ \E ws : stack' = Invalidated(ws)
<1> SUFFICES ASSUME ~ \/ stack' \in {stack, Below}
                      \/ \E f : stack' \in {Append(stack, f), Append(Below, f)}
                      \/ \E f, g : stack' = Append(Append(Below, f), g)
                      \/ \E ws : stack' = Invalidated(ws)
             PROVE  FALSE
  OBVIOUS
<1>1. /\ \A f : ~Becomes(f) /\ stack' # Append(stack, f)
      /\ \A f, g : ~Calls(f, g)
      /\ \A o : ~Ends(o)
      /\ \A ws : stack' # Invalidated(ws)
      /\ stack' # stack
  BY DEF Becomes, Calls, Ends
<1>2. CASE ProgramCalls
  BY <1>1, <1>2 DEF ProgramCalls
<1>3. CASE CommandEnds \/ ProgramResumes
  BY <1>1, <1>3 DEF CommandEnds, ProgramResumes
<1>4. CASE Undefined \/ UNCHANGED vars
  BY <1>1, <1>4 DEF Undefined, vars, callVars
<1>5. CASE RegistryNext
  BY <1>1, <1>5 DEF RegistryNext, Construct, ConstructFrom, AddCommand, RemoveCommand,
     SetExitCommand, ClearCommands, callVars
<1>6. CASE ShellReads
  BY <1>1, <1>6 DEF ShellReads, BlankLine, Help, HelpUnknown, Exit, NotFound, RunCommand,
     Answered
<1>7. CASE ShellResumes
  BY <1>1, <1>7 DEF ShellResumes, CommandReturned, CommandThrew, ExceptionLeaves, Answered
<1>8. CASE MenuReads
  BY <1>1, <1>8 DEF MenuReads, PrintMenu, AskAgain, PromptThrows, ChooseExit, ChooseItem,
     callVars
<1>9. CASE MenuResumes
  BY <1>1, <1>9 DEF MenuResumes, ItemEnded, ExitItemEnded, ExceptionLeavesMenu
<1>10. CASE SequenceNext
  BY <1>1, <1>10 DEF SequenceNext, RunPart, PartSucceeded, PartFailed
<1> QED BY <1>2, <1>3, <1>4, <1>5, <1>6, <1>7, <1>8, <1>9, <1>10 DEF Next

(* A sequence keeps its place, but for the step of the one on top.         *)
LEMMA PlacesAreKept ==
    ASSUME SInv, [Next]_vars, NEW i \in DOMAIN stack, stack[i].kind = "sequence",
           i \in DOMAIN stack'
    PROVE  \/ stack'[i] = stack[i]
           \/ /\ i = Len(stack) /\ outcome = "success"
              /\ stack'[i] = [stack[i] EXCEPT !.at = @ + 1]
<1>1. StackInv /\ stack # <<>>
  BY EmptySeq DEF SInv
<1>2. i \in 1..Len(stack) /\ Len(stack) \in Nat \ {0}
  BY <1>1, FramesBelowStay
<1>3. CASE i = Len(stack)
  <2>1. Top = stack[i] /\ Top.kind = "sequence"
    BY <1>3 DEF Top
  <2>2. CASE UNCHANGED vars
    BY <2>2 DEF vars, callVars
  <2>3. ~(\E o : Ends(o))
    BY <1>1, <1>3, FramesBelowStay DEF Ends
  <2>4. CASE RunPart
    <3>1. PICK g : Calls(Top, g)
      BY <2>3, <2>4 DEF RunPart
    <3>2. stack' = Append(Append(Below, Top), g)
      BY <3>1 DEF Calls
    <3>3. Append(Append(Below, Top), g)[Len(stack)] = Top
      BY <1>1, FramesBelowStay
    <3>4. stack'[i] = stack[i]
      BY <1>3, <2>1, <3>2, <3>3
    <3> QED BY <3>4
  <2>5. CASE PartSucceeded
    <3>1. Becomes([Top EXCEPT !.at = @ + 1]) /\ outcome = "success"
      BY <2>5 DEF PartSucceeded
    <3> QED BY <1>1, <1>3, <2>1, <3>1, FramesBelowStay DEF Becomes
  <2>6. ~PartFailed
    BY <2>3 DEF PartFailed
  <2> QED BY <1>1, <2>1, <2>2, <2>4, <2>5, <2>6, OnlySequencesRun DEF SequenceNext
<1>4. CASE i # Len(stack)
  <2>1. i \in 1..(Len(stack) - 1)
    BY <1>2, <1>4
  <2>2. \A ws : Invalidated(ws)[i] = stack[i]
    BY DEF Invalidated
  <2>3. /\ Below[i] = stack[i]
        /\ \A f : Append(stack, f)[i] = stack[i] /\ Append(Below, f)[i] = stack[i]
        /\ \A f, g : Append(Append(Below, f), g)[i] = stack[i]
    BY <1>1, <1>2, <2>1, FramesBelowStay
  <2>4. stack'[i] = stack[i]
    <3>1. CASE stack' \in {stack, Below}
      BY <2>3, <3>1
    <3>2. CASE \E f : stack' \in {Append(stack, f), Append(Below, f)}
      BY <2>3, <3>2
    <3>3. CASE \E f, g : stack' = Append(Append(Below, f), g)
      BY <2>3, <3>3
    <3>4. CASE \E ws : stack' = Invalidated(ws)
      BY <2>2, <3>4
    <3> QED BY <1>1, <3>1, <3>2, <3>3, <3>4, StackChanges
  <2> QED BY <2>4
<1> QED BY <1>3, <1>4

(* A sequence runs its next part after the success of the one before only, *)
(* at any depth of nesting and whatever its parts call, and succeeds only  *)
(* after the last one.                                                     *)
THEOREM SequencesAlwaysStop == Spec => SequencesStopAtFailure
<1>1. ASSUME SInv, [Next]_vars, Resumes("sequence"), outcome # "success", ~UNCHANGED vars
      PROVE  Ended /\ outcome' # "success"
  <2>1. stack # <<>> /\ Top.kind = "sequence" /\ outcome # "none"
    BY <1>1 DEF Resumes
  <2>2. PartFailed
    BY <1>1, <2>1, OnlySequencesRun DEF SequenceNext, RunPart, Runs, PartSucceeded
  <2> QED BY <1>1, <2>1, <2>2 DEF PartFailed, Ends, Ended
<1>2. ASSUME SInv, [Next]_vars, Ended, Top.kind = "sequence", outcome' = "success"
      PROVE  Finished
  <2>1. StackInv /\ stack # <<>> /\ stack' = Below
    BY <1>2 DEF SInv, Ended
  <2>2. /\ stack' # stack
        /\ \A f : ~Becomes(f)
        /\ \A f, g : ~Calls(f, g)
    BY <2>1, OnlyEndsEnd DEF Becomes, Calls
  <2>3. RunPart \/ PartFailed
    BY <1>2, <2>1, <2>2, OnlySequencesRun
       DEF SequenceNext, PartSucceeded, vars, callVars
  <2>4. ~PartFailed
    BY <1>2 DEF PartFailed, Ends
  <2> QED BY <2>2, <2>3, <2>4 DEF RunPart
<1>3. SInv /\ [Next]_vars =>
        [/\ Resumes("sequence") /\ outcome # "success" => Ended /\ outcome' # "success"
         /\ Ended /\ Top.kind = "sequence" /\ outcome' = "success" => Finished
         /\ \A i \in DOMAIN stack :
              stack[i].kind = "sequence" /\ i \in DOMAIN stack' =>
                  \/ stack'[i] = stack[i]
                  \/ /\ i = Len(stack) /\ outcome = "success"
                     /\ stack'[i] = [stack[i] EXCEPT !.at = @ + 1]]_vars
  BY <1>1, <1>2, PlacesAreKept
<1> QED BY <1>3, StackInvariant, PTL DEF Spec, SequencesStopAtFailure
==============================================================================
