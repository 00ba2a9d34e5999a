SPECIFICATION Spec
CONSTANTS
    None = None
    draw1 = draw1  draw2 = draw2  undo = undo  aid = aid
    main = main  edit = edit  confirm = confirm
    open = open  toEdit = toEdit  leave = leave
    paste = paste  macro = macro  copy = copy  script = script  toConfirm = toConfirm  yes = yes
    Words <- MCWords
    ShellCommands <- MCShellCommands
    NameOf <- MCNameOf
    MaxArray = 2
    Commands <- MCCommands
    Menus <- MCMenus
    Items <- MCItems
    ExitItem <- MCExitItem
    InnerMenu <- MCInnerMenu
    Parts <- MCParts
    OpenMenus = {main}
    OpenSequences = {}
    MaxDepth = 2
SYMMETRY Symmetry
INVARIANTS
    TypeOK
    CallsMatch
    RegistryAgrees
    RunningEntryIsCurrent
PROPERTIES
    OnlyClearDestroys
    ShellEndsOnExit
    ExceptionsStop
    SequencesStopAtFailure
    MenusSucceed
