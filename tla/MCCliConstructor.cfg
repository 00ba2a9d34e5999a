SPECIFICATION Spec
CONSTANTS
    None = None
    draw1 = draw1  draw2 = draw2  undo = undo  aid = aid
    main = main  edit = edit  confirm = confirm
    open = open  toEdit = toEdit  leave = leave
    paste = paste  macro = macro  copy = copy  script = script  toConfirm = toConfirm  yes = yes
    Words <- MCWords
    ShellCommands <- MCShellCommands
    NameOf <- MCNameOf
    MaxArray = 3
    Commands <- MCCommands
    Menus <- MCMenus
    Items <- MCItems
    ExitItem <- MCExitItem
    InnerMenu <- MCInnerMenu
    Parts <- MCParts
    OpenMenus = {}
    OpenSequences = {}
    MaxDepth = 2
PROPERTIES
    ConstructorChecksNames
