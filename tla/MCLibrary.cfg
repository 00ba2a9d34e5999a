SPECIFICATION LibrarySpec
CONSTANTS
    Unspecified = Unspecified
    CommandLines <- LinesOfThree
    SpecLists <- AnySpecs
    Alphabets <- AllTexts
    MaxLength = 6
    Others <- SecondTexts
    IntBits = 6
    LongBits = 7
    Instances <- AllInstances
    Operands <- OperandTypes
    IntWidth = 4
    Null = Null
    Node <- TwoTrees
    Label = {1, 2}
    MaxSize = 4
CHECK_DEADLOCK FALSE
INVARIANTS
    ParseIsDefined
    FormsFindTheirEntry
    CommentsAreStripped
    NothingIsLost
    NumbersAreParsed
    ValuesStandForResults
    ComparesTrees
PROPERTIES
    ErasedIsGone
