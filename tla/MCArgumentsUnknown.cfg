SPECIFICATION Spec
CONSTANTS
    Unspecified = Unspecified
    CommandLines <- LinesOfThree
    SpecLists <- AnySpecs
PROPERTIES
    UnknownIsIgnored
