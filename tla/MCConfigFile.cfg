SPECIFICATION Spec
CONSTANTS
    TypedChars <- MCTypedChars
    MaxTyped = 3
    Edits <- MCEdits
    LineMax = 8
    SectionMax = 3
    KeyMax = 3
    ValueMax = 4
    EntriesMax = 8
INVARIANTS
    ReadsMeaning
    FieldsStayApart
    PlainIsKept
    CutFileKeepsAccount
CHECK_DEADLOCK FALSE
