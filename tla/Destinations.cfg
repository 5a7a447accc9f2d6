SPECIFICATION Spec
CONSTANTS
    Texts <- MCTexts
    SrcPort <- MCSrcPort
INVARIANTS
    AllOrFallback
    EveryKeyIsRouted
    ReadsWhatIsWritten
    ListsAgree
CHECK_DEADLOCK FALSE
