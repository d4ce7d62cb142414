SPECIFICATION Spec
CONSTANTS
    Alphabet <- MCAlphabet
    MaxText = 5
INVARIANTS
    EscapeIsUndone
    JoinedWordsComeBack
    JoinedNamesComeBack
CHECK_DEADLOCK FALSE
