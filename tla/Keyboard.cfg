SPECIFICATION Spec
CONSTANTS
    KeySets <- MCKeySets
    Scancode <- MCScancode
    Capacity = 1
INVARIANTS
    CharsAreTheKeys
    ModifiersHeal
