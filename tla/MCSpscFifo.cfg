SPECIFICATION Spec
CONSTANTS
    Size = 2
    Modulus = 8
    Val = {a, b}
    Torn = Torn
INVARIANTS TypeOK CountersAgree SlotsDisjoint DescriptorsWhole
PROPERTIES IsBoundedQueue FullDrains
