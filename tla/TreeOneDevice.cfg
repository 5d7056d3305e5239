SPECIFICATION Spec
CONSTANTS
    Devs = {3}
    Inodes = {0, 3, 6, 7}
    Gens = {0, 7}
    Times = {1, 2, 3, 4, 5}
    DevMod = 8
    LongMod = 16
    MaxCount = 2
    Node <- Record
    MaxHeight = 10
INVARIANTS SearchFinds LruInOrder
PROPERTIES ImplementsMap
