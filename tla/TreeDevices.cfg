SPECIFICATION Spec
CONSTANTS
    Devs = {98, 99, 100}
    Inodes = {6}
    Gens = {0}
    Times = {1, 2, 3, 4}
    DevMod = 128
    LongMod = 256
    MaxCount = 2
    Node <- Record
    MaxHeight = 9
INVARIANT KeysUnique
