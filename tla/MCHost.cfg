SPECIFICATION MCSpec
CONSTANTS
    NameLengths = {0, 31, 32, 33}
    Mtus = {206, 546, 9034}
    IconSizes = {0, 512, 513, 1500, 70000}
    MaxChanges = 1
    MaxParts = 9
    Streams = {1, 3}
    Codings = {0, 1, 2, 3, 4, 5, 6, 7, 8, 9, 10, 11}
INVARIANTS
    HelloReadable
    HelloFits
    HellosAgree
    ReadWhole
    RatesStandard
    InferredNearest
    MaxCovers
PROPERTY
    PartsAdvance
