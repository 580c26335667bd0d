\* Depth 3, five nodes and two keys; integers up to 19 (-10), exponents up to 9.
SPECIFICATION Spec
CONSTANTS
    MaxInput = 40
    MaxDepth = 3
    MaxNodes = 5
    MaxKeys = 2
    MaxUInt64 = 19
    MaxInt64 = 9
    MaxExponent = 9
    MaxLength = 5
INVARIANTS
    StructureAgrees
    StringsDecode
    NamesSurvive
    NumbersParse
CHECK_DEADLOCK FALSE
