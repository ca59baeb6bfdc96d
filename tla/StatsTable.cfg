SPECIFICATION Spec
CONSTANTS
    Ids <- SomeIds
    Sizes = {1, 3}
    MaxInt = 4
    Modulus = 2
    Stride = 2
    MaxObjects = 4
INVARIANTS
    TypeOK
    OneRecordPerRequest
    ListComplete
    NoLeak
PROPERTIES
    Ends
    ImplementsTally
