SPECIFICATION Spec
CONSTANTS
    Namespaces = {team, copy}
    Names = {n1, n2}
    Importers = {i1, i2}
    Null = Null
    MaxWrites = 3
    MaxCorruptions = 1
    MaxFaults = 1
SYMMETRY Symmetry
CHECK_DEADLOCK FALSE
INVARIANTS
    TypeOK
    BundlesClosed
    OnlyExportedImported
    NamesUnique
PROPERTIES
    RoundTrip
