SPECIFICATION Spec
CONSTANTS
    Exporter = {x1, x2}
    None = None
    MaxCommits = 2
    MaxExports = 2
SYMMETRY Symmetry
INVARIANTS
    BundleAccounted
    ReexportRepairs
CHECK_DEADLOCK FALSE
