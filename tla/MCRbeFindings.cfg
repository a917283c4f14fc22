SPECIFICATION RecordSpec
CONSTANT Finding = {f1, f2, f3}
SYMMETRY Symmetry
INVARIANTS
    RulesAreTotal
    EngineAgreesWithPackage
PROPERTIES
    FindingsNeverHelp
    PlansNeverHurt
