SPECIFICATION Spec
CONSTANTS
    Frames = {f1, f2, f3, f4, f5}
    None = None
INVARIANTS TypeOK LinksOK Forest NoDanglingPointer
PROPERTY ImplementsOrder
