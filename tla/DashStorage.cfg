SPECIFICATION Spec
CONSTANTS
    here = here
    there = there
    i1 = i1
    Source = here
    Target = there
    Kinds <- AllKinds
    Binding <- Bindings
    Item = {i1}
    None = None
    Limit = 6
INVARIANT Safe
PROPERTY PushedBack
CHECK_DEADLOCK FALSE
