SPECIFICATION Spec
CONSTANTS
    Fields = {f1, f2, f3}
    Originals = {o1, o2}
    NotAnObject = NotAnObject
    NotANumber = NotANumber
    MaxListed = 3
INVARIANT DuplicatesSharePseudonym
CHECK_DEADLOCK FALSE
