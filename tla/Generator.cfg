\* Sequences of up to eight values.
SPECIFICATION Spec
CONSTANT
    MaxLength = 8
INVARIANT
    SameSequence
