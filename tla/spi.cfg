SPECIFICATION Spec
CONSTANT Unset = Unset
INVARIANT RegisterWritten
