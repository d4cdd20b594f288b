\* The lock file check against the threat model.
SPECIFICATION Spec
CONSTANT Defective <- SomeDefective
INVARIANT LockfileFailsClosed
