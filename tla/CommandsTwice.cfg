SPECIFICATION Spec
INVARIANT NothingUnasked
 
INVARIANT KeptUntilReplaced
\* A command may end for good.
CHECK_DEADLOCK FALSE
