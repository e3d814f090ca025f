SPECIFICATION Spec
CONSTANT Mounts = {m1}
INVARIANT LoadingIsAtWork
