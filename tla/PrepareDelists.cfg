SPECIFICATION Spec
CONSTANT Requests = {r1}
INVARIANT RegisteringKeepsListed
