CONSTANTS
    o1 = o1
    o2 = o2
    o3 = o3
    Owners <- MCOwners
    Modulus = 4
SPECIFICATION Spec
INVARIANT ReferenceIsSafe
