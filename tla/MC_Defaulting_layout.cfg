CONSTANTS
    Objects <- MC_Objects
SPECIFICATION Spec
INVARIANT StoredLayoutsDefaulted
