CONSTANTS
    Objects <- MC_Objects
SPECIFICATION Spec
INVARIANT StoredObjectsDefaulted DefaultingKeepsUserValues
