CONSTANTS
    Documents <- MC_Documents
SPECIFICATION Spec
INVARIANT RuleIdentitiesDistinctAnyMetadata
