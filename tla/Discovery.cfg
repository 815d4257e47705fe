SPECIFICATION Spec
CONSTANTS
    SUFFIXES = {".py", ".v", ".vh", ".hex"}
    MAX_FILES = 6
    MAX_BYTES = 8
    MAX_ENTRIES = 12
    MAX_MANIFEST = 3
    MAX_BUNDLE = 8
    MAX_UPLOAD = 6
    manifest <- MCmanifest
    Hidden = {".git"}
    Skipped = {"build"}
    Odd = {"a b"}
    Projects <- MCProjects
    casefold <- MCcasefold
INVARIANTS
    BundleTypeOK
    BundleExact
    ImportsResolve
    CompiledOnce
CHECK_DEADLOCK FALSE
