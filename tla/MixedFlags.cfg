INIT RuntimeInit
NEXT RuntimeNext
CONSTANTS
    Registries <- MixedRegistries
    Reloaders = {l1, l2}
    Callbacks = {c1}
    MaxRuntimes = 2
    Entry = entry
    Unload = unload
INVARIANTS
    FlagsOfOneGeneration
CHECK_DEADLOCK FALSE
