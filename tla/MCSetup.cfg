CONSTANTS
    Bindings = {rust, csharp}
    Native = {rust}
SPECIFICATION Spec
INVARIANT NoLitter
INVARIANT ExtensionMarked
PROPERTY VersionIsCommit
PROPERTY SuccessIsComplete
