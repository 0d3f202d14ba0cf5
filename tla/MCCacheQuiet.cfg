SPECIFICATION MCSpec
CONSTANTS
    Proc = {p1, p2}
    Content = {c1, c2}
    Symbolic = {c2}
    Batches = 2
    IdPool = {1, 2, 3, 4}
    NoProc = NoProc
    NoContent = NoContent
    Faults = {"crash"}
    PluginIds = {"a", "b"}
    Commands = {1, 2}
    NoBundle = NoBundle
    PluginScopes <- MCPluginScopes
    TypeNames = {"A", "B", "C"}
    TypeClients = {1, 2}
    MaxTypes = 2
    MaxRefs = 1
    MaxBindings = 1
    TypeScopes <- MCTypeScopes
    Tools = {1, 2}
    DecompileScopes <- MCDecompileScopes
SYMMETRY MCSymmetry
INVARIANTS
    ToolsTypeOK
    Fresh
    CurrentLines
    PluginsKept
    TypesSound
    DecompilationsTell
CHECK_DEADLOCK FALSE
