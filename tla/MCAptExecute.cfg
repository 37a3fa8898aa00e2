SPECIFICATION Spec
CONSTANTS
    app = app
    base = base
    Workers = {w1, w2}
    Foreign = Foreign
    None = None
    Pkgs <- MCPkgs
    Versions = {1, 2}
    Essential = {base}
    Origin <- MCOrigin
    PkgOps <- MCOps
    Update = "update"
    Sources = {"s1", "s2"}
    Allows = {{}, {"source"}}
    MaxOffers = 1
    Solver <- MCSolver
SYMMETRY Symmetry
INVARIANTS AptTypeOK InstallsApproved ForbiddenNeverRuns
PROPERTIES ChangesApproved
