---------------------------- MODULE MCAptWorker ----------------------------
(* Small instances of AptWorker. *)
EXTENDS AptWorker, TLC

CONSTANTS app, base     \* app is offered in versions 1 and 2 and needs base

Symmetry == Permutations(Workers)
MCPkgs == {app, base}
MCOrigin == (1 :> "archive") @@ (2 :> "other")
MCOps == {"install", "remove", "upgrade"}

\* install: app and, if missing, base; remove: base and with it app; upgrade:
\* every installed package to its candidate, unless it is held.
MCSolver(o, s, l) ==
    CASE o = "install" ->
            [p \in MCPkgs |-> IF p = app \/ s[p].ver = NotInstalled
                              THEN l[p] ELSE s[p].ver]
      [] o = "remove" ->
            IF s[base].ver = NotInstalled THEN None
            ELSE [p \in MCPkgs |-> NotInstalled]
      [] o = "upgrade" ->
            [p \in MCPkgs |-> IF s[p].ver = NotInstalled \/ s[p].held
                              THEN s[p].ver ELSE l[p]]
=============================================================================
