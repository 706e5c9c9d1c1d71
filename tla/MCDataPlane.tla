---------------------------- MODULE MCDataPlane ----------------------------
EXTENDS DataPlane

CONSTANTS self, anchor, peer, web, db, ssh, http

Rec(m, k, roles, c, e) ==
    [addr |-> m, name |-> m, key |-> k, caps |-> {RoleTag(r) : r \in roles},
     cred |-> c, ep |-> e]

\* Self changes its role; the anchor expires; the peer rotates its key with a
\* new role and a new endpoint, expires, or comes back signed by an old CA.
MCRecords == {Rec(self, "k0", {web}, "ok", "e"),
              Rec(self, "k0", {db}, "ok", "e"),
              Rec(anchor, "k1", {"*"}, "ok", "e"),
              Rec(anchor, "k1", {"*"}, "expired", "e"),
              Rec(peer, "k2", {web}, "ok", None),
              Rec(peer, "k3", {db}, "ok", "e"),
              Rec(peer, "k2", {web}, "expired", None),
              Rec(peer, "k3", {web}, "foreign", "e")}

MCDirs == {{Rec(self, "k0", {web}, "ok", "e"), Rec(anchor, "k1", {"*"}, "ok", "e")},
           {Rec(self, "k0", {db}, "ok", "e"), Rec(anchor, "k1", {"*"}, "ok", "e"),
            Rec(peer, "k2", {web}, "ok", None)}}

Grant(from, to, ports) == [from |-> from, to |-> to, ports |-> ports]

MCTables == {NoTable,
             [seq |-> 1, grants |-> {Grant({RoleTag(web)}, {RoleTag(db)}, {http}),
                                     Grant({Any}, {HostTag(self)}, {ssh})}],
             [seq |-> 2, grants |-> {Grant({RoleTag(db)}, {RoleTag(web)}, {AllPorts})}]}
=============================================================================
