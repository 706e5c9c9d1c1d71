------------------------------- MODULE Grants -------------------------------
(***************************************************************************)
(* The grant table as pure operators: tags, the tunnel decision, and the   *)
(* port filter rendered from a table.                                      *)
(*                                                                         *)
(* A tag, and a capability that carries one, is a record.  A table is a    *)
(* sequence number with a set of grants; sequence number 0 stands for "no  *)
(* table".  An address is the member itself: it is derived from the        *)
(* identity key.                                                           *)
(***************************************************************************)
EXTENDS Naturals

CONSTANT AllPorts        \* the port entry "*" of a grant

RoleTag(r) == [kind |-> "role", of |-> r]
HostTag(n) == [kind |-> "host", of |-> n]

\* '*' in a grant's from or to, and the reach-all role of an anchor.
Any == RoleTag("*")

NoTable == [seq |-> 0, grants |-> {}]

\* The capabilities that count as roles.  A role capability whose name smuggles
\* a "host:" tag is a member of caps of kind "host", and dropped.
RoleTags(caps) == {c \in caps : c.kind = "role"}

NodeTags(caps, name) == RoleTags(caps) \cup {HostTag(name)}

Matches(entries, tags) == Any \in entries \/ entries \cap tags # {}

Connects(g, src, dst) == Matches(g.from, src) /\ Matches(g.to, dst)

(* The tunnel decision: the anchor peers with everyone, without a table     *)
(* everyone peers, with a table a grant must connect the two either way.    *)
PeersAllowed(a, b, t) ==
    \/ Any \in a \cup b
    \/ t.seq = 0
    \/ \E g \in t.grants : Connects(g, a, b) \/ Connects(g, b, a)

-----------------------------------------------------------------------------
(* The port filter.                                                         *)

FullyOpen(t) ==
    \/ t.seq = 0
    \/ \E g \in t.grants :
          Any \in g.from /\ Any \in g.to /\ AllPorts \in g.ports

Sources(g, recs) ==
    {r.addr : r \in {x \in recs : Matches(g.from, NodeTags(x.caps, x.name))}}

\* Who may reach `port` at a node with the tags `mine`.
Allowance(recs, mine, t, port) ==
    UNION {Sources(g, recs) :
             g \in {h \in t.grants : port \in h.ports /\ Matches(h.to, mine)}}

\* The rendered table of one node, as what its rules depend on.
Ruleset(recs, caps, name, t, ports) ==
    [open    |-> FullyOpen(t),
     control |-> Any \in RoleTags(caps),
     allow   |-> [p \in ports \cup {AllPorts} |->
                    IF FullyOpen(t) THEN {}
                    ELSE Allowance(recs, NodeTags(caps, name), t, p)]]
=============================================================================
