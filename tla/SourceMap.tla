----------------------------- MODULE SourceMap -----------------------------
(***************************************************************************)
(* Where in the source the entities of a project come from.  An entity has *)
(* the location of the declaration that owns the longest beginning of its  *)
(* path, of whole segments; a route owns its own path only.  Two owners    *)
(* under one path leave none, and a path that nobody owns has the place of *)
(* the first part of the design that was filed under it.                   *)
(***************************************************************************)
EXTENDS Elaboration

Owner(path, node) == [path |-> path, first |-> node.first, last |-> node.last]
Location(owner) == <<owner.first, owner.last>>
NoLocation == <<>>
Within(path, ancestor) ==
    \/ path = ancestor
    \/ /\ Len(path) > Len(ancestor)
       /\ SubSeq(path, 1, Len(ancestor) + 1) = ancestor \o "."

Components(tree) == ToSet(Of(tree.nodes, {"resistor", "dc_source"}))
BoardStatements(tree, keyword) ==
    UNION {ToSet(Of(b.nodes, {keyword})) : b \in ToSet(Of(tree.nodes, {"board"}))}
RouteOwners(tree) == {Owner(r.fields["path"], r) : r \in BoardStatements(tree, "route")}
FootprintOwners(c, f) ==
    {Owner(c.fields["path"] \o ".footprint", f)}
    \cup {Owner(c.fields["path"] \o ".footprint.pad." \o b.fields["pad"], b) : b \in ToSet(f.nodes)}
\* insert_semantic, for an accepted design.
Owners(tree) ==
    UNION {{Owner(c.fields["path"], c)}
           \cup UNION {FootprintOwners(c, f) : f \in ToSet(Items(c, "footprint"))}
           \cup {Owner(c.fields["path"] \o ".placement", n) :
                    n \in {p \in BoardStatements(tree, "place") :
                            p.fields["reference"] = c.fields["reference"]}} :
                c \in Components(tree)}
    \cup {Owner(r.fields["path"], r) : r \in BoardStatements(tree, "autoroute")}

\* insert_structural, of what an identity can be looked up as: variants, checks
\* and what they assert are filed under their own paths, before the board is.
Structural(tree) ==
    LET boards == Of(tree.nodes, {"board"})
        Filed(nodes, prefix, field) == Each(nodes, LAMBDA n : Owner(prefix \o n.fields[field], n))
    IN  Filed(Of(tree.nodes, {"net", "ground"}), "design.nets.", "name")
        \o Filed(Of(tree.nodes, {"module"}), "design.modules.", "path")
        \o Filed(Of(tree.nodes, {"analysis"}), "design.analyses.", "path")
        \o Filed(Of(tree.nodes, {"assert"}), "design.assertions.", "path")
        \o Filed(Of(tree.nodes, {"variant"}), "", "path")
        \o FoldLeft(LAMBDA all, k : all \o Filed(<<k>> \o k.nodes, "", "path"),
                    <<>>, Of(tree.nodes, {"manufacturability"}))
        \o Each(boards, LAMBDA b : Owner("design.board", b))
        \o FoldLeft(LAMBDA all, b : all \o Each(Of(b.nodes, {"rectangle"}),
                                                LAMBDA r : Owner("design.board.outline", r)),
                    <<>>, boards)

\* A mutant: the search begins with the parent of the path.
OwnersAbove(tree, path) == {o \in Owners(tree) : Within(path, o.path) /\ o.path # path}
OwnersOf(tree, path) == {o \in Owners(tree) : Within(path, o.path)}

\* span_for_identity
LocationOf(tree, path) ==
    LET routes == {r \in RouteOwners(tree) : r.path = path}
        owners == OwnersOf(tree, path)
        nearest == {o \in owners : \A q \in owners : Len(q.path) <= Len(o.path)}
        filed == SelectSeq(Structural(tree), LAMBDA o : o.path = path)
    IN  CASE routes # {} -> Location(CHOOSE r \in routes : TRUE)
          [] routes = {} /\ Cardinality(nearest) = 1 -> Location(CHOOSE o \in nearest : TRUE)
          [] routes = {} /\ nearest = {} /\ filed # <<>> -> Location(filed[1])
          [] OTHER -> NoLocation

\* render_kicad_identity_map
IdentityMap(tree, design) ==
    Each(Identities(design), LAMBDA i : [path |-> i.path, location |-> LocationOf(tree, i.path)])
=============================================================================
