----------------------------- MODULE SourceText -----------------------------
(***************************************************************************)
(* The text of a design and its parser.  A token is its kind, its text and *)
(* its place; what separates tokens is left out.  The grammar is data: a   *)
(* statement of a block is its keyword, the parts that follow, and a       *)
(* semicolon or a block of its own.  The tree is made of nodes: the        *)
(* keyword, the texts read into named fields, the nodes of its block, and  *)
(* the places of its first and its last token.                             *)
(***************************************************************************)
EXTENDS Sequences, SequencesExt, Naturals, TLC

CONSTANT Decimals   \* [text |-> literal]: the texts that are numbers

Token(kind, text) == [kind |-> kind, text |-> text]
Atom(text) == Token(IF text \in DOMAIN Decimals THEN "number" ELSE "word", text)
End == Token("end", "")

(***************************************************************************)
(* Parts of a statement.                                                   *)
(***************************************************************************)
Part(expect, field) == [expect |-> expect, field |-> field]
Key(word) == <<Part("keyword", word)>>
Mark(punctuation) == <<Part(punctuation, "")>>
Name(field) == <<Part("name", field)>>
Number(field) == <<Part("number", field)>>
Quoted(field) == <<Part("string", field)>>
Named(word) == Key(word) \o Name(word)
Measure(field) == Number(field) \o Name(field \o " unit")
Measured(word) == Key(word) \o Measure(word)
Point(field) == Mark("(") \o Measure(field \o " x") \o Mark(",") \o Measure(field \o " y")
                \o Mark(")")
Identity3 == Key("manufacturer") \o Quoted("manufacturer") \o Key("number") \o Quoted("number")
             \o Key("package") \o Quoted("package")

\* What follows the keyword of a statement: a form, the rest of it, which may
\* depend on what was read or comes next, and the statements of its block.
Plain == [by |-> "", forms |-> <<>>]
NoBody == <<>>
Leaf(form) == [form |-> form, rest |-> Plain, body |-> NoBody]
Block(form, body) == [form |-> form, rest |-> Plain, body |-> body]
Choice(form, by, forms) == [form |-> form, rest |-> [by |-> by, forms |-> forms], body |-> NoBody]

Analyses ==
    (  "dc_operating_point" :> <<>>
    @@ "ac_linear_sweep" :> Named("source") \o Key("points") \o Number("points")
            \o Measured("start_frequency") \o Measured("stop_frequency")
            \o Measured("magnitude") \o Measured("phase")
    @@ "transient" :> Measured("step") \o Measured("stop") \o Measured("start") \o Named("uic"))
Tolerances == Measured("expected") \o Measured("absolute_tolerance")
              \o Measured("relative_tolerance")
SampleForms == "scalar" :> Tolerances @@ "frequency" :> Measure("at") \o Tolerances
           @@ "time" :> Measure("at") \o Tolerances

\* [keyword |-> what follows it], block by block.
ModuleGrammar ==
    "port" :> Choice(Name("direction") \o Name("name") \o Name("type"), "port", <<>>)
SymbolGrammar == "bind" :> Leaf(Name("pin") \o Name("symbolPin") \o Name("type"))
FootprintGrammar == "bind" :> Leaf(Name("pin") \o Name("pad"))
ComponentGrammar ==
    (  "part" :> Choice(Quoted("function"), "part", Identity3)
    @@ "lifecycle" :> Leaf(Name("status"))
    @@ "sourcing" :> Leaf(Key("minimum_available") \o Number("minimum_available")
                          \o Key("maximum_lead_time_days") \o Number("maximum_lead_time_days")
                          \o Key("region") \o Quoted("region"))
    @@ "substitute" :> Leaf(Identity3)
    @@ "symbol" :> Block(Quoted("library"), SymbolGrammar)
    @@ "model" :> Leaf(Quoted("id"))
    @@ "schematic" :> Leaf(Key("at") \o Point("at") \o Key("rotation") \o Number("rotation")
                           \o Key("deg"))
    @@ "resistance" :> Leaf(Measure("value")) @@ "voltage" :> Leaf(Measure("value"))
    @@ "terminals" :> Leaf(Name("positive") \o Name("negative"))
    @@ "connect" :> Leaf(Name("pin") \o Name("net")) @@ "no_connect" :> Leaf(Name("pin"))
    @@ "footprint" :> Block(Quoted("library"), FootprintGrammar))
VariantGrammar ==
    (  "fit" :> Leaf(Name("path")) @@ "not_fitted" :> Leaf(Name("path"))
    @@ "alternate" :> Leaf(Name("path") \o Identity3)
    @@ "configure" :> Leaf(Name("key") \o Quoted("value")))
CheckGrammar == "assert" :> Leaf(Name("path") \o Named("capability"))
BoardGrammar ==
    (  "rectangle" :> Leaf(Key("at") \o Point("at") \o Key("size") \o Point("size"))
    @@ "place" :> Leaf(Name("reference") \o Key("at") \o Point("at") \o Key("rotation")
                       \o Number("rotation") \o Key("deg") \o Named("layer"))
    @@ "route" :> Leaf(Name("path") \o Named("net") \o Key("from") \o Point("from")
                       \o Key("to") \o Point("to") \o Measured("width") \o Named("layer"))
    @@ "autoroute" :> Leaf(Name("path") \o Named("net") \o Measured("width")
                           \o Measured("clearance") \o Measured("grid") \o Named("layer")))
Component(items) == Block(Name("path") \o Name("reference"), items)
Grammar ==
    (  "net" :> Leaf(Name("name")) @@ "ground" :> Leaf(Name("name"))
    @@ "module" :> Block(Name("path"), ModuleGrammar)
    @@ [k \in {"resistor", "dc_source"} |-> Component(ComponentGrammar)]
    @@ "catalog_snapshot" :> Leaf(Quoted("snapshot") \o Key("sha256") \o Quoted("sha256")
                                  \o Key("evaluated_on") \o Quoted("evaluated_on"))
    @@ "variant" :> Block(Name("path") \o Key("build_quantity") \o Number("build_quantity"),
                          VariantGrammar)
    @@ "manufacturability" :> Block(Name("path") \o Key("adapter") \o Quoted("adapter")
                                    \o Key("version") \o Quoted("version"), CheckGrammar)
    @@ "analysis" :> Choice(Name("kind") \o Name("path"), "kind", Analyses)
    @@ "assert" :> Choice(Key("net_voltage") \o Name("path") \o Named("analysis")
                          \o Named("net") \o Named("sample"), "sample", SampleForms)
    @@ "board" :> Block(<<>>, BoardGrammar))

(***************************************************************************)
(* Reading.  The parser is where it is, the places and codes of what it    *)
(* reported, and of the statement at hand its fields and their places, the *)
(* nodes of its block and how it goes: a statement that failed is left     *)
(* where it stands, one that is lost is left behind.                       *)
(***************************************************************************)
Current(p) == p.tokens[p.at]
IsAt(p, kinds) == Current(p).kind \in kinds
AtWord(token, word) == token.kind = "word" /\ token.text = word
Advance(p) == [p EXCEPT !.at = IF p.tokens[@].kind = "end" THEN @ ELSE @ + 1]
Report(p, code, place, goes) ==
    [p EXCEPT !.reports = Append(@, [code |-> code, place |-> place]), !.goes = goes]
Expected(p, goes) == Report(p, "CC-LANG-PARSE-001", Current(p).place, goes)

Accepts(part, token) ==
    CASE part.expect = "name" -> token.kind \in {"word", "number"}
      [] part.expect = "keyword" -> AtWord(token, part.field)
      [] OTHER -> token.kind = part.expect
Keeps(part) == part.expect \in {"name", "number", "string"}
\* The part the parser is at is read.
Take(p, part, token) ==
    IF Keeps(part) THEN [p EXCEPT !.at = @ + 1, !.fields = (part.field :> token.text) @@ @,
                                  !.places = (part.field :> token.place) @@ @]
    ELSE [p EXCEPT !.at = @ + 1]
RECURSIVE Read(_, _)
Read(p, form) ==
    IF form = <<>> \/ p.goes # "on" THEN p
    ELSE IF Accepts(Head(form), Current(p)) THEN Read(Take(p, Head(form), Current(p)), Tail(form))
    ELSE Expected(p, "failed")

\* recover_item: past the next semicolon, past a balanced block and the
\* semicolon after it, or up to the end of the block.
RECURSIVE Behind(_, _, _)
\* A mutant: a semicolon inside of braces ends the item, too.
BehindAnywhere(tokens, i, depth) ==
    LET kind == tokens[i].kind
    IN  IF kind = "end" \/ (kind = "}" /\ depth = 0) THEN i
        ELSE IF kind = ";" THEN i + 1
        ELSE Behind(tokens, i + 1, depth)
Behind(tokens, i, depth) ==
    LET kind == tokens[i].kind
    IN  CASE kind = "end" \/ (kind = "}" /\ depth = 0) -> i
          [] kind = ";" /\ depth = 0 -> i + 1
          [] kind = "}" /\ depth = 1 -> IF tokens[i + 1].kind = ";" THEN i + 2 ELSE i + 1
          [] OTHER -> Behind(tokens, i + 1, CASE kind = "{" -> depth + 1
                                              [] kind = "}" -> depth - 1
                                              [] OTHER -> depth)
Recover(p) == IF p.goes = "lost" THEN [p EXCEPT !.at = Behind(p.tokens, @, 0)] ELSE p
Expect(p, kind) ==       \* expect_semicolon, and the brace of a block
    IF p.goes # "on" THEN p
    ELSE IF IsAt(p, {kind}) THEN Advance(p) ELSE Expected(p, "lost")
Close(p) ==              \* expect_closing_brace
    IF IsAt(p, {"}"}) THEN Advance(p) ELSE Expected(p, "failed")

\* The rest of a statement that depends on what was read or comes next.
Chosen(p, by, forms) ==
    IF p.fields[by] \in DOMAIN forms THEN Read(p, forms[p.fields[by]])
    ELSE Report(p, "CC-LANG-PARSE-002", p.places[by], "lost")
Branch(p, rest) ==
    CASE p.goes # "on" \/ rest.by = "" -> p
      [] rest.by = "part" -> IF AtWord(Current(p), "virtual") THEN Advance(p)
                             ELSE Read(p, rest.forms)
      [] rest.by = "port" -> IF AtWord(Current(p), "connect") THEN Read(Advance(p), Name("net"))
                             ELSE IF AtWord(Current(p), "no_connect") THEN Advance(p)
                             ELSE Expected(p, "lost")
      [] OTHER -> Chosen(p, rest.by, rest.forms)

(***************************************************************************)
(* The statements of a block, and the design around them.  A statement     *)
(* that fails is not in the tree; the loop goes on where it stopped.       *)
(***************************************************************************)
RECURSIVE Statements(_, _)
Enclosed(p, body) == IF p.goes = "on" THEN Close(Statements(p, body)) ELSE p
Body(p, body) == IF body = NoBody THEN Expect(p, ";") ELSE Enclosed(Expect(p, "{"), body)
Item(p, entry) == Body(Branch(Read(p, entry.form), entry.rest), entry.body)
NodeOf(p, q) == [keyword |-> Current(p).text, fields |-> q.fields, nodes |-> q.nodes,
                 first |-> Current(p).place, last |-> q.tokens[q.at - 1].place]
\* What is at q, after a statement that began at p, is in the block of p.
Resume(p, q) ==
    [q EXCEPT !.nodes = IF q.goes = "on" THEN Append(p.nodes, NodeOf(p, q)) ELSE p.nodes,
              !.fields = p.fields, !.places = p.places, !.goes = "on",
              !.at = IF @ = p.at /\ q.tokens[@].kind # "end" THEN @ + 1 ELSE @]
Begun(p) == [p EXCEPT !.at = @ + 1, !.fields = <<>>, !.places = <<>>, !.nodes = <<>>]
Statement(p, block) ==
    IF IsAt(p, {"word"}) /\ Current(p).text \in DOMAIN block
    THEN Item(Begun(p), block[Current(p).text])
    ELSE Report(p, "CC-LANG-PARSE-002", Current(p).place, "lost")
Statements(p, block) ==
    IF IsAt(p, {"}", "end"}) THEN p
    ELSE Statements(Resume(p, Recover(Statement(p, block))), block)

Start(tokens) == [tokens |-> tokens, at |-> 1, reports |-> <<>>, fields |-> <<>>,
                  places |-> <<>>, nodes |-> <<>>, goes |-> "on"]
\* A mutant: what follows the design is not looked at.
EndedAnywhere(p) == p
\* Nothing may follow the design.
Ended(p) == IF p.goes # "on" \/ IsAt(p, {"end"}) THEN p
            ELSE Report(p, "CC-LANG-PARSE-003", Current(p).place, "failed")
Parse(tokens) ==
    Ended(Enclosed(Read(Start(tokens), Key("design") \o Name("name") \o Mark("{")), Grammar))
Parsed(p) == p.reports = <<>>
TreeOf(p) == [name |-> p.fields.name, nodes |-> p.nodes]

(***************************************************************************)
(* The text a tree is written as.                                          *)
(***************************************************************************)
Written(node, form) ==
    [i \in DOMAIN form |->
        LET part == form[i]
        IN  CASE part.expect \in {"name", "number"} -> Atom(node.fields[part.field])
              [] part.expect = "string" -> Token("string", node.fields[part.field])
              [] part.expect = "keyword" -> Token("word", part.field)
              [] OTHER -> Token(part.expect, "")]
Rest(node, rest) ==
    CASE rest.by = "" -> <<>>
      [] rest.by = "part" -> IF "manufacturer" \in DOMAIN node.fields
                             THEN Written(node, rest.forms) ELSE <<Token("word", "virtual")>>
      [] rest.by = "port" -> IF "net" \in DOMAIN node.fields
                             THEN <<Token("word", "connect"), Atom(node.fields["net"])>>
                             ELSE <<Token("word", "no_connect")>>
      [] OTHER -> Written(node, rest.forms[node.fields[rest.by]])
RECURSIVE Unparse(_, _)
WrittenBody(nodes, body) ==
    IF body = NoBody THEN <<Token(";", "")>>
    ELSE <<Token("{", "")>> \o Unparse(nodes, body) \o <<Token("}", "")>>
WrittenNode(node, entry) ==
    <<Token("word", node.keyword)>> \o Written(node, entry.form) \o Rest(node, entry.rest)
    \o WrittenBody(node.nodes, entry.body)
Unparse(nodes, block) ==
    IF nodes = <<>> THEN <<>>
    ELSE WrittenNode(Head(nodes), block[Head(nodes).keyword]) \o Unparse(Tail(nodes), block)
Text(tree) ==
    <<Token("word", "design"), Atom(tree.name), Token("{", "")>> \o Unparse(tree.nodes, Grammar)
    \o <<Token("}", ""), End>>
Placed(tokens) == [i \in DOMAIN tokens |-> tokens[i] @@ ("place" :> i)]
=============================================================================
