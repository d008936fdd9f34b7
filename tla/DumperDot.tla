------------------------------- MODULE DumperDot -------------------------------
(***************************************************************************)
(* ast::DumperDot, which draws a tree for Graphviz: a box for each node,   *)
(* made of HTML tables whose cells are ports, and an arrow from a port of  *)
(* a box to the box of a child.  What is written is a sequence of boxes    *)
(* and arrows, and a box a sequence of marks; what a cell says, colours and*)
(* locations are left out.  The code names a box by the address of the     *)
(* node, which is here its path from the root.                             *)
(*                                                                         *)
(* The visits of several classes have lost their ports or the visits of    *)
(* their children ("Some code was deleted here"): they are modelled as     *)
(* they are.  dump_def has lost the definition, so it draws nothing.       *)
(***************************************************************************)
EXTENDS Ast

(* Every opening indents what follows it, and every closing ends that.     *)
Open(tag) == << [mark |-> "open", tag |-> tag] >>
Close(tag) == << [mark |-> "close", tag |-> tag] >>
Cell(port) == << [mark |-> "cell", port |-> port] >>
Cells(ports) == FlatMap(ports, Cell)
Box(id, marks) == << [item |-> "box", id |-> id, marks |-> Open("label") \o marks \o Close("label")] >>
Arrow(from, port, to) == << [item |-> "arrow", from |-> from, port |-> port, to |-> to] >>

(* A port of a list is its name and the index in it, when there is one.    *)
Port(name) == << name >>
NthPort(name, n) == << name, n >>

BeginInner == Open("td") \o Open("table") \o Open("tr")
EndInner == Close("tr") \o Close("table") \o Close("td")
Separator == EndInner \o Close("tr") \o Open("tr") \o BeginInner

-----------------------------------------------------------------------------
(* What the visit of a class writes: its fields, whether it begins a row   *)
(* of ports and which, and the ports its children are dumped at, in the    *)
(* order of the children.                                                  *)
Visit(fields, row, ports, dumped) ==
  [fields |-> fields, row |-> row, ports |-> ports, dumped |-> dumped]
Lone(fields) == Visit(fields, FALSE, << >>, << >>)
Using(fields) == Visit(fields, TRUE, << "def" >>, << >>)
Over(fields, ports) == Visit(fields, TRUE, ports, ports)

VisitsArrayToField ==
  [ArrayExp |-> Lone(<< >>), ArrayTy |-> Over(<< >>, << "base_type" >>),
   AssignExp |-> Lone(<< >>), BreakExp |-> Using(<< >>), CallExp |-> Using(<< >>),
   CastExp |-> Over(<< >>, << "exp", "ty" >>),
   Field |-> Over(<< "name" >>, << "type_name" >>),
   FieldInit |-> Over(<< "name" >>, << "init" >>), FieldVar |-> Lone(<< >>)]
VisitsForToNil ==
  [ForExp |-> Over(<< >>, << "vardec", "hi", "body" >>),
   FunctionDec |-> Over(<< "name" >>, << "formals", "result", "body" >>),
   IfExp |-> Lone(<< >>), IntExp |-> Lone(<< "value" >>), LetExp |-> Lone(<< >>),
   NameTy |-> Using(<< "name" >>), NilExp |-> Lone(<< >>)]
VisitsOpToWhile ==
  [OpExp |-> Over(<< "oper" >>, << "left", "right" >>), RecordExp |-> Lone(<< >>),
   RecordTy |-> Over(<< >>, << >>), SeqExp |-> Over(<< >>, << >>),
   SimpleVar |-> Using(<< "name" >>), StringExp |-> Lone(<< >>),
   SubscriptVar |-> Over(<< >>, << "var", "index" >>), TypeDec |-> Over(<< "name" >>, << "ty" >>),
   VarDec |-> Over(<< "name" >>, << "type_name", "init" >>),
   WhileExp |-> Over(<< >>, << "test", "body" >>)]
VisitOf == VisitsArrayToField @@ VisitsForToNil @@ VisitsOpToWhile

Chunks == {"ChunkList", "FunctionChunk", "TypeChunk", "VarChunk"}

(* node_html_ports leaves the row of the fields, if there is one.          *)
Ports(inner_fields, ports) == (IF inner_fields = 0 THEN << >> ELSE Separator) \o Cells(Each(ports, Port))

(* node_html_header and node_html_footer: a row without a cell gets one.   *)
Header == Open("table") \o Open("tr") \o BeginInner \o Cell(Port("nodename")) \o Separator
Footer(inner_fields) ==
  (IF inner_fields = 0 THEN Cell(<< >>) ELSE << >>) \o EndInner \o Close("tr") \o Close("table")

NodeBox(v, id) ==
  LET inner_fields == IF v.row THEN Len(v.ports) ELSE Len(v.fields)
  IN Box(id, Header \o Cells(Each(v.fields, Port))
             \o (IF v.row THEN Ports(Len(v.fields), v.ports) ELSE << >>) \o Footer(inner_fields))

\* Mutant: the numbered ports of a list have the name of its class.
PortListNamed(size, kind) ==
  BeginInner \o Cell(Port("nodename"))
  \o (IF size > 1 THEN Close("tr") \o Open("tr") \o FlatMap([n \in 1..size |-> n - 1], LAMBDA n : Cell(NthPort(kind, n)))
      ELSE << >>)
  \o EndInner

(* node_html_port_list, of a chunk: two or more elements have a port each. *)
PortList(size, kind) ==
  BeginInner \o Cell(Port("nodename"))
  \o (IF size > 1
      THEN Close("tr") \o Open("tr")
           \o FlatMap([n \in 1..size |-> n - 1], LAMBDA n : Cell(NthPort("nodename", n)))
      ELSE << >>)
  \o EndInner

ChunkBox(n, id) ==
  Box(id, Open("table") \o Open("tr") \o PortList(Len(n.kids), n.kind)
          \o Close("tr") \o Close("table"))

(* display_link: the root has no parent, and no field of it.               *)
Link(parent, field, id) == IF field = << >> THEN << >> ELSE Arrow(parent, field, id)

(* dump_list: the element of a list of one is not numbered.                *)
ListField(size, i) == IF size = 1 THEN Port("nodename") ELSE NthPort("nodename", i - 1)

(* dump draws no null pointer; a box, and its link, come before the boxes  *)
(* of the children.                                                        *)
RECURSIVE Dump(_, _, _, _)
Dump(n, id, parent, field) ==
  IF n = Null THEN << >>
  ELSE IF n.kind \in Chunks
  THEN ChunkBox(n, id) \o Link(parent, field, id)
       \o FlatMap([i \in DOMAIN n.kids |-> i],
                  LAMBDA i : Dump(n.kids[i], Append(id, i), id, ListField(Len(n.kids), i)))
  ELSE LET v == VisitOf[n.kind]
       IN NodeBox(v, id) \o Link(parent, field, id)
          \o FlatMap([i \in DOMAIN v.dumped |-> i],
                     LAMBDA i : Dump(n.kids[i], Append(id, i), id, Port(v.dumped[i])))

dump_dot(tree) == Dump(tree, << >>, << >>, << >>)

-----------------------------------------------------------------------------
Drawn(drawing, item) == SelectSeq(drawing, LAMBDA m : m.item = item)
PortsOf(box) == {m.port : m \in {k \in ToSet(box.marks) : k.mark = "cell"}}

(* Whether every closing of a text is that of the last opening that is not *)
(* closed, and none is left.                                               *)
Nests(marks) ==
  Accumulate(LAMBDA open, m :
    CASE m.mark = "open" -> Append(open, m.tag)
      [] m.mark = "close" -> IF open # << >> /\ Last(open) = m.tag THEN Front(open) ELSE << "wrong" >>
      [] OTHER -> open, << >>, marks) = << >>

(* The classes whose children are not drawn, and the nodes not below one,  *)
(* by their paths, in the order of the traversal.                          *)
Undrawn == {"ArrayExp", "AssignExp", "CallExp", "FieldVar", "IfExp", "LetExp", "RecordExp",
            "RecordTy", "SeqExp"}
RECURSIVE Paths(_, _)
Paths(n, id) ==
  IF n = Null THEN << >>
  ELSE << id >> \o (IF n.kind \in Undrawn THEN << >>
                    ELSE FlatMap([i \in DOMAIN n.kids |-> i],
                                 LAMBDA i : Paths(n.kids[i], Append(id, i))))

(* The text is one Graphviz can read: labels, tables, rows and cells nest  *)
(* (so the indentation never goes below none) and no row is empty; every   *)
(* node in sight has one box, a parent before its children; and every box  *)
(* but that of the root has one arrow, which comes from a port that its    *)
(* parent's box does have, and from no port another child hangs from.      *)
DrawsTree(n) ==
  LET drawing == dump_dot(n)
      boxes == ToSet(Drawn(drawing, "box"))
      arrows == Drawn(drawing, "arrow")
      Readable(marks) ==
        /\ Nests(marks)
        /\ \A k \in DOMAIN marks : marks[k] = Open("tr")[1] => marks[k + 1].mark # "close"
  IN /\ \A box \in boxes : Readable(box.marks)
     /\ Each(Drawn(drawing, "box"), LAMBDA box : box.id) = Paths(n, << >>)
     /\ Len(arrows) = Cardinality(boxes) - 1
     /\ \A i \in DOMAIN arrows :
          LET from == Front(arrows[i].to)
          IN /\ arrows[i].from = from
             /\ \E box \in boxes : box.id = from /\ arrows[i].port \in PortsOf(box)
             /\ \A j \in DOMAIN arrows :
                  i # j /\ arrows[j].from = from => arrows[j].port # arrows[i].port
=============================================================================
