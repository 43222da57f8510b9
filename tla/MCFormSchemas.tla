--------------------------- MODULE MCFormSchemas ---------------------------
(***************************************************************************)
(* RGDs of two resources for the model checker: a resource that is always  *)
(* there or conditional, and one that depends on it, refers to a secret or *)
(* hands one on to another RGD.                                            *)
(***************************************************************************)
EXTENDS FormSchemas

Eq(f, v)  == <<Condition("all", <<Term(f, v)>>)>>
Both     == <<Condition("all", <<Term("a", TRUE), Term("b", FALSE)>>)>>
Either   == <<Condition("any", <<Term("a", TRUE), Term("b", FALSE)>>)>>
Constant == <<Condition("all", <<>>)>>
Negated  == <<Condition("none", <<Term("a", TRUE)>>)>>
Ref(leaf) == <<"externalRef", "s", leaf>>
First ==
  {Template(id, "x", {<<"c">>}, {}, {}, c, <<>>) :
     id \in {"x", None}, c \in {<<>>, Eq("a", FALSE), Both, Eq("a", FALSE) \o Eq("b", TRUE), Negated}}
  \cup {Template("x", "Pod", {<<"c">>, <<"d">>}, {}, {}, Eq("a", TRUE), <<<<"schema", "c">>>>)}
Second ==
  {Template("y", "Pod", fields, {"x"}, {}, c, <<>>) :
     fields \in {{<<"c">>}, {<<"d">>}}, c \in {<<>>, Eq("a", TRUE), Eq("b", TRUE), Either, Constant}}
  \cup {Template("y", "Pod", {<<"x", "c">>}, {}, texts, <<>>, each) :
     texts \in {{}, {"x"}}, each \in {<<>>, <<<<"resource", "x", "status">>>>}}
  \cup {External("s", "Secret", name, ns, c) :
     name \in {<<>>, <<"literal">>, <<"field">> \o Ref("name"), <<"computed">>},
     ns \in {<<>>, <<"field">> \o Ref("namespace")}, c \in {<<>>, Eq("a", TRUE)}}
  \cup {Template("z", "Sub", {Ref("name"), Ref("namespace")}, {"x"}, {}, <<>>, <<>>)}
MCManifest == {<<x, y>> : x \in First, y \in Second}
MCChild    == [k \in {"Sub"} |-> <<External("s", "Secret", <<"field">> \o Ref("name"), <<>>, <<>>)>>]
MCCrd      == {{<<"a">>, <<"b">>, <<"c">>, <<"d">>, <<"externalRef", "s">>}, {<<"b">>, <<"c">>, <<"d">>}}
=============================================================================
