---------------------------- MODULE FormSchemas ----------------------------
(***************************************************************************)
(* From an RGD to the form its instances are deployed with.                *)
(*                                                                         *)
(* The resources of an RGD become a resource graph in two ways: by kro's   *)
(* graph builder and an adapter (kro/graph/adapter.go, secretrefs.go), or, *)
(* while there is no such graph, by a parser of the project's own          *)
(* (kro/parser/resource_parser.go).  The schema is enriched from either    *)
(* (kro/schema/enricher.go, kro/cel/condition_analyzer.go): sections with  *)
(* the fields that a condition hides, pickers for references to existing   *)
(* objects, marks on the fields that a collection runs over.  The web form *)
(* shows a field by the sections and the values filled in                  *)
(* (useFieldVisibility.ts).                                                *)
(*                                                                         *)
(* A path of schema.spec is a sequence of names.  An expression is known   *)
(* by what it mentions: paths, resources, and names followed by a dot in   *)
(* its literal text.                                                       *)
(***************************************************************************)
EXTENDS Naturals, Sequences

CONSTANTS
  Manifest, \* the RGDs: sequences of resources
  Child,    \* the RGDs of the catalog by the kind they define
  Crd,      \* the schemas the CRD can have: sets of paths
  None

VARIABLES
  rgd,     \* the resources of the RGD
  crdOf,   \* the paths in the schema of its CRD
  built,   \* the graph builder has a graph of it
  form,    \* the form that is open, None for none
  values   \* the fields of the form that are switched on

vars == <<rgd, crdOf, built, form, values>>

(* A resource as written: a template or an externalRef with an id (None if *)
(* left out), what its content mentions, includeWhen as a sequence of      *)
(* conditions, forEach as a sequence of sources, and name and namespace of *)
(* an externalRef.                                                         *)
Template(id, kind, fields, roots, texts, cond, each) ==
  [form |-> "template", id |-> id, kind |-> kind, fields |-> fields, roots |-> roots,
   texts |-> texts, cond |-> cond, each |-> each, name |-> <<>>, ns |-> <<>>]
(* name and ns: "literal", "computed" or a path behind the word "field".   *)
PathOf(e) == IF e # <<>> /\ e[1] = "field" THEN {Tail(e)} ELSE {}
External(id, kind, name, ns, cond) ==
  [form |-> "externalRef", id |-> id, kind |-> kind, roots |-> {}, texts |-> {},
   fields |-> PathOf(name) \cup PathOf(ns), cond |-> cond, each |-> <<>>,
   name |-> name, ns |-> ns]
(* A condition: all, any or none of its terms, each a field and a value.   *)
Condition(op, terms) == [op |-> op, terms |-> terms]
Term(f, v) == [field |-> f, value |-> v]

Resource ==
  [form : {"template", "externalRef"}, id : {None} \cup STRING, kind : STRING,
   fields : SUBSET Seq(STRING), roots : SUBSET STRING, texts : SUBSET STRING,
   cond : Seq([op : {"all", "any", "none"}, terms : Seq([field : STRING, value : BOOLEAN])]),
   each : Seq(Seq(STRING)), name : Seq(STRING), ns : Seq(STRING)]
-----------------------------------------------------------------------------
(* Resource graphs.                                                        *)

\* Mutant: the explicit id of a resource is not looked at.
KindAsID(res) == res.kind

(* extractInternalID: the id, or else the kind in lower case.              *)
InternalID(res) == IF res.id # None THEN res.id ELSE res.kind

(* idByInternalID: of two resources with one internal ID the later counts. *)
Named(r, id) ==
  LET is == {i \in DOMAIN r : InternalID(r[i]) = id}
  IN  {i \in is : \A j \in is : j <= i}

\* Mutant: no look at the character in front, so that fields match as well.
MentionedAnywhere(res, id) ==
  \/ id \in res.roots \cup res.texts
  \/ \E p \in res.fields : \E k \in 1..(Len(p) - 1) : p[k] = id

(* isResourceRef: the name and a dot, not after a letter, digit or dot.    *)
IsResourceRef(res, id) == id \in res.roots \cup res.texts

(* resolveDependencies, findInternalReferences: only the template or the   *)
(* externalRef is searched.                                                *)
DependsOn(r, i) ==
  {j \in DOMAIN r : \E id \in {InternalID(r[k]) : k \in DOMAIN r} :
     IsResourceRef(r[i], id) /\ j \in Named(r, id)} \ {i}

(* Passthrough: name and namespace are schema.spec.externalRef.<id>.*.     *)
Passthrough(res, id) ==
  /\ id # None
  /\ res.name = <<"field", "externalRef", id, "name">>
  /\ res.ns \in {<<>>, <<"field", "externalRef", id, "namespace">>}
Dynamic(e) == e # <<>> /\ e[1] \in {"field", "computed"}
SecretType(res, id) ==
  IF Passthrough(res, id) THEN "provided"
  ELSE IF Dynamic(res.name) \/ Dynamic(res.ns) THEN "dynamic" ELSE "fixed"

(* extractSecretRefs: the externalRefs of kind Secret.                     *)
ParsedSecrets(r) ==
  {[at |-> i, id |-> InternalID(r[i]), type |-> SecretType(r[i], InternalID(r[i]))] :
    i \in {j \in DOMAIN r : r[j].form = "externalRef" /\ r[j].kind = "Secret"}}

(* What kro's builder accepts: ids that are unique, references to other    *)
(* resources that exist, without a cycle.                                  *)
EachRoots(res) == {s[2] : s \in {res.each[k] : k \in {k \in DOMAIN res.each : res.each[k][1] = "resource"}}}
KroDependsOn(r, i) == {j \in DOMAIN r : r[j].id \in r[i].roots \cup EachRoots(r[i])}
Accepted(r) ==
  /\ \A i \in DOMAIN r : r[i].id # None
  /\ \A i, j \in DOMAIN r : i # j => r[i].id # r[j].id
  /\ \A i \in DOMAIN r : r[i].roots \cup EachRoots(r[i]) \subseteq {r[j].id : j \in DOMAIN r} \ {r[i].id}
  /\ \A i, j \in DOMAIN r : ~(j \in KroDependsOn(r, i) /\ i \in KroDependsOn(r, j))

(* ExtractSecretRefs: the external nodes of kind Secret; an external node  *)
(* without a name is a collection.                                         *)
GraphSecrets(r) ==
  {[at |-> i, id |-> r[i].id, type |-> SecretType(r[i], r[i].id)] :
    i \in {j \in DOMAIN r : r[j].form = "externalRef" /\ r[j].kind = "Secret" /\ r[j].name # <<>>}}

SchemaFields(res) == res.fields

(* parseResource and resolveDependencies.  The delimiters of each          *)
(* condition are kept when they are joined.                                *)
Parsed(r, i) ==
  [kind |-> r[i].kind, isTemplate |-> r[i].form = "template", fields |-> SchemaFields(r[i]),
   cond |-> r[i].cond, joined |-> Len(r[i].cond) > 1, each |-> r[i].each,
   name |-> r[i].name, ns |-> r[i].ns, dependsOn |-> DependsOn(r, i)]

(* nodeToResourceDefinition, with the dependencies that kro found.         *)
Adapted(r, i) == [Parsed(r, i) EXCEPT !.joined = FALSE, !.dependsOn = KroDependsOn(r, i)]

(* ParseRGDResources, GetResourceGraph.                                    *)
ParsedGraph(r)  == [resources |-> [i \in DOMAIN r |-> Parsed(r, i)], secrets |-> ParsedSecrets(r)]
AdaptedGraph(r) == [resources |-> [i \in DOMAIN r |-> Adapted(r, i)], secrets |-> GraphSecrets(r)]
GraphOf(r, byKro) == IF byKro THEN AdaptedGraph(r) ELSE ParsedGraph(r)
-----------------------------------------------------------------------------
(* Conditional sections.                                                   *)

TermsOf(cs)      == UNION {{c.terms[k] : k \in DOMAIN c.terms} : c \in cs}
Terms(cond)      == TermsOf({cond[k] : k \in DOMAIN cond})
CondFields(cond) == {t.field : t \in Terms(cond)}

\* None is neither a value nor a set of terms.
ASSUME FormsAssumption ==
  /\ Manifest \subseteq Seq(Resource) /\ None \notin BOOLEAN
  /\ \A r \in Manifest : \A i \in DOMAIN r : None # Terms(r[i].cond)

(* AnalyzeCondition: comparisons joined by && become rules.  Of several    *)
(* joined conditions only the outer delimiters are stripped, and what is   *)
(* left does not parse.                                                    *)
ClientEvaluable(res) == ~res.joined /\ \A k \in DOMAIN res.cond : res.cond[k].op = "all"

(* extractExpectedValue: the first of "== true" and "== false" that occurs *)
(* in the text.  A negated field is written without a comparison.          *)
ExpectedValue(res) ==
  LET compared == TermsOf({c \in {res.cond[k] : k \in DOMAIN res.cond} : c.op # "none"})
  IN  IF \E t \in compared : t.value THEN TRUE
      ELSE IF \E t \in compared : ~t.value THEN FALSE ELSE None

Always(g)      == {i \in DOMAIN g.resources : g.resources[i].cond = <<>>}
Conditional(g) == DOMAIN g.resources \ Always(g)

(* collectNonConditionalSchemaFields.                                      *)
NonConditionalFields(g) == UNION {g.resources[i].fields : i \in Always(g)}

\* Mutant: fields of the resources that are always there are hidden as well.
AffectedByAny(g, i) == {p[1] : p \in g.resources[i].fields}

(* The names of the form that a conditional resource uses, without those   *)
(* that a resource uses that is always there.                              *)
Affected(g, i) ==
  {p[1] : p \in g.resources[i].fields} \ {p[1] : p \in NonConditionalFields(g)}

(* extractConditionalSections: one section for each field of a condition.  *)
(* Its condition is that of the first resource, its fields are of all.     *)
Section(g, f) ==
  LET is == {i \in Conditional(g) : f \in CondFields(g.resources[i].cond)}
      first == g.resources[CHOOSE i \in is : \A j \in is : i <= j]
  IN  [field |-> f, rules |-> IF ClientEvaluable(first) THEN Terms(first.cond) ELSE None,
       expected |-> ExpectedValue(first), affected |-> UNION {Affected(g, i) : i \in is}]

Sections(g) == {Section(g, f) : f \in UNION {CondFields(g.resources[i].cond) : i \in Conditional(g)}}
-----------------------------------------------------------------------------
(* Pickers and marks.                                                      *)

Parent(e) == SubSeq(e, 2, Len(e) - 1)

\* Mutant: a picker for names and namespaces that are not nested only.
TopLevelPickers(g) ==
  {[path |-> Parent(g.resources[i].name), kind |-> g.resources[i].kind] :
    i \in {j \in DOMAIN g.resources : LET x == g.resources[j] IN
             ~x.isTemplate /\ Len(x.name) = 2 /\ Len(x.ns) = 2}}

(* addExternalRefSelectors: an externalRef whose name and namespace are    *)
(* two fields of one object of the schema.                                 *)
Pickers(g) ==
  {[path |-> Parent(g.resources[i].name), kind |-> g.resources[i].kind] :
    i \in {j \in DOMAIN g.resources : LET x == g.resources[j] IN
             /\ ~x.isTemplate /\ Len(x.name) > 2 /\ Len(x.ns) > 2
             /\ x.name[1] = "field" /\ x.ns[1] = "field" /\ Parent(x.name) = Parent(x.ns)}}

(* resolveNestedExternalRefKind: the kind of the first externalRef that    *)
(* the RGD of the template's kind fills from the field of the same name.   *)
NestedKind(res, path) ==
  LET r  == IF res.kind \in DOMAIN Child THEN Child[res.kind] ELSE <<>>
      is == {k \in DOMAIN r : r[k].form = "externalRef" /\ r[k].name = <<"field">> \o path \o <<"name">>}
  IN  IF is = {} THEN None ELSE r[CHOOSE k \in is : \A j \in is : k <= j].kind

(* addNestedExternalRefSelectors: templates that take name and namespace   *)
(* from one object below externalRef, unless it has a picker by then.      *)
NestedPaths(res) ==
  {SubSeq(p, 1, Len(p) - 1) : p \in {q \in res.fields :
     q[1] = "externalRef" /\ Len(q) > 2 /\ q[Len(q)] = "name"
     /\ [q EXCEPT ![Len(q)] = "namespace"] \in res.fields}}
NestedPickers(g, have) ==
  LET able(path) == {i \in DOMAIN g.resources : LET x == g.resources[i] IN
                       x.isTemplate /\ path \in NestedPaths(x) /\ NestedKind(x, path) # None}
      paths == {path \in UNION {NestedPaths(g.resources[i]) : i \in DOMAIN g.resources} :
                  able(path) # {} /\ ~\E h \in have : h.path = path}
  IN  {[path |-> path, kind |-> NestedKind(g.resources[CHOOSE i \in able(path) : \A j \in able(path) : i <= j], path)] :
        path \in paths}

(* The sources of collections, and addCollectionAnnotations, which looks   *)
(* for them with "spec" in front below the properties of spec.             *)
Driving(g) ==
  {Tail(s) : s \in {x \in UNION {{g.resources[i].each[k] : k \in DOMAIN g.resources[i].each} :
                                 i \in DOMAIN g.resources} : x[1] = "schema"}}
Marked(g, crd) == {<<"spec">> \o p : p \in Driving(g)} \cap crd

(* validateControllingField, attachResourcePickerToParent: what is not in  *)
(* the schema is an error.                                                 *)
Controllable(sections, crd) == \A s \in sections : <<s.field>> \in crd
Attachable(pickers, crd)    == \A p \in pickers : p.path \in crd

(* EnrichSchemaFromResources: an error ends the enrichment, and leaves     *)
(* what was done by then.                                                  *)
Enrich(g, crd) ==
  LET own   == Pickers(g)
      all   == own \cup NestedPickers(g, own)
      blank == [sections |-> {}, pickers |-> {}, marked |-> {}, failed |-> TRUE]
  IN  IF ~Controllable(Sections(g), crd) THEN blank
      ELSE IF ~Attachable(own, crd) THEN [blank EXCEPT !.sections = Sections(g)]
      ELSE IF ~Attachable(all, crd) THEN [blank EXCEPT !.sections = Sections(g), !.pickers = own]
      ELSE [sections |-> Sections(g), pickers |-> all, marked |-> Marked(g, crd), failed |-> FALSE]
-----------------------------------------------------------------------------
(* The form.                                                               *)

(* evaluateSectionCondition: the rules, or the expected value; without     *)
(* either the field must be on.                                            *)
Met(s, on) ==
  IF s.rules # None THEN \A t \in s.rules : (t.field \in on) = t.value
  ELSE IF s.expected # None THEN (s.field \in on) = s.expected ELSE s.field \in on

\* Mutant: hidden by one section whose condition is not met (useConditionalFields).
VisibleIfAll(f, sections, on) ==
  f \in {s.field : s \in sections} \/ \A s \in sections : f \in s.affected => Met(s, on)

(* useFieldVisibility: hidden when no section of the field is met; fields  *)
(* that control a section are always visible.                              *)
Visible(f, sections, on) ==
  \/ f \in {s.field : s \in sections}
  \/ \A s \in sections : f \notin s.affected
  \/ \E s \in sections : f \in s.affected /\ Met(s, on)

Init ==
  /\ rgd \in Manifest /\ crdOf \in Crd /\ built \in {FALSE, Accepted(rgd)}
  /\ form = None /\ values = {}

(* The graph builder runs again when the RGD is synchronised.              *)
Rebuild ==
  /\ Accepted(rgd) /\ built' = ~built
  /\ UNCHANGED <<rgd, crdOf, form, values>>

(* GetSchema with the graph there is, and the empty form.                  *)
Open ==
  /\ form = None
  /\ LET e == Enrich(GraphOf(rgd, built), crdOf)
     IN form' = [sections |-> e.sections, pickers |-> e.pickers, marked |-> e.marked,
                 failed |-> e.failed, byKro |-> built]
  /\ values' = {}
  /\ UNCHANGED <<rgd, crdOf, built>>

(* The user switches a field that is shown.                                *)
Fill ==
  /\ form # None
  /\ \E f \in {p[1] : p \in {q \in crdOf : Len(q) = 1}} :
       /\ Visible(f, form.sections, values)
       /\ values' = IF f \in values THEN values \ {f} ELSE values \cup {f}
  /\ UNCHANGED <<rgd, crdOf, built, form>>

Next == Rebuild \/ Open \/ Fill
Spec == Init /\ [][Next]_vars
-----------------------------------------------------------------------------
(* The form and its values are over the fields of the schema.              *)
TypeOK ==
  /\ rgd \in Manifest /\ crdOf \in Crd /\ built \in BOOLEAN
  /\ form = None \/ (form.failed \in BOOLEAN /\ form.marked \subseteq crdOf)
  /\ values \subseteq {p[1] : p \in crdOf}

Holds(c, on) ==
  LET met == {k \in DOMAIN c.terms : (c.terms[k].field \in on) = c.terms[k].value} IN
  CASE c.op = "all" -> met = DOMAIN c.terms
    [] c.op = "any" -> met # {}
    [] OTHER -> met = {}
Included(res, on) == \A k \in DOMAIN res.cond : Holds(res.cond[k], on)
UsedIsShown(res) == \A p \in res.fields : Visible(p[1], form.sections, values)

(* "These fields should never be hidden by conditional sections"           *)
(* (enricher.go:103): what a resource uses that is always there is shown,   *)
(* whatever is filled in and whichever way the graph was made.             *)
NeededIsShown ==
  form # None => \A i \in DOMAIN rgd : rgd[i].cond = <<>> => UsedIsShown(rgd[i])

(* What a resource uses that the values include is shown, if conditions    *)
(* are conjunctions of comparisons and two that share a field are the same. *)
Plain(i) ==
  /\ \A k \in DOMAIN rgd[i].cond : rgd[i].cond[k].op = "all" /\ rgd[i].cond[k].terms # <<>>
  /\ \A j \in DOMAIN rgd : rgd[j].cond # rgd[i].cond =>
       CondFields(rgd[j].cond) \cap CondFields(rgd[i].cond) = {}
IncludedIsShown ==
  form # None => \A i \in DOMAIN rgd : (Plain(i) /\ Included(rgd[i], values)) => UsedIsShown(rgd[i])

(* The parser stands in for kro's builder: of an RGD that kro accepts it   *)
(* finds the same dependencies, except those of forEach, which it does not *)
(* search, and those it takes literal text for.                            *)
EdgesAgree ==
  Accepted(rgd) => \A i, j \in DOMAIN rgd : i # j =>
    /\ rgd[j].id \in rgd[i].roots =>
         j \in GraphOf(rgd, TRUE).resources[i].dependsOn \cap GraphOf(rgd, FALSE).resources[i].dependsOn
    /\ (j \in GraphOf(rgd, FALSE).resources[i].dependsOn /\ rgd[j].id \notin rgd[i].texts) =>
         j \in GraphOf(rgd, TRUE).resources[i].dependsOn

(* "preserves the same classification logic" (secretrefs.go:17): both ways *)
(* find the same secrets of the same types, external collections aside.    *)
SecretsAgree ==
  Accepted(rgd) =>
    {s \in GraphOf(rgd, FALSE).secrets : rgd[s.at].name # <<>>} = GraphOf(rgd, TRUE).secrets

(* The catalog does not say where a provided secret is because the user    *)
(* picks it: the form then has a picker of secrets at that place.          *)
ProvidedHasPicker ==
  (form # None /\ ~form.failed) => \A s \in GraphOf(rgd, form.byKro).secrets :
    (s.type = "provided" /\ rgd[s.at].ns # <<>>) =>
      [path |-> <<"externalRef", s.id>>, kind |-> "Secret"] \in form.pickers
=============================================================================
