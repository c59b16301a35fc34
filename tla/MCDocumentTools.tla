-------------------------- MODULE MCDocumentTools --------------------------
(* Small documents that hold every kind of schema, for TLC.  Components are *)
(* 1..3, schemas in place 4..8, words 21..24, tag words 31 and 32.          *)
EXTENDS DocumentTools

Sch(type, edges) == [type |-> type, enum |-> FALSE, edges |-> edges]
Enum == [type |-> "string", enum |-> TRUE, edges |-> << >>]
Str == Sch("string", << >>)
Prop(label, v) == [kind |-> "properties", label |-> label, to |-> v]
Edge(kind, v) == [kind |-> kind, label |-> 0, to |-> v]
Array(v) == Sch("array", <<Edge("items", v)>>)
Map(v) == Sch("object", <<Edge("additionalProperties", v)>>)

Param(name, v) == [name |-> name, schema |-> v]
Body(v) == [m \in {1} |-> v]
Resp(code, headers, content) == [code |-> code, headers |-> headers, content |-> content]
Op(tags, params, request, responses) ==
  [tags |-> tags, deprecated |-> FALSE, text |-> <<{}, {21}, {}, {}>>,
   params |-> params, pathParams |-> << >>, request |-> request, responses |-> responses]

\* Orders of users, users of orders: nothing nested in place.
Shop ==
  [schemas |->
     <<Sch("object", <<Prop(21, 2), Prop(22, 4), Prop(24, 3)>>),
       Sch("object", <<Prop(22, 5), Prop(23, 6)>>),
       Sch("object", <<Prop(23, 7), Edge("additionalProperties", 2)>>),
       Array(3), Array(1), Str, Enum, Array(2)>>,
   ops |->
     (<<1, 1>> :> Op(<<<<31, 1>>>>, << >>, << >>, <<Resp(200, << >>, Body(8))>>)) @@
     (<<1, 2>> :> [Op(<<<<31, 1>>, <<32, 1>>>>, <<Param(24, 6)>>, [m \in 1..2 |-> m],
                     <<Resp(200, <<6>>, Body(1)), Resp(400, << >>, Body(3))>>)
                   EXCEPT !.pathParams = <<Param(24, 3), Param(23, 2)>>, !.text[4] = {24}]) @@
     (<<2, 1>> :> [Op(<<<<31, 2>>>>, << >>, << >>, <<Resp(200, << >>, Body(2))>>)
                   EXCEPT !.deprecated = TRUE])]

\* Combinations whose members are written in place.
Shapes ==
  [schemas |->
     <<Sch("", <<Edge("oneOf", 4), Edge("oneOf", 3)>>),
       Sch("", <<Edge("allOf", 3), Edge("allOf", 6)>>),
       Sch("object", <<Prop(21, 3)>>),
       Sch("object", <<Prop(22, 5)>>), Array(2),
       Sch("object", <<Prop(23, 7)>>), Map(1), Sch("", <<Edge("anyOf", 1)>>)>>,
   ops |->
     (<<1, 1>> :> Op(<< >>, <<Param(22, 3)>>, << >>, <<Resp(200, << >>, Body(1))>>)) @@
     (<<1, 2>> :> Op(<<<<31, 1>>, <<31, 1>>>>, << >>, Body(8), <<Resp(200, << >>, << >>)>>))]

\* Maps of lists, and two schemas in place for one body.
Maps ==
  [schemas |->
     <<Sch("object", <<Prop(21, 4)>>), Sch("", <<Edge("additionalProperties", 3)>>),
       Sch("object", <<Prop(22, 6), Prop(23, 3)>>),
       Map(5), Array(2), Enum, Array(1), Str>>,
   ops |->
     (<<1, 1>> :> Op(<<<<32, 1>>>>, << >>, << >>,
                     <<Resp(200, << >>, [m \in 1..2 |-> IF m = 1 THEN 7 ELSE 2])>>)) @@
     (<<2, 1>> :> Op(<<<<31, 1>>>>, << >>, [m \in 1..2 |-> IF m = 1 THEN 7 ELSE 4], << >>))]

\* The same documents, and with a component's first edge made to lead to
\* another one.
Retargeted(d) ==
  {d} \cup {[d EXCEPT !.schemas[v].edges[1].to = u] : v, u \in Components}

MCRevisions == {Shop, Shapes, Maps}
MCDocuments == UNION {Retargeted(d) : d \in MCRevisions}
MCOthers == <<Maps>>
MCShop == {Shop}
MCMaps == {Maps}
MCFilters ==
  {NoFilter, [NoFilter EXCEPT !.tag = 31], [NoFilter EXCEPT !.method = 1],
   [NoFilter EXCEPT !.paths = {1}, !.deprecated = FALSE]}
MCOffsets == {-1, 1, 4}
MCDepths == {-1, 1, 2}
MCLimits == {-1, 0, 1}
=============================================================================
