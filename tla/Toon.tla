-------------------------------- MODULE Toon --------------------------------
(***************************************************************************)
(* internal/formatter/toon.go: what the TOON form of a resolved schema     *)
(* prints.  An answer of the extractor is a sequence of nodes, a node      *)
(* before those under it; a node is printed in one of four ways:           *)
(*   "schema"  toonSchema, on lines of its own                             *)
(*   "type"    extractSchemaType, after the name of what has that type     *)
(*   "all"     toonValue, with everything under it                         *)
(*   "none"    not at all                                                  *)
(***************************************************************************)
EXTENDS Extractor

\* extractSchemaType(n) # "": a name, an enum, any array, any type but an
\* object with properties.
TypeText(d, n) ==
  LET s == d.schemas[n.place.schema] IN
  \/ n.what # "full" \/ s.enum \/ s.type = "array"
  \/ s.type # "" /\ ~(s.type = "object" /\ Labels(d, n.place.schema) # {})

TypeOrElse(d, n, mode) == IF TypeText(d, n) THEN "type" ELSE mode

\* The combination toonSchema prints: the first there is.
Combination(d, v) ==
  CASE Held(d, v, "allOf") # {} -> "allOf"
    [] Held(d, v, "oneOf") # {} -> "oneOf"
    [] Held(d, v, "anyOf") # {} -> "anyOf"
    [] OTHER -> "none"

\* FormatEndpointTOON, FormatSchemaTOON: bodies and component on lines of
\* their own, parameters and headers as a type or not at all.
RootMode(d, n) ==
  IF n.place.slot.part \in {"content", "schema"} THEN "schema" ELSE TypeOrElse(d, n, "none")

\* toonSchema of u, for the node n it holds by an edge of this kind.
UnderSchema(d, u, n, kind) ==
  LET s == d.schemas[u]
      object == s.type = "object" \/ Labels(d, u) # {} IN
  CASE s.enum -> "none"
    [] ~s.enum /\ s.type = "array" -> IF kind = "items" THEN TypeOrElse(d, n, "schema") ELSE "none"
    [] ~s.enum /\ s.type # "array" /\ object ->
         IF kind = "properties" THEN TypeOrElse(d, n, "schema") ELSE "none"
    [] ~s.enum /\ s.type # "array" /\ ~object /\ s.type # "" -> "none"
    [] OTHER -> IF Combination(d, u) \in {kind, "none"}
                THEN (IF Combination(d, u) = kind THEN "schema" ELSE "all") ELSE "none"

\* extractSchemaType of u: an array names the type of its items, if it has one.
UnderType(d, u, n, kind) ==
  IF ~d.schemas[u].enum /\ d.schemas[u].type = "array" /\ kind = "items"
  THEN TypeOrElse(d, n, "none") ELSE "none"

IsUnder(n, p) ==
  /\ n.place.slot = p.place.slot
  /\ n.place.path # << >>
  /\ p.place.path = SubSeq(n.place.path, 1, Len(n.place.path) - 1)

EdgeTo(d, p, n) == Edges(d, p.place.schema)[n.place.path[Len(n.place.path)]]

\* How each node of ans is printed.
Modes(d, ans) ==
  LET mode[i \in DOMAIN ans] ==
        IF ans[i].place.path = << >> THEN RootMode(d, ans[i])
        ELSE LET j == CHOOSE k \in DOMAIN ans : IsUnder(ans[i], ans[k])
                 u == ans[j].place.schema
                 kind == EdgeTo(d, ans[j], ans[i]).kind IN
             CASE mode[j] = "schema" -> UnderSchema(d, u, ans[i], kind)
               [] mode[j] = "type" -> UnderType(d, u, ans[i], kind)
               [] mode[j] \in {"all", "none"} -> mode[j] IN
  mode

Printed(d, ans) == LET mode == Modes(d, ans) IN {ans[i] : i \in {k \in DOMAIN ans : mode[k] # "none"}}
=============================================================================
