------------------------------ MODULE SpecIndex ------------------------------
(***************************************************************************)
(* What the local index promises its callers, without SQLite: a map from   *)
(* spec names to the source and document stored under them.  A store       *)
(* either happens at one instant or not at all; a name owned by another    *)
(* source is refused; storing a source under a new name moves it there.    *)
(***************************************************************************)
CONSTANTS Names, Sources, Docs, NoSpec

VARIABLE index      \* Names -> a record of source and document, or NoSpec

EmptyIndex == [n \in Names |-> NoSpec]
Listed(i) == {n \in Names : i[n] # NoSpec}

\* Put: the name is free or already belongs to this source.
MayStore(i, n, s) == i[n] # NoSpec => i[n].source = s

Owned(i, n, s) == i[n] # NoSpec /\ i[n].source = s

Stored(i, n, s, d) ==
  [m \in Names |-> IF m = n THEN [source |-> s, doc |-> d]
                   ELSE IF Owned(i, m, s) THEN NoSpec
                   ELSE i[m]]

Store(n, s, d) == MayStore(index, n, s) /\ index' = Stored(index, n, s, d)

\* Delete.
Remove(n) ==
  /\ index[n] # NoSpec
  /\ index' = [index EXCEPT ![n] = NoSpec]

Init == index = EmptyIndex

Next == \E n \in Names : \/ \E s \in Sources, d \in Docs : Store(n, s, d)
                         \/ Remove(n)

Spec == Init /\ [][Next]_index
=============================================================================
