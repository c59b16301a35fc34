------------------------ MODULE QuerySession_proofs ------------------------
(***************************************************************************)
(* Proofs about QuerySession, for any number of handlers and store files.  *)
(* Whatever a call has found, or is about to answer with, was in the open  *)
(* file at a moment of the call: a row's hash is read inside the call, and *)
(* the cache is trusted only for a document that has it.  The names a call *)
(* has read or is still to read are those of one moment.                   *)
(***************************************************************************)
EXTENDS QuerySession, SequenceTheorems, FunctionTheorems, FiniteSetTheorems,
        TLAPS

Contents == [Names -> Docs \cup {NoDoc}]
Stored(m) == {n \in Names : m[n] # NoDoc}

Reads == {"row", "meta", "cached", "get", "store"}
Past == Reads \cup {"list", "answered"}

Results == [name : Names, doc : Docs]
Failed == [at |-> "error"]
Asked == [at : Past \cup {"open"}, kind : Kinds, wants : Seq(Names \cup {NoName}),
          todo : Seq(Names), sha : Docs \cup {NoDoc}, got : Docs \cup {NoDoc},
          answers : Seq(Results)]
Calls == {Quiet, Failed} \cup {c \in Asked : c.wants \in Wants(c.kind)}

Shapes ==
  /\ files \in [1..MaxFiles -> [Names -> [source : Sources, doc : Docs] \cup {NoSpec}]]
  /\ made \in 0..MaxFiles /\ there \in BOOLEAN
  /\ there => made # 0
  /\ handle \in 0..made
  /\ cache \in Contents
  /\ order \in Seq(Names)
  /\ moments \in [Handlers -> SUBSET Contents]
  /\ paths \in [Handlers -> SUBSET Contents]
  /\ call \in [Handlers -> Calls]

\* What is stored is put there spec by spec.
FilesAreFinite == \A f \in 1..MaxFiles : IsFiniteSet(Index!Listed(files[f]))

\* The specs a call has read or is still to read.
Covers(c) == {c.answers[i].name : i \in DOMAIN c.answers} \cup {c.todo[i] : i \in DOMAIN c.todo}

Unnamed(c) == c.kind \in {"detail", "listing"} /\ c.wants = <<NoName>>

\* At one of these moments, the spec n had the document d.
Had(ms, n, d) == \E m \in ms : m[n] = d

\* What a call is about to do is of a moment of the call.
AboutTo(c, ms) ==
  /\ c.at \in {"open", "list"} => c.answers = << >>
  /\ c.at \in Reads => c.todo # << >>
  /\ c.at = "answered" => c.todo = << >> /\ c.answers # << >>
  /\ c.at = "cached" => c.sha \in Docs /\ Had(ms, Head(c.todo), c.sha)
  /\ c.at = "store" => c.got \in Docs /\ Had(ms, Head(c.todo), c.got)

\* What it has found is, and the specs it covers are.
HasRead(c, ms) ==
  c.at \in Reads \cup {"answered"} =>
    /\ \A i \in DOMAIN c.answers : Had(ms, c.answers[i].name, c.answers[i].doc)
    /\ c.kind = "sweep" \/ Unnamed(c) => \E m \in ms : Stored(m) = Covers(c)
    /\ Unnamed(c) => \E x \in Names : Covers(c) = {x}

\* The open file's contents are those of a moment of the call.
Watches(c, ms) == c.at \in Past => handle # 0 /\ Content(Open) \in ms

CallInv(h) ==
  /\ AboutTo(call[h], moments[h])
  /\ HasRead(call[h], moments[h])
  /\ Watches(call[h], moments[h])

SessionInv ==
  /\ Shapes
  /\ FilesAreFinite
  /\ CacheMatchesOrder
  /\ \A h \in Handlers : CallInv(h)

-----------------------------------------------------------------------------
(* The order of the cache *)

Distinct(o) == \A i, j \in DOMAIN o : o[i] = o[j] => i = j

\* removeLocked takes a name that is there once out of the order.
LEMMA RemovedOnce ==
  ASSUME NEW o \in Seq(Names), NEW n \in Names, Distinct(o)
  PROVE  LET r == RemoveFirst(o, n) IN
         /\ r \in Seq(Names)
         /\ Distinct(r)
         /\ Len(r) <= Len(o)
         /\ Range(r) = Range(o) \ {n}
<1>1. CASE n \notin Range(o)
  <2>1. RemoveFirst(o, n) = o
    BY <1>1, LenProperties DEF RemoveFirst, Range
  <2> QED
    BY <1>1, <2>1, LenProperties
<1>2. CASE n \in Range(o)
  <2>1. PICK k \in 1..Len(o) : o[k] = n
    BY <1>2, LenProperties DEF Range
  <2>2. {i \in 1..Len(o) : o[i] = n} = {k}
    BY <2>1, LenProperties DEF Distinct
  <2>3. Min({k}) = k
    BY <2>1, LenProperties DEF Min
  <2>4. SelectInSeq(o, LAMBDA v : v = n) = k
    BY <2>2, <2>3 DEF SelectInSeq
  <2> DEFINE a == SubSeq(o, 1, k - 1)
             b == SubSeq(o, k + 1, Len(o))
             r == a \o b
  <2>5. RemoveFirst(o, n) = r
    BY <2>1, <2>4 DEF RemoveFirst, RemoveAt
  <2>0. Len(o) \in Nat /\ k \in Nat /\ 1 <= k /\ k <= Len(o)
    BY <2>1, LenProperties
  <2>6. /\ Len(o) \in Nat /\ k \in Nat /\ 1 <= k /\ k <= Len(o)
        /\ DOMAIN o = 1..Len(o)
        /\ \A i \in 1..Len(o) : o[i] \in Names
    BY <2>1, LenProperties, ElementOfSeq
  <2>7. /\ a \in Seq(Names) /\ Len(a) = k - 1
        /\ \A i \in 1..(k - 1) : a[i] = o[i]
    <3>1. \A i \in 1..(k - 1) : o[i] \in Names
      BY <2>6
    <3> QED
      BY <2>6, <3>1, SubSeqProperties
  <2>8. /\ b \in Seq(Names) /\ Len(b) = Len(o) - k
        /\ \A i \in 1..(Len(o) - k) : b[i] = o[k + i]
    <3>1. \A i \in (k + 1)..Len(o) : o[i] \in Names
      BY <2>6
    <3>2. /\ b \in Seq(Names)
          /\ Len(b) = IF k + 1 <= Len(o) THEN Len(o) - (k + 1) + 1 ELSE 0
          /\ \A i \in 1..(Len(o) - (k + 1) + 1) : b[i] = o[(k + 1) + i - 1]
      BY <2>6, <3>1, SubSeqProperties
    <3> HIDE DEF b
    <3>3. Len(b) = Len(o) - k
      BY <2>0, <3>2
    <3>4. ASSUME NEW i \in 1..(Len(o) - k) PROVE b[i] = o[k + i]
      <4>1. i \in 1..(Len(o) - (k + 1) + 1) /\ (k + 1) + i - 1 = k + i
        BY <2>6
      <4> QED
        BY <3>2, <4>1
    <3> QED
      BY <3>2, <3>3, <3>4
  <2>9. /\ r \in Seq(Names) /\ Len(r) = Len(o) - 1 /\ DOMAIN r = 1..(Len(o) - 1)
        /\ \A i \in 1..(Len(o) - 1) : r[i] = IF i < k THEN o[i] ELSE o[i + 1]
    <3>1. /\ r \in Seq(Names) /\ Len(r) = Len(a) + Len(b)
          /\ \A i \in 1..(Len(a) + Len(b)) : r[i] = IF i <= Len(a) THEN a[i] ELSE b[i - Len(a)]
      BY <2>7, <2>8, ConcatProperties
    <3>2. DOMAIN r = 1..Len(r)
      BY <3>1, LenProperties
    <3> HIDE DEF a, b, r
    <3>3. Len(a) + Len(b) = Len(o) - 1
      BY <2>6, <2>7, <2>8
    <3>4. ASSUME NEW i \in 1..(Len(o) - 1) PROVE r[i] = IF i < k THEN o[i] ELSE o[i + 1]
      <4>1. i \in 1..(Len(a) + Len(b)) /\ r[i] = IF i <= Len(a) THEN a[i] ELSE b[i - Len(a)]
        BY <3>1, <3>3
      <4>2. CASE i < k
        BY <2>6, <2>7, <4>1, <4>2
      <4>3. CASE ~(i < k)
        <5>1. i - Len(a) \in 1..(Len(o) - k) /\ k + (i - Len(a)) = i + 1 /\ ~(i <= Len(a))
          BY <2>6, <2>7, <4>3
        <5> QED
          BY <2>8, <4>1, <4>3, <5>1
      <4> QED
        BY <4>2, <4>3
    <3> QED
      BY <3>1, <3>2, <3>3, <3>4
  <2> HIDE DEF a, b, r
  <2>10. Distinct(r)
    BY <2>6, <2>9 DEF Distinct
  <2>11. Range(r) \subseteq Range(o) \ {n}
    BY <2>1, <2>6, <2>9 DEF Distinct, Range
  <2>12. ASSUME NEW i \in 1..Len(o), o[i] # n PROVE o[i] \in Range(r)
    <3>1. i # k
      BY <2>1, <2>12
    <3>2. CASE i < k
      BY <2>6, <2>9, <3>2 DEF Range
    <3>3. CASE i > k
      <4>1. i - 1 \in 1..(Len(o) - 1) /\ ~(i - 1 < k) /\ (i - 1) + 1 = i
        BY <2>6, <3>3
      <4> QED
        BY <2>9, <4>1 DEF Range
    <3> QED
      BY <2>6, <3>1, <3>2, <3>3
  <2>13. Range(o) \ {n} \subseteq Range(r)
    BY <2>6, <2>12 DEF Range
  <2> QED
    BY <2>5, <2>6, <2>9, <2>10, <2>11, <2>13
<1> QED
  BY <1>1, <1>2

\* A name that moves to the end of the order is there once.
LEMMA ReplacedOnce ==
  ASSUME NEW o \in Seq(Names), NEW n \in Names, Distinct(o)
  PROVE  LET r == Replaced(o, n) IN
         /\ r \in Seq(Names)
         /\ Distinct(r)
         /\ Len(r) \in 1..(Len(o) + 1)
         /\ Range(r) = Range(o) \cup {n}
         /\ r[Len(r)] = n
<1> DEFINE q == RemoveFirst(o, n)
<1>1. q \in Seq(Names) /\ Distinct(q) /\ Len(q) <= Len(o) /\ Range(q) = Range(o) \ {n}
  BY RemovedOnce
<1> HIDE DEF q
<1>2. Len(q) \in Nat /\ DOMAIN q = 1..Len(q) /\ Len(o) \in Nat
  BY <1>1, LenProperties
<1>3. /\ Append(q, n) \in Seq(Names)
      /\ Len(Append(q, n)) = Len(q) + 1
      /\ \A i \in 1..Len(q) : Append(q, n)[i] = q[i]
      /\ Append(q, n)[Len(q) + 1] = n
      /\ DOMAIN Append(q, n) = 1..(Len(q) + 1)
  BY <1>1, AppendProperties, LenProperties
<1>4. Range(Append(q, n)) = Range(q) \cup {n}
  BY <1>2, <1>3 DEF Range
<1>5. \A i \in 1..Len(q) : q[i] # n
  BY <1>1, <1>2 DEF Range
<1>6. Distinct(Append(q, n))
  BY <1>1, <1>2, <1>3, <1>5 DEF Distinct
<1> QED
  BY <1>1, <1>2, <1>3, <1>4, <1>6 DEF Replaced, q

\* What is left when the oldest is evicted.
LEMMA TailOnce ==
  ASSUME NEW o \in Seq(Names), Distinct(o), Len(o) >= 1
  PROVE  /\ Tail(o) \in Seq(Names)
         /\ Distinct(Tail(o))
         /\ Len(Tail(o)) = Len(o) - 1
         /\ Range(Tail(o)) = Range(o) \ {Head(o)}
<1>1. Len(o) \in Nat /\ DOMAIN o = 1..Len(o) /\ o # << >> /\ Head(o) = o[1]
  BY LenProperties
<1>2. /\ Tail(o) \in Seq(Names) /\ Len(Tail(o)) = Len(o) - 1
      /\ DOMAIN Tail(o) = 1..(Len(o) - 1)
      /\ \A i \in 1..(Len(o) - 1) : Tail(o)[i] = o[i + 1]
  BY <1>1, HeadTailProperties, LenProperties
<1>3. Distinct(Tail(o))
  BY <1>1, <1>2 DEF Distinct
<1>4. Range(Tail(o)) \subseteq Range(o) \ {Head(o)}
  BY <1>1, <1>2 DEF Distinct, Range
<1>5. ASSUME NEW i \in 1..Len(o), o[i] # o[1] PROVE o[i] \in Range(Tail(o))
  <2>1. i - 1 \in 1..(Len(o) - 1) /\ (i - 1) + 1 = i
    BY <1>1, <1>5
  <2> QED
    BY <1>2, <2>1 DEF Range
<1>6. Range(o) \ {Head(o)} \subseteq Range(Tail(o))
  BY <1>1, <1>5 DEF Range
<1> QED
  BY <1>2, <1>3, <1>4, <1>6

-----------------------------------------------------------------------------
(* What a call reads *)

\* A call that is under way has every field.
LEMMA CallFields ==
  ASSUME Shapes, NEW h \in Handlers, call[h].at \notin {"idle", "error"}
  PROVE  call[h] \in Asked /\ call[h].wants \in Wants(call[h].kind)
<1>1. call[h] \in Calls
  BY DEF Shapes
<1> QED
  BY <1>1 DEF Calls, Quiet, Failed

\* An index lists what its rows' documents show.
LEMMA ContentListed ==
  ASSUME NEW i \in [Names -> [source : Sources, doc : Docs] \cup {NoSpec}]
  PROVE  /\ Content(i) \in Contents
         /\ Stored(Content(i)) = Index!Listed(i)
         /\ \A n \in Names : i[n] # NoSpec => i[n].doc \in Docs /\ Content(i)[n] = i[n].doc
BY NoDocNameAssumption DEF Content, Contents, Stored, Index!Listed

\* The open file's index.
LEMMA OpenFile ==
  ASSUME Shapes, handle # 0
  PROVE  /\ handle \in 1..MaxFiles
         /\ Open \in [Names -> [source : Sources, doc : Docs] \cup {NoSpec}]
BY MaxFilesAssumption DEF Shapes, Open

\* So is what the path leads to.
LEMMA PathListed == ASSUME Shapes PROVE AtPath \in Contents
<1>1. CASE there
  <2>1. made \in 1..MaxFiles
    BY <1>1, MaxFilesAssumption DEF Shapes
  <2>2. Content(files[made]) \in Contents
    BY <2>1, ContentListed DEF Shapes
  <2> QED
    BY <1>1, <2>2 DEF AtPath
<1>2. CASE ~there
  <2>1. Content(Index!EmptyIndex) \in Contents
    BY ContentListed DEF Index!EmptyIndex
  <2> QED
    BY <1>2, <2>1 DEF AtPath
<1> QED
  BY <1>1, <1>2

\* What a call is to read: a sweep everything that is listed, a call without a
\* name the only spec there is.
LEMMA TargetsOf ==
  ASSUME NEW kind, NEW wants \in Wants(kind), NEW names \in SUBSET Names,
         IsFiniteSet(names), NEW t \in Targets(kind, wants, names)
  PROVE  /\ t \in Seq(Names) /\ t # << >>
         /\ kind = "sweep" => {t[i] : i \in DOMAIN t} = names
         /\ kind \in {"detail", "listing"} /\ wants = <<NoName>> =>
              \E x \in Names : names = {x} /\ t = <<x>>
<1>1. CASE kind = "sweep"
  <2> DEFINE k == Cardinality(names)
  <2>1. k \in Nat
    BY FS_CardinalityType
  <2>2. t \in [1..k -> names] /\ (\A i, j \in 1..k : i # j => t[i] # t[j]) /\ t # << >>
    BY <1>1 DEF Targets, SetToSeqs
  <2>3. t \in Injection(1..k, names)
    BY <2>2, Fun_IsInj
  <2>4. Cardinality(1..k) = k
    BY <2>1, FS_Interval
  <2>5. t \in Surjection(1..k, names)
    BY <2>3, <2>4, FS_Injection
  <2>6. {t[i] : i \in DOMAIN t} = names
    <3>1. \A y \in names : \E i \in 1..k : t[i] = y
      BY <2>5 DEF Surjection
    <3> HIDE DEF k
    <3> QED
      BY <2>2, <3>1
  <2>7. t \in [1..k -> Names]
    BY <2>2
  <2>8. t \in Seq(Names)
    BY <2>1, <2>7
  <2> QED
    BY <1>1, <2>2, <2>6, <2>8
<1>2. CASE kind = "diff"
  <2>1. t = wants /\ {t[1], t[2]} \subseteq names
    BY <1>2 DEF Targets
  <2>2. PICK a \in Names \cup {NoName}, b \in Names \cup {NoName} : wants = <<a, b>>
    BY <1>2 DEF Wants
  <2>3. a \in Names /\ b \in Names /\ t = <<a, b>>
    BY <2>1, <2>2
  <2> QED
    BY <1>2, <2>3
<1>3. CASE kind # "sweep" /\ kind # "diff"
  <2>1. PICK x \in names : t = <<x>> /\ (wants = <<x>> \/ (wants = <<NoName>> /\ names = {x}))
    <3>1. Targets(kind, wants, names) =
            {<<n>> : n \in {m \in names : \/ wants = <<m>>
                                          \/ wants = <<NoName>> /\ names = {m}}}
      BY <1>3 DEF Targets
    <3> QED
      BY <3>1
  <2>2. x # NoName
    BY NoDocNameAssumption
  <2>3. wants = <<NoName>> => names = {x}
    BY <2>1, <2>2
  <2> QED
    BY <1>3, <2>1, <2>3
<1> QED
  BY <1>1, <1>2, <1>3

-----------------------------------------------------------------------------
(* Steps of the handlers *)

\* A handler's step changes its own call, and what the session shares.
LEMMA HandlerStep ==
  ASSUME SessionInv, NEW h \in Handlers, NEW c \in Calls, NEW ms \in SUBSET Contents,
         NEW ps \in SUBSET Contents,
         call' = [call EXCEPT ![h] = c],
         moments' = [moments EXCEPT ![h] = ms],
         paths' = [paths EXCEPT ![h] = ps],
         UNCHANGED fileVars,
         handle' \in 0..made, handle = 0 \/ handle' = handle,
         cache' \in Contents, order' \in Seq(Names), CacheMatchesOrder',
         CallInv(h)'
  PROVE  SessionInv'
<1>1. Shapes'
  BY DEF SessionInv, Shapes, fileVars
<1>2. FilesAreFinite'
  BY DEF SessionInv, FilesAreFinite, fileVars
<1>3. ASSUME NEW g \in Handlers, g # h PROVE CallInv(g)'
  <2>1. call'[g] = call[g] /\ moments'[g] = moments[g]
    BY <1>3 DEF SessionInv, Shapes
  <2>2. CallInv(g)
    BY DEF SessionInv
  <2>3. Watches(call[g], moments[g])'
    BY <2>1, <2>2 DEF CallInv, Watches, Open, fileVars
  <2> QED
    BY <2>1, <2>2, <2>3 DEF CallInv
<1> QED
  BY <1>1, <1>2, <1>3 DEF SessionInv

\* A step that only moves the call on.
LEMMA CallStep ==
  ASSUME SessionInv, NEW h \in Handlers, NEW c \in Calls,
         call' = [call EXCEPT ![h] = c],
         UNCHANGED <<fileVars, sessionVars, moments, paths>>,
         CallInv(h)'
  PROVE  SessionInv'
<1>1. /\ moments[h] \in SUBSET Contents /\ paths[h] \in SUBSET Contents
      /\ moments' = [moments EXCEPT ![h] = moments[h]]
      /\ paths' = [paths EXCEPT ![h] = paths[h]]
  BY DEF SessionInv, Shapes
<1>2. /\ handle' = handle /\ cache' = cache /\ order' = order /\ UNCHANGED fileVars
  BY DEF sessionVars
<1>3. CacheMatchesOrder'
  BY <1>2 DEF SessionInv, CacheMatchesOrder
<1> QED
  BY <1>1, <1>2, <1>3, HandlerStep DEF SessionInv, Shapes

\* The call after it has found the document d for the spec it reads.
After(c, d) ==
  [c EXCEPT !.at = IF Len(c.todo) = 1 THEN "answered" ELSE Reading(c.kind),
            !.todo = Tail(c.todo),
            !.sha = NoDoc, !.got = NoDoc,
            !.answers = Append(c.answers, [name |-> Head(c.todo), doc |-> d])]

\* A spec that has been read is still covered.
LEMMA CoversAfter ==
  ASSUME NEW c \in Asked, c.todo # << >>, NEW d \in Docs
  PROVE  /\ After(c, d) \in Asked
         /\ After(c, d).kind = c.kind /\ After(c, d).wants = c.wants
         /\ Covers(After(c, d)) = Covers(c)
         /\ After(c, d).answers # << >>
         /\ After(c, d).at \in {"row", "meta", "answered"}
         /\ After(c, d).todo = << >> <=> After(c, d).at = "answered"
         /\ \A i \in DOMAIN After(c, d).answers :
              \/ i \in DOMAIN c.answers /\ After(c, d).answers[i] = c.answers[i]
              \/ After(c, d).answers[i] = [name |-> Head(c.todo), doc |-> d]
<1> DEFINE r == [name |-> Head(c.todo), doc |-> d]
           a == Append(c.answers, r)
           t == Tail(c.todo)
<1>1. /\ c.todo \in Seq(Names) /\ c.answers \in Seq(Results)
      /\ Len(c.todo) \in Nat \ {0} /\ DOMAIN c.todo = 1..Len(c.todo)
      /\ Len(c.answers) \in Nat /\ DOMAIN c.answers = 1..Len(c.answers)
  BY LenProperties, EmptySeq DEF Asked
<1>2. /\ Head(c.todo) = c.todo[1] /\ Head(c.todo) \in Names /\ t \in Seq(Names)
      /\ Len(t) = Len(c.todo) - 1 /\ DOMAIN t = 1..(Len(c.todo) - 1)
      /\ \A i \in 1..(Len(c.todo) - 1) : t[i] = c.todo[i + 1]
  BY <1>1, HeadTailProperties, LenProperties
<1>3. r \in Results /\ r.name = c.todo[1]
  BY <1>2 DEF Results
<1>4. /\ a \in Seq(Results) /\ a # << >> /\ DOMAIN a = 1..(Len(c.answers) + 1)
      /\ \A i \in 1..Len(c.answers) : a[i] = c.answers[i]
      /\ a[Len(c.answers) + 1] = r
  BY <1>1, <1>3, AppendProperties, LenProperties
<1>5. Reading(c.kind) \in {"row", "meta"}
  BY DEF Reading
<1>6. t = << >> <=> Len(c.todo) = 1
  <2>1. t = << >> <=> Len(t) = 0
    BY <1>2, EmptySeq
  <2> HIDE DEF t
  <2> QED
    BY <1>1, <1>2, <2>1
<1>7. /\ After(c, d) \in Asked /\ After(c, d).kind = c.kind /\ After(c, d).wants = c.wants
      /\ After(c, d).todo = t /\ After(c, d).answers = a
      /\ After(c, d).at = IF Len(c.todo) = 1 THEN "answered" ELSE Reading(c.kind)
  BY <1>2, <1>4, <1>5 DEF After, Asked, Past, Reads
<1> HIDE DEF r, a, t
<1>8. {a[i].name : i \in DOMAIN a} = {c.answers[i].name : i \in DOMAIN c.answers} \cup {c.todo[1]}
  <2>1. \A i \in DOMAIN a : \/ i \in DOMAIN c.answers /\ a[i].name = c.answers[i].name
                            \/ a[i].name = c.todo[1]
    BY <1>1, <1>3, <1>4
  <2>2. Len(c.answers) + 1 \in DOMAIN a /\ a[Len(c.answers) + 1].name = c.todo[1]
    BY <1>1, <1>3, <1>4
  <2>3. \A i \in DOMAIN c.answers : i \in DOMAIN a /\ a[i].name = c.answers[i].name
    BY <1>1, <1>4
  <2> QED
    BY <2>1, <2>2, <2>3
<1>9. {c.todo[i] : i \in DOMAIN c.todo} = {t[i] : i \in DOMAIN t} \cup {c.todo[1]}
  <2>1. \A i \in DOMAIN t : i + 1 \in DOMAIN c.todo /\ t[i] = c.todo[i + 1]
    BY <1>1, <1>2
  <2>2. \A i \in DOMAIN c.todo : i = 1 \/ (i - 1 \in DOMAIN t /\ t[i - 1] = c.todo[i])
    BY <1>1, <1>2
  <2>3. 1 \in DOMAIN c.todo
    BY <1>1
  <2> QED
    BY <2>1, <2>2, <2>3
<1>10. Covers(After(c, d)) = Covers(c)
  <2>1. Covers(After(c, d)) = {a[i].name : i \in DOMAIN a} \cup {t[i] : i \in DOMAIN t}
    BY <1>7 DEF Covers
  <2> QED
    BY <1>8, <1>9, <2>1 DEF Covers
<1> QED
  BY <1>1, <1>4, <1>5, <1>6, <1>7, <1>10 DEF r

\* A document that the spec had during the call may be what the call finds.
LEMMA FoundInv ==
  ASSUME SessionInv, NEW h \in Handlers, call[h].at \in {"row", "cached", "store"},
         NEW d \in Docs, Had(moments[h], Head(call[h].todo), d)
  PROVE  LET c == After(call[h], d) IN
         /\ c \in Calls /\ (Found(h, d) => call' = [call EXCEPT ![h] = c])
         /\ AboutTo(c, moments[h]) /\ HasRead(c, moments[h]) /\ Watches(c, moments[h])
<1> DEFINE c == After(call[h], d)
<1>1. call[h] \in Asked /\ call[h].wants \in Wants(call[h].kind) /\ call[h].todo # << >>
  BY CallFields DEF SessionInv, CallInv, AboutTo, Reads
<1>2. /\ AboutTo(call[h], moments[h]) /\ HasRead(call[h], moments[h])
      /\ Watches(call[h], moments[h])
  BY DEF SessionInv, CallInv
<1>3. /\ c \in Asked /\ c.kind = call[h].kind /\ c.wants = call[h].wants
      /\ Covers(c) = Covers(call[h]) /\ c.answers # << >>
      /\ c.at \in {"row", "meta", "answered"}
      /\ c.todo = << >> <=> c.at = "answered"
      /\ \A i \in DOMAIN c.answers :
           \/ i \in DOMAIN call[h].answers /\ c.answers[i] = call[h].answers[i]
           \/ c.answers[i] = [name |-> Head(call[h].todo), doc |-> d]
  BY <1>1, CoversAfter
<1>4. Found(h, d) => call' = [call EXCEPT ![h] = c]
  BY DEF Found, After
<1> HIDE DEF c
<1>5. c \in Calls
  BY <1>1, <1>3 DEF Calls
<1>6. AboutTo(c, moments[h])
  BY <1>3 DEF AboutTo, Reads
<1>7. HasRead(c, moments[h])
  <2>1. Unnamed(c) <=> Unnamed(call[h])
    BY <1>3 DEF Unnamed
  <2>2. /\ \A i \in DOMAIN call[h].answers :
             Had(moments[h], call[h].answers[i].name, call[h].answers[i].doc)
        /\ call[h].kind = "sweep" \/ Unnamed(call[h]) =>
             \E m \in moments[h] : Stored(m) = Covers(call[h])
        /\ Unnamed(call[h]) => \E x \in Names : Covers(call[h]) = {x}
    BY <1>2 DEF HasRead, Reads
  <2>3. \A i \in DOMAIN c.answers : Had(moments[h], c.answers[i].name, c.answers[i].doc)
    BY <1>3, <2>2
  <2> QED
    BY <1>3, <2>1, <2>2, <2>3 DEF HasRead
<1>8. Watches(c, moments[h])
  BY <1>2 DEF Watches, Past, Reads
<1> QED
  BY <1>4, <1>5, <1>6, <1>7, <1>8 DEF c

\* The row of the spec that is read, as it is now, is of a moment of the call.
LEMMA RowNow ==
  ASSUME SessionInv, NEW h \in Handlers, call[h].at \in Reads
  PROVE  LET n == Head(call[h].todo) IN
         /\ n \in Names
         /\ Open[n] # NoSpec => Open[n].doc \in Docs /\ Had(moments[h], n, Open[n].doc)
<1> DEFINE n == Head(call[h].todo)
<1>1. call[h] \in Asked /\ call[h].todo # << >> /\ handle # 0 /\ Content(Open) \in moments[h]
  BY CallFields DEF SessionInv, CallInv, AboutTo, Watches, Past, Reads
<1>2. n \in Names
  BY <1>1, HeadTailProperties DEF Asked
<1>3. Open \in [Names -> [source : Sources, doc : Docs] \cup {NoSpec}]
  BY <1>1, OpenFile DEF SessionInv
<1> QED
  BY <1>1, <1>2, <1>3, ContentListed DEF Had

LEMMA RefuseInv ==
  ASSUME SessionInv, NEW h \in Handlers, NEW c \in {Quiet, Failed},
         call' = [call EXCEPT ![h] = c],
         moments' = [moments EXCEPT ![h] = {}],
         paths' = [paths EXCEPT ![h] = {}],
         UNCHANGED <<fileVars, sessionVars>>
  PROVE  SessionInv'
<1>1. /\ handle' = handle /\ cache' = cache /\ order' = order /\ UNCHANGED fileVars
      /\ CacheMatchesOrder'
  BY DEF sessionVars, SessionInv, CacheMatchesOrder
<1>2. c \in Calls /\ c.at \in {"idle", "error"}
  BY DEF Calls, Quiet, Failed
<1>3. call'[h] = c
  BY DEF SessionInv, Shapes
<1>4. CallInv(h)'
  BY <1>2, <1>3 DEF CallInv, AboutTo, HasRead, Watches, Past, Reads
<1>5. {} \in SUBSET Contents /\ handle' \in 0..made /\ cache' \in Contents /\ order' \in Seq(Names)
  BY <1>1 DEF SessionInv, Shapes
<1> QED
  BY <1>1, <1>2, <1>4, <1>5, HandlerStep

LEMMA CallStartsInv ==
  ASSUME SessionInv, NEW h \in Handlers, NEW k \in Kinds, NEW w \in Wants(k), Call(h, k, w)
  PROVE  SessionInv'
<1> DEFINE c == [at |-> "open", kind |-> k, wants |-> w, todo |-> << >>, sha |-> NoDoc,
                 got |-> NoDoc, answers |-> << >>]
<1>1. w \in Seq(Names \cup {NoName})
  <2>1. CASE k = "sweep"
    BY <2>1 DEF Wants
  <2>2. CASE k = "diff"
    <3>1. PICK a \in Names \cup {NoName}, b \in Names \cup {NoName} : w = <<a, b>>
      BY <2>2 DEF Wants
    <3> QED
      BY <3>1
  <2>3. CASE k # "sweep" /\ k # "diff"
    <3>1. PICK a \in Names \cup {NoName} : w = <<a>>
      BY <2>3 DEF Wants
    <3> QED
      BY <3>1
  <2> QED
    BY <2>1, <2>2, <2>3
<1>2. c \in Calls
  BY <1>1 DEF Calls, Asked, Past, Reads
<1>5. call'[h] = c
  BY DEF Call, SessionInv, Shapes
<1>6. CallInv(h)'
  BY <1>5 DEF CallInv, AboutTo, HasRead, Watches, Past, Reads
<1>7. call' = [call EXCEPT ![h] = c] /\ UNCHANGED <<fileVars, sessionVars, moments, paths>>
  BY DEF Call
<1> HIDE DEF c
<1> QED
  BY <1>2, <1>6, <1>7, CallStep

\* What a call keeps when only its place changes.
LEMMA GoInv ==
  ASSUME SessionInv, NEW h \in Handlers, call[h].at \notin {"idle", "error"},
         NEW at \in Past \cup {"open"}
  PROVE  LET c == [call[h] EXCEPT !.at = at] IN
         /\ c \in Calls /\ (Go(h, at) => call' = [call EXCEPT ![h] = c])
BY CallFields DEF SessionInv, Calls, Asked, Go

LEMMA OpenStoreInv == ASSUME SessionInv, NEW h \in Handlers, OpenStore(h) PROVE SessionInv'
<1>1. CASE handle = 0 /\ ~there
  BY <1>1, RefuseInv DEF OpenStore, Refuse, Failed
<1>2. CASE ~(handle = 0 /\ ~there)
  <2> DEFINE c == [call[h] EXCEPT !.at = "list"]
  <2>1. /\ call[h].at = "open" /\ handle' = IF handle = 0 THEN made ELSE handle
        /\ moments' = [moments EXCEPT ![h] = {Content(files[handle'])}]
        /\ paths' = [paths EXCEPT ![h] = {AtPath}]
        /\ Go(h, "list") /\ UNCHANGED <<fileVars, cache, order>>
    BY <1>2 DEF OpenStore
  <2>2. handle' \in 0..made /\ handle' # 0 /\ handle' \in 1..MaxFiles
        /\ (handle = 0 \/ handle' = handle)
    BY <1>2, <2>1, MaxFilesAssumption DEF SessionInv, Shapes
  <2>3. Content(files[handle']) \in Contents
    BY <2>2, ContentListed DEF SessionInv, Shapes
  <2>4. c \in Calls /\ call' = [call EXCEPT ![h] = c]
    BY <2>1, GoInv DEF Past
  <2>5. call'[h] = c /\ moments'[h] = {Content(files[handle'])}
    BY <2>1, <2>4 DEF SessionInv, Shapes
  <2>6. c.at = "list" /\ c.answers = << >>
    BY <2>1, CallFields DEF SessionInv, CallInv, AboutTo, Asked
  <2> HIDE DEF c
  <2>7. CallInv(h)'
    BY <2>1, <2>2, <2>5, <2>6 DEF CallInv, AboutTo, HasRead, Watches, Past, Reads, Open, fileVars
  <2>8. CacheMatchesOrder'
    BY <2>1 DEF SessionInv, CacheMatchesOrder
  <2>9. {AtPath} \in SUBSET Contents /\ {Content(files[handle'])} \in SUBSET Contents
    BY <2>3, PathListed DEF SessionInv
  <2> QED
    BY <2>1, <2>2, <2>4, <2>7, <2>8, <2>9, HandlerStep DEF SessionInv, Shapes
<1> QED
  BY <1>1, <1>2

LEMMA ListInv == ASSUME SessionInv, NEW h \in Handlers, List(h) PROVE SessionInv'
<1> DEFINE targets == Targets(call[h].kind, call[h].wants, Index!Listed(Open))
<1>1. CASE Refuse(h)
  BY <1>1, RefuseInv DEF Refuse, Failed
<1>2. CASE ~Refuse(h)
  <2>1. PICK t \in targets :
          call' = [call EXCEPT ![h] = [call[h] EXCEPT !.at = Reading(call[h].kind), !.todo = t]]
    BY <1>2 DEF List
  <2>2. call[h].at = "list" /\ UNCHANGED <<fileVars, sessionVars, moments, paths>>
    BY <1>2 DEF List
  <2>3. /\ call[h] \in Asked /\ call[h].wants \in Wants(call[h].kind) /\ call[h].answers = << >>
        /\ handle # 0 /\ Content(Open) \in moments[h]
    BY <2>2, CallFields DEF SessionInv, CallInv, AboutTo, Watches, Past
  <2>4. /\ handle \in 1..MaxFiles /\ Stored(Content(Open)) = Index!Listed(Open)
    BY <2>3, OpenFile, ContentListed DEF SessionInv
  <2>5. Index!Listed(Open) \in SUBSET Names /\ IsFiniteSet(Index!Listed(Open))
    BY <2>4 DEF SessionInv, FilesAreFinite, Open, Index!Listed
  <2>6. /\ t \in Seq(Names) /\ t # << >>
        /\ call[h].kind = "sweep" => {t[i] : i \in DOMAIN t} = Index!Listed(Open)
        /\ call[h].kind \in {"detail", "listing"} /\ call[h].wants = <<NoName>> =>
             \E x \in Names : Index!Listed(Open) = {x} /\ t = <<x>>
    <3> DEFINE k == call[h].kind
               w == call[h].wants
               names == Index!Listed(Open)
    <3>1. /\ w \in Wants(k) /\ names \in SUBSET Names /\ IsFiniteSet(names)
          /\ t \in Targets(k, w, names)
      BY <2>3, <2>5
    <3> HIDE DEF k, w, names
    <3>2. /\ t \in Seq(Names) /\ t # << >>
          /\ k = "sweep" => {t[i] : i \in DOMAIN t} = names
          /\ k \in {"detail", "listing"} /\ w = <<NoName>> =>
               \E x \in Names : names = {x} /\ t = <<x>>
      BY <3>1, TargetsOf
    <3> QED
      BY <3>2 DEF k, w, names
  <2> DEFINE c == [call[h] EXCEPT !.at = Reading(call[h].kind), !.todo = t]
  <2>7. Reading(call[h].kind) \in {"row", "meta"}
    BY DEF Reading
  <2>8. /\ c \in Calls /\ c.at \in {"row", "meta"} /\ c.kind = call[h].kind
        /\ c.wants = call[h].wants /\ c.todo = t /\ c.answers = << >>
    BY <2>3, <2>6, <2>7 DEF Calls, Asked, Past, Reads
  <2> HIDE DEF c
  <2>9. Covers(c) = {t[i] : i \in DOMAIN t}
    BY <2>8 DEF Covers
  <2>10. HasRead(c, moments[h])
    <3>1. \A i \in DOMAIN c.answers : Had(moments[h], c.answers[i].name, c.answers[i].doc)
      BY <2>8
    <3>2. CASE Unnamed(c)
      <4>1. PICK x \in Names : Index!Listed(Open) = {x} /\ t = <<x>>
        BY <2>6, <2>8, <3>2 DEF Unnamed
      <4>2. Covers(c) = {x}
        BY <2>9, <4>1
      <4> QED
        BY <2>3, <2>4, <3>1, <4>1, <4>2 DEF HasRead
    <3>3. CASE c.kind = "sweep"
      <4>1. ~Unnamed(c) /\ Stored(Content(Open)) = Covers(c)
        BY <2>4, <2>6, <2>8, <2>9, <3>3 DEF Unnamed
      <4> QED
        BY <2>3, <3>1, <4>1 DEF HasRead
    <3> QED
      BY <3>1, <3>2, <3>3 DEF HasRead
  <2>11. AboutTo(c, moments[h]) /\ Watches(c, moments[h])
    BY <2>3, <2>6, <2>8 DEF AboutTo, Watches
  <2>12. call'[h] = c /\ moments'[h] = moments[h] /\ call' = [call EXCEPT ![h] = c]
    BY <2>1, <2>2 DEF SessionInv, Shapes, c
  <2>13. CallInv(h)'
    BY <2>2, <2>10, <2>11, <2>12 DEF CallInv, Watches, Open, sessionVars, fileVars
  <2> QED
    BY <2>2, <2>8, <2>12, <2>13, CallStep
<1> QED
  BY <1>1, <1>2

\* A call that goes on with a document it may answer with.
LEMMA AnswersInv ==
  ASSUME SessionInv, NEW h \in Handlers, call[h].at \in {"row", "cached"},
         NEW d \in Docs, Had(moments[h], Head(call[h].todo), d), Found(h, d),
         UNCHANGED <<fileVars, sessionVars, moments, paths>>
  PROVE  SessionInv'
<1> DEFINE c == After(call[h], d)
<1>1. /\ c \in Calls /\ call' = [call EXCEPT ![h] = c]
      /\ AboutTo(c, moments[h]) /\ HasRead(c, moments[h]) /\ Watches(c, moments[h])
  BY FoundInv
<1> HIDE DEF c
<1>2. call'[h] = c /\ moments'[h] = moments[h]
  BY <1>1 DEF SessionInv, Shapes
<1>3. CallInv(h)'
  BY <1>1, <1>2 DEF CallInv, Watches, Open, sessionVars, fileVars
<1> QED
  BY <1>1, <1>3, CallStep

LEMMA ReadRowInv == ASSUME SessionInv, NEW h \in Handlers, ReadRow(h) PROVE SessionInv'
<1>1. call[h].at = "row"
  BY DEF ReadRow
<1> DEFINE row == Open[Head(call[h].todo)]
<1>2. CASE row = NoSpec
  BY <1>2, RefuseInv DEF ReadRow, Refuse, Failed
<1>3. CASE row # NoSpec
  <2>1. row.doc \in Docs /\ Had(moments[h], Head(call[h].todo), row.doc)
    BY <1>1, <1>3, RowNow DEF Reads
  <2>2. Found(h, row.doc) /\ UNCHANGED <<fileVars, sessionVars, moments, paths>>
    BY <1>3 DEF ReadRow
  <2> QED
    BY <1>1, <2>1, <2>2, AnswersInv
<1> QED
  BY <1>2, <1>3

\* A call that goes on to another place of the same reading.
LEMMA MovesInv ==
  ASSUME SessionInv, NEW h \in Handlers, call[h].at \in Reads, NEW c \in Asked,
         c.wants \in Wants(c.kind), c.kind = call[h].kind, c.wants = call[h].wants,
         c.todo = call[h].todo, c.answers = call[h].answers, c.at \in Reads,
         AboutTo(c, moments[h]), call' = [call EXCEPT ![h] = c],
         UNCHANGED <<fileVars, sessionVars, moments, paths>>
  PROVE  SessionInv'
<1>1. call'[h] = c /\ moments'[h] = moments[h] /\ c \in Calls
  BY DEF SessionInv, Shapes, Calls
<1>2. HasRead(call[h], moments[h]) /\ Watches(call[h], moments[h])
  BY DEF SessionInv, CallInv
<1>3. Covers(c) = Covers(call[h]) /\ (Unnamed(c) <=> Unnamed(call[h]))
  BY DEF Covers, Unnamed
<1>4. HasRead(c, moments[h])
  BY <1>2, <1>3 DEF HasRead
<1>5. CallInv(h)'
  BY <1>1, <1>2, <1>4 DEF CallInv, Watches, Past, Open, sessionVars, fileVars
<1> QED
  BY <1>1, <1>5, CallStep

LEMMA EntryMetaInv == ASSUME SessionInv, NEW h \in Handlers, EntryMeta(h) PROVE SessionInv'
<1>1. call[h].at = "meta"
  BY DEF EntryMeta
<1> DEFINE row == Open[Head(call[h].todo)]
           c == [call[h] EXCEPT !.at = "cached", !.sha = row.doc]
<1>2. CASE row = NoSpec
  BY <1>2, RefuseInv DEF EntryMeta, Refuse, Failed
<1>3. CASE row # NoSpec
  <2>1. row.doc \in Docs /\ Had(moments[h], Head(call[h].todo), row.doc)
    BY <1>1, <1>3, RowNow DEF Reads
  <2>2. call[h] \in Asked /\ call[h].wants \in Wants(call[h].kind) /\ call[h].todo # << >>
    BY <1>1, CallFields DEF SessionInv, CallInv, AboutTo, Reads
  <2>3. call' = [call EXCEPT ![h] = c] /\ UNCHANGED <<fileVars, sessionVars, moments, paths>>
    BY <1>3 DEF EntryMeta
  <2>4. /\ c \in Asked /\ c.at = "cached" /\ c.sha = row.doc /\ c.kind = call[h].kind
        /\ c.wants = call[h].wants /\ c.todo = call[h].todo /\ c.answers = call[h].answers
    BY <2>1, <2>2 DEF Asked, Past, Reads
  <2> HIDE DEF c
  <2>5. AboutTo(c, moments[h])
    BY <2>1, <2>2, <2>4 DEF AboutTo
  <2> QED
    BY <1>1, <2>2, <2>3, <2>4, <2>5, MovesInv DEF Reads
<1> QED
  BY <1>2, <1>3

LEMMA EntryCachedInv == ASSUME SessionInv, NEW h \in Handlers, EntryCached(h) PROVE SessionInv'
<1>1. call[h].at = "cached" /\ UNCHANGED <<fileVars, sessionVars, moments, paths>>
  BY DEF EntryCached
<1>2. /\ call[h] \in Asked /\ call[h].wants \in Wants(call[h].kind) /\ call[h].todo # << >>
      /\ call[h].sha \in Docs /\ Had(moments[h], Head(call[h].todo), call[h].sha)
  BY <1>1, CallFields DEF SessionInv, CallInv, AboutTo, Reads
<1>3. CASE cache[Head(call[h].todo)] = call[h].sha
  BY <1>1, <1>2, <1>3, AnswersInv DEF EntryCached
<1>4. CASE cache[Head(call[h].todo)] # call[h].sha
  <2> DEFINE c == [call[h] EXCEPT !.at = "get"]
  <2>1. call' = [call EXCEPT ![h] = c]
    BY <1>4 DEF EntryCached, Go
  <2>2. /\ c \in Asked /\ c.at = "get" /\ c.kind = call[h].kind
        /\ c.wants = call[h].wants /\ c.todo = call[h].todo /\ c.answers = call[h].answers
    BY <1>2 DEF Asked, Past, Reads
  <2> HIDE DEF c
  <2>3. AboutTo(c, moments[h])
    BY <1>2, <2>2 DEF AboutTo
  <2> QED
    BY <1>1, <1>2, <2>1, <2>2, <2>3, MovesInv DEF Reads
<1> QED
  BY <1>3, <1>4

LEMMA EntryGetInv == ASSUME SessionInv, NEW h \in Handlers, EntryGet(h) PROVE SessionInv'
<1>1. call[h].at = "get"
  BY DEF EntryGet
<1> DEFINE row == Open[Head(call[h].todo)]
           c == [call[h] EXCEPT !.at = "store", !.got = row.doc]
<1>2. CASE row = NoSpec
  BY <1>2, RefuseInv DEF EntryGet, Refuse, Failed
<1>3. CASE row # NoSpec
  <2>1. row.doc \in Docs /\ Had(moments[h], Head(call[h].todo), row.doc)
    BY <1>1, <1>3, RowNow DEF Reads
  <2>2. call[h] \in Asked /\ call[h].wants \in Wants(call[h].kind) /\ call[h].todo # << >>
    BY <1>1, CallFields DEF SessionInv, CallInv, AboutTo, Reads
  <2>3. call' = [call EXCEPT ![h] = c] /\ UNCHANGED <<fileVars, sessionVars, moments, paths>>
    BY <1>3 DEF EntryGet
  <2>4. /\ c \in Asked /\ c.at = "store" /\ c.got = row.doc /\ c.kind = call[h].kind
        /\ c.wants = call[h].wants /\ c.todo = call[h].todo /\ c.answers = call[h].answers
    BY <2>1, <2>2 DEF Asked, Past, Reads
  <2> HIDE DEF c
  <2>5. AboutTo(c, moments[h])
    BY <2>1, <2>2, <2>4 DEF AboutTo
  <2> QED
    BY <1>1, <2>2, <2>3, <2>4, <2>5, MovesInv DEF Reads
<1> QED
  BY <1>2, <1>3

\* An insertion keeps the order in step with the cache, evicting the oldest of a
\* full one.
LEMMA InsertInv ==
  ASSUME NEW n \in Names, NEW d \in Docs, cache \in Contents, order \in Seq(Names),
         CacheMatchesOrder,
         LET o == Replaced(order, n)
             evicted == IF Len(o) > CacheSize THEN {Head(o)} ELSE {} IN
         /\ cache' = [m \in Names |-> IF m \in evicted THEN NoDoc
                                      ELSE IF m = n THEN d ELSE cache[m]]
         /\ order' = IF evicted = {} THEN o ELSE Tail(o)
  PROVE  cache' \in Contents /\ order' \in Seq(Names) /\ CacheMatchesOrder'
<1> DEFINE o == Replaced(order, n)
           evicted == IF Len(o) > CacheSize THEN {Head(o)} ELSE {}
           cached == {m \in Names : cache[m] # NoDoc}
<1>1. /\ Len(order) <= CacheSize /\ Distinct(order) /\ Range(order) = cached
      /\ Len(order) \in Nat /\ CacheSize \in Nat \ {0}
  BY LenProperties, CacheSizeAssumption DEF CacheMatchesOrder, Distinct, Range
<1>2. /\ o \in Seq(Names) /\ Distinct(o) /\ Len(o) \in 1..(Len(order) + 1)
      /\ Range(o) = cached \cup {n}
  BY <1>1, ReplacedOnce
<1>3. /\ cache' = [m \in Names |-> IF m \in evicted THEN NoDoc
                                   ELSE IF m = n THEN d ELSE cache[m]]
      /\ order' = IF evicted = {} THEN o ELSE Tail(o)
  OBVIOUS
<1>4. /\ Tail(o) \in Seq(Names) /\ Distinct(Tail(o)) /\ Len(Tail(o)) = Len(o) - 1
      /\ Range(Tail(o)) = Range(o) \ {Head(o)}
  BY <1>1, <1>2, TailOnce
<1> HIDE DEF o
<1>5. {m \in Names : cache'[m] # NoDoc} = (cached \cup {n}) \ evicted
  BY <1>3, NoDocNameAssumption
<1>6. cache' \in Contents
  BY <1>3 DEF Contents
<1>7. CASE Len(o) > CacheSize
  <2>1. evicted = {Head(o)} /\ order' = Tail(o) /\ Len(o) - 1 <= CacheSize
    BY <1>1, <1>2, <1>3, <1>7
  <2>2. Range(order') = {m \in Names : cache'[m] # NoDoc}
    BY <1>2, <1>4, <1>5, <2>1
  <2> QED
    BY <1>4, <1>6, <2>1, <2>2 DEF CacheMatchesOrder, Distinct, Range
<1>8. CASE ~(Len(o) > CacheSize)
  <2>1. evicted = {} /\ order' = o /\ Len(o) <= CacheSize
    BY <1>1, <1>2, <1>3, <1>8
  <2>2. Range(order') = {m \in Names : cache'[m] # NoDoc}
    BY <1>2, <1>5, <2>1
  <2> QED
    BY <1>2, <1>6, <2>1, <2>2 DEF CacheMatchesOrder, Distinct, Range
<1> QED
  BY <1>7, <1>8

LEMMA StoreEntryInv == ASSUME SessionInv, NEW h \in Handlers, StoreEntry(h) PROVE SessionInv'
<1> DEFINE n == Head(call[h].todo)
           d == call[h].got
           c == After(call[h], d)
<1>1. call[h].at = "store" /\ Found(h, d) /\ UNCHANGED <<fileVars, handle, moments, paths>>
  BY DEF StoreEntry
<1>2. n \in Names /\ d \in Docs /\ Had(moments[h], n, d)
  <2>1. call[h].at \in Reads
    BY <1>1 DEF Reads
  <2> QED
    BY <1>1, <2>1, RowNow DEF SessionInv, CallInv, AboutTo
<1>3. /\ c \in Calls /\ call' = [call EXCEPT ![h] = c]
      /\ AboutTo(c, moments[h]) /\ HasRead(c, moments[h]) /\ Watches(c, moments[h])
  BY <1>1, <1>2, FoundInv
<1>4. cache' \in Contents /\ order' \in Seq(Names) /\ CacheMatchesOrder'
  <2>1. cache \in Contents /\ order \in Seq(Names) /\ CacheMatchesOrder
    BY DEF SessionInv, Shapes
  <2>2. CASE cache[n] = d
    <3>1. cache' = cache /\ order' = order
      BY <2>2 DEF StoreEntry
    <3> QED
      BY <2>1, <3>1 DEF CacheMatchesOrder
  <2>3. CASE cache[n] # d
    BY <1>2, <2>1, <2>3, InsertInv DEF StoreEntry
  <2> QED
    BY <2>2, <2>3
<1> HIDE DEF c
<1>5. call'[h] = c /\ moments'[h] = moments[h]
  BY <1>1, <1>3 DEF SessionInv, Shapes
<1>6. CallInv(h)'
  BY <1>1, <1>3, <1>5 DEF CallInv, Watches, Open, fileVars
<1>7. /\ moments' = [moments EXCEPT ![h] = moments[h]] /\ paths' = [paths EXCEPT ![h] = paths[h]]
      /\ moments[h] \in SUBSET Contents /\ paths[h] \in SUBSET Contents
      /\ handle' = handle /\ handle \in 0..made /\ UNCHANGED fileVars
  BY <1>1 DEF SessionInv, Shapes
<1> QED
  BY <1>3, <1>4, <1>6, <1>7, HandlerStep

LEMMA StepInv ==
  ASSUME SessionInv, NEW h \in Handlers,
         \/ \E k \in Kinds : \E w \in Wants(k) : Call(h, k, w)
         \/ Step(h) \/ Fail(h)
  PROVE  SessionInv'
<1>1. CASE Fail(h)
  BY <1>1, RefuseInv DEF Fail, Refuse, Failed
<1>2. CASE Reply(h)
  BY <1>2, RefuseInv DEF Reply
<1> QED
  BY <1>1, <1>2, CallStartsInv, OpenStoreInv, ListInv, ReadRowInv, EntryMetaInv,
     EntryCachedInv, EntryGetInv, StoreEntryInv DEF Step

-----------------------------------------------------------------------------
(* Steps of the store's files *)

\* The newest file changes while calls run: each of them lives through it.
LEMMA ChangeInv ==
  ASSUME SessionInv, there,
         NEW i \in [Names -> [source : Sources, doc : Docs] \cup {NoSpec}],
         IsFiniteSet(Index!Listed(i)), Change(i)
  PROVE  SessionInv'
<1>1. /\ made \in 1..MaxFiles /\ files' = [files EXCEPT ![made] = i]
      /\ Witness(i) /\ AtPathNow(i) /\ UNCHANGED <<made, there, sessionVars, call>>
  BY MaxFilesAssumption DEF Change, SessionInv, Shapes
<1>2. Content(i) \in Contents
  BY ContentListed
<1>3. moments' \in [Handlers -> SUBSET Contents] /\ paths' \in [Handlers -> SUBSET Contents]
  BY <1>1, <1>2 DEF Witness, AtPathNow, SessionInv, Shapes
<1>4. Shapes' /\ CacheMatchesOrder'
  BY <1>1, <1>3 DEF SessionInv, Shapes, sessionVars, CacheMatchesOrder
<1>5. FilesAreFinite'
  <2>1. \A f \in 1..MaxFiles : files'[f] = IF f = made THEN i ELSE files[f]
    BY <1>1 DEF SessionInv, Shapes
  <2> QED
    BY <2>1 DEF SessionInv, FilesAreFinite
<1>6. ASSUME NEW h \in Handlers PROVE CallInv(h)'
  <2>1. /\ call'[h] = call[h] /\ moments[h] \subseteq moments'[h]
        /\ CallInv(h) /\ handle' = handle
    BY <1>1 DEF Witness, sessionVars, SessionInv
  <2>2. \A n, d : Had(moments[h], n, d) => Had(moments'[h], n, d)
    BY <2>1 DEF Had
  <2>3. AboutTo(call[h], moments'[h])
    BY <2>1, <2>2 DEF CallInv, AboutTo
  <2>4. HasRead(call[h], moments'[h])
    BY <2>1, <2>2 DEF CallInv, HasRead
  <2>5. ASSUME call[h].at \in Past PROVE handle' # 0 /\ Content(files'[handle']) \in moments'[h]
    <3>1. handle # 0 /\ Content(files[handle]) \in moments[h] /\ handle \in 1..MaxFiles
      BY <2>1, <2>5, OpenFile DEF CallInv, Watches, Open, SessionInv
    <3>2. CASE handle = made
      BY <1>1, <2>1, <3>1, <3>2 DEF Witness, SessionInv, Shapes
    <3>3. CASE handle # made
      BY <1>1, <2>1, <3>1, <3>3 DEF SessionInv, Shapes
    <3> QED
      BY <3>2, <3>3
  <2>6. Watches(call[h], moments[h])'
    BY <2>1, <2>5 DEF Watches, Open
  <2> QED
    BY <2>1, <2>3, <2>4, <2>6 DEF CallInv
<1> QED
  BY <1>4, <1>5, <1>6 DEF SessionInv

LEMMA FilesInv ==
  ASSUME SessionInv,
         \/ \E n \in Names, s \in Sources, d \in Docs : StoreSpec(n, s, d)
         \/ \E n \in Names : RemoveSpec(n)
  PROVE  SessionInv'
<1> DEFINE i == files[made]
           Rows == [source : Sources, doc : Docs] \cup {NoSpec}
<1>1. there => i \in [Names -> Rows] /\ IsFiniteSet(Index!Listed(i))
  BY MaxFilesAssumption DEF SessionInv, Shapes, FilesAreFinite
<1>2. ASSUME NEW n \in Names, NEW s \in Sources, NEW d \in Docs, StoreSpec(n, s, d)
      PROVE  SessionInv'
  <2> DEFINE j == Index!Stored(i, n, s, d)
  <2>1. there /\ Change(j)
    BY <1>2 DEF StoreSpec
  <2>2. j \in [Names -> Rows] /\ Index!Listed(j) \subseteq Index!Listed(i) \cup {n}
    BY <1>1, <2>1 DEF Index!Stored, Index!Listed
  <2>3. IsFiniteSet(Index!Listed(j))
    BY <1>1, <2>1, <2>2, FS_AddElement, FS_Subset
  <2> HIDE DEF j
  <2> QED
    BY <2>1, <2>2, <2>3, ChangeInv
<1>3. ASSUME NEW n \in Names, RemoveSpec(n) PROVE SessionInv'
  <2> DEFINE j == [i EXCEPT ![n] = NoSpec]
  <2>1. there /\ Change(j)
    BY <1>3 DEF RemoveSpec
  <2>2. j \in [Names -> Rows] /\ Index!Listed(j) \subseteq Index!Listed(i)
    BY <1>1, <2>1 DEF Index!Listed
  <2>3. IsFiniteSet(Index!Listed(j))
    BY <1>1, <2>1, <2>2, FS_Subset
  <2> HIDE DEF j
  <2> QED
    BY <2>1, <2>2, <2>3, ChangeInv
<1> QED
  BY <1>2, <1>3

\* A file that comes or goes leaves the open one alone.
LEMMA PathInv == ASSUME SessionInv, RemoveStore \/ CreateStore PROVE SessionInv'
<1>1. /\ UNCHANGED <<files, handle, cache, order, call, moments>>
      /\ made' \in 0..MaxFiles /\ there' \in BOOLEAN
      /\ handle \in 0..made'
      /\ there' => made' # 0
      /\ paths' \in [Handlers -> SUBSET Contents]
  <2>1. /\ made \in Nat /\ made <= MaxFiles /\ MaxFiles \in Nat /\ handle \in 0..made
        /\ paths \in [Handlers -> SUBSET Contents]
    BY MaxFilesAssumption DEF SessionInv, Shapes
  <2>2. CASE RemoveStore
    <3>1. Content(Index!EmptyIndex) \in Contents
      BY ContentListed DEF Index!EmptyIndex
    <3>2. paths' \in [Handlers -> SUBSET Contents]
      BY <2>1, <2>2, <3>1 DEF RemoveStore, AtPathNow
    <3>3. UNCHANGED <<files, made, handle, cache, order, call, moments>> /\ there' = FALSE
      BY <2>2 DEF RemoveStore, sessionVars
    <3>4. made \in 0..MaxFiles
      BY <2>1
    <3> QED
      BY <2>1, <3>2, <3>3, <3>4
  <2>3. CASE CreateStore
    <3>1. /\ made' = made + 1 /\ there' = TRUE /\ made < MaxFiles
          /\ UNCHANGED <<files, handle, cache, order, call, moments, paths>>
      BY <2>3 DEF CreateStore, sessionVars
    <3>2. made' \in 0..MaxFiles /\ made' # 0 /\ 0..made \subseteq 0..made'
      BY <2>1, <3>1
    <3> QED
      BY <2>1, <3>1, <3>2
  <2> QED
    BY <2>2, <2>3
<1>2. Shapes' /\ FilesAreFinite' /\ CacheMatchesOrder'
  BY <1>1 DEF SessionInv, Shapes, FilesAreFinite, CacheMatchesOrder
<1>3. ASSUME NEW h \in Handlers PROVE CallInv(h)'
  BY <1>1 DEF SessionInv, CallInv, Watches, Open
<1> QED
  BY <1>2, <1>3 DEF SessionInv

-----------------------------------------------------------------------------
(* Invariance *)

LEMMA StartInv == Init => SessionInv
<1> SUFFICES ASSUME Init PROVE SessionInv
  OBVIOUS
<1>1. Shapes
  <2>1. files \in [1..MaxFiles -> [Names -> [source : Sources, doc : Docs] \cup {NoSpec}]]
    BY DEF Init, Index!EmptyIndex
  <2>2. /\ made \in 0..MaxFiles /\ there \in BOOLEAN /\ (there => made # 0)
        /\ handle \in 0..made
    <3>1. made \in {0, 1} /\ there = (made = 1) /\ handle = 0
      BY DEF Init
    <3>2. MaxFiles \in Nat /\ MaxFiles # 0
      BY MaxFilesAssumption
    <3>3. made \in 0..MaxFiles /\ 0 \in 0..made
      BY <3>1, <3>2
    <3>4. there \in BOOLEAN /\ (there => made = 1)
      BY <3>1
    <3> QED
      BY <3>1, <3>3, <3>4
  <2>3. cache \in Contents
    BY DEF Init, Contents
  <2>4. order \in Seq(Names)
    BY EmptySeq DEF Init
  <2>5. /\ moments \in [Handlers -> SUBSET Contents]
        /\ paths \in [Handlers -> SUBSET Contents]
    BY DEF Init
  <2>6. call \in [Handlers -> Calls]
    BY DEF Init, Calls
  <2> QED
    BY <2>1, <2>2, <2>3, <2>4, <2>5, <2>6 DEF Shapes
<1>2. FilesAreFinite
  <2>1. \A f \in 1..MaxFiles : Index!Listed(files[f]) = {}
    BY DEF Init, Index!Listed, Index!EmptyIndex
  <2> QED
    BY <2>1, FS_EmptySet DEF FilesAreFinite
<1>3. CacheMatchesOrder
  BY CacheSizeAssumption DEF Init, CacheMatchesOrder
<1>4. \A h \in Handlers : CallInv(h)
  BY DEF Init, Quiet, CallInv, AboutTo, HasRead, Watches, Past, Reads
<1> QED
  BY <1>1, <1>2, <1>3, <1>4 DEF SessionInv

LEMMA SessionInvariance == Spec => []SessionInv
<1>1. SessionInv /\ UNCHANGED vars => SessionInv'
  BY DEF vars, fileVars, sessionVars, SessionInv, Shapes, FilesAreFinite, CacheMatchesOrder,
     CallInv, Watches, Open
<1>2. SessionInv /\ [Next]_vars => SessionInv'
  BY <1>1, FilesInv, PathInv, StepInv DEF Next
<1> QED
  BY <1>2, StartInv, PTL DEF Spec

-----------------------------------------------------------------------------
(* Theorems *)

\* Every variable of a session stays in its range, and the handle is a file
\* there has been.
THEOREM SessionTypeCorrect == Spec => []SessionTypeOK
<1>1. SessionInv => SessionTypeOK
  <2> SUFFICES ASSUME SessionInv PROVE SessionTypeOK
    OBVIOUS
  <2>1. \A h \in Handlers : call[h].at \notin {"idle", "error"} =>
          call[h].todo \in Seq(Names) /\ call[h].answers \in Seq([name : Names, doc : Docs])
    BY CallFields DEF SessionInv, Asked, Results
  <2> QED
    BY <2>1 DEF SessionTypeOK, SessionInv, Shapes, Contents
<1> QED
  BY <1>1, SessionInvariance, PTL

\* The cache's order lists exactly the cached names, each once and never more than
\* its size, for any size and any number of handlers.
THEOREM CacheTheorem == Spec => []CacheMatchesOrder
<1>1. SessionInv => CacheMatchesOrder
  BY DEF SessionInv
<1> QED
  BY <1>1, SessionInvariance, PTL

\* A call answers with nothing that its spec did not have while the call ran.
THEOREM AnswerStoredTheorem == Spec => []AnswerWasStored
<1>1. SessionInv => AnswerWasStored
  BY DEF SessionInv, CallInv, HasRead, Had, AnswerWasStored, Answered
<1> QED
  BY <1>1, SessionInvariance, PTL

\* A call that names no spec reads the only one there was at a moment of the call.
THEOREM UnnamedTheorem == Spec => []UnnamedIsTheOnlySpec
<1>1. SessionInv => UnnamedIsTheOnlySpec
  <2> SUFFICES ASSUME SessionInv, NEW h \in Handlers, Answered(h, {"detail", "listing"}),
                      call[h].wants = <<NoName>>
               PROVE  \E m \in moments[h] :
                        {n \in Names : m[n] # NoDoc} = {call[h].answers[1].name}
    BY DEF UnnamedIsTheOnlySpec
  <2>1. /\ call[h] \in Asked /\ call[h].answers # << >> /\ Unnamed(call[h])
        /\ HasRead(call[h], moments[h]) /\ call[h].at = "answered"
    BY CallFields DEF Answered, SessionInv, CallInv, AboutTo, Unnamed
  <2>2. PICK m \in moments[h], x \in Names : Stored(m) = {x} /\ Covers(call[h]) = {x}
    BY <2>1 DEF HasRead
  <2>3. 1 \in DOMAIN call[h].answers
    BY <2>1, LenProperties, EmptySeq DEF Asked
  <2>4. call[h].answers[1].name = x
    BY <2>2, <2>3 DEF Covers
  <2> QED
    BY <2>2, <2>4 DEF Stored
<1> QED
  BY <1>1, SessionInvariance, PTL

\* A sweep answers from all the specs there were at one moment of it, and no others.
THEOREM SweepTheorem == Spec => []SweepCoversTheIndex
<1>1. SessionInv => SweepCoversTheIndex
  <2> SUFFICES ASSUME SessionInv, NEW h \in Handlers, Answered(h, {"sweep"})
               PROVE  \E m \in moments[h] :
                        {n \in Names : m[n] # NoDoc} =
                          {call[h].answers[i].name : i \in DOMAIN call[h].answers}
    BY DEF SweepCoversTheIndex
  <2>1. /\ call[h].at = "answered" /\ call[h].kind = "sweep" /\ call[h].todo = << >>
        /\ HasRead(call[h], moments[h])
    BY DEF Answered, SessionInv, CallInv, AboutTo
  <2>2. PICK m \in moments[h] : Stored(m) = Covers(call[h])
    BY <2>1 DEF HasRead
  <2>3. Covers(call[h]) = {call[h].answers[i].name : i \in DOMAIN call[h].answers}
    BY <2>1 DEF Covers
  <2> QED
    BY <2>2, <2>3 DEF Stored
<1> QED
  BY <1>1, SessionInvariance, PTL
=============================================================================
