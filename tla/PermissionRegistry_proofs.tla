---------------------- MODULE PermissionRegistry_proofs ----------------------
(***************************************************************************)
(* Proofs about PermissionRegistry for any names, ids, hash, lists and     *)
(* calls, and for every backend.                                           *)
(***************************************************************************)
EXTENDS PermissionRegistry, FiniteSetTheorems, WellFoundedInduction, TLAPS

-----------------------------------------------------------------------------
(* The inductive invariant *)

\* What is about to be stored has been validated.
Checked(c) ==
    \/ pc[c] \in {"store", "put", "fetch", "insert_all"}
    \/ pc[c] = "store_all" /\ backend # "surreal"
    => \A m \in Elements(list[c]) : Valid(m)

Single(c) == pc[c] \in {"store", "put", "fetch"} => Len(list[c]) = 1

Kind(c) ==
    /\ pc[c] = "idle" => op[c] = "none" /\ told[c] = {} /\ res[c] = "none"
    /\ pc[c] \in {"store", "put", "fetch", "store_all", "insert_all"} => Stores(c)
    /\ pc[c] \in {"remove", "drop"} => Removes(c)
    /\ pc[c] = "query" => op[c] = "query"
    /\ res[c] = "ok" => pc[c] = "done"
    /\ pc[c] # "done" => told[c] = {}

\* Only what had returned is before a call, which is still so.
Ordered(c) == \A d \in before[c] : pc[d] = "done"

\* A row was stored by a call that was given its mapping.
Owned ==
    \A r \in table : r.by # Seed => Stores(r.by) /\ MappingOf(r) \in Elements(list[r.by])

\* A row of a call that had not returned when c started.
Later(c, r) == r.by \in Calls \ before[c]

\* A removal between its two statements, and one that has returned.
Selected(c) ==
    pc[c] = "drop" => \A r \in table : Covers(target[c], r) => r \in sel[c] \/ Later(c, r)

Cleared(c) ==
    Removes(c) /\ res[c] = "ok" => \A r \in table : Covers(target[c], r) => Later(c, r)

IInv ==
    /\ TypeOK
    /\ OneToOne
    /\ \A c \in Calls : Checked(c) /\ Single(c) /\ Kind(c) /\ Ordered(c)
    /\ Owned
    /\ \A c \in Calls : Selected(c) /\ Cleared(c)
    /\ RemovedIsGone

-----------------------------------------------------------------------------
(* Lists, rows and mappings *)

LEMMA ElementsType ==
    ASSUME NEW l \in Seq(Mapping)
    PROVE  /\ Elements(l) \in SUBSET Mapping
           /\ \A k \in 1..Len(l) : l[k] \in Elements(l)
  BY DEF Elements

LEMMA RowFacts ==
    /\ \A m \in Mapping, c \in Calls :
          /\ RowOf(m, c) \in Row
          /\ RowOf(m, c).by = c /\ RowOf(m, c).id = m.id /\ RowOf(m, c).name = m.name
          /\ MappingOf(RowOf(m, c)) = m
    /\ \A r \in Row : /\ MappingOf(r) \in Mapping
                      /\ MappingOf(r).id = r.id /\ MappingOf(r).name = r.name
                      /\ r.by \in Calls \cup {Seed}
  BY DEF RowOf, MappingOf, Row, Mapping

\* Whether a target covers a row depends on its mapping.
LEMMA CoversMapping ==
    ASSUME NEW t, NEW r \in Row
    PROVE  Covers(t, MappingOf(r)) <=> Covers(t, r)
  BY RowFacts DEF Covers

LEMMA NewsFacts ==
    ASSUME NEW l \in Seq(Mapping), NEW skip
    PROVE  /\ News(l, skip) \subseteq Elements(l)
           /\ \A m \in News(l, skip) : ~Taken(m.id)
           /\ \A m, n \in News(l, skip) : m.id = n.id => m = n
  <1>1. News(l, skip) \subseteq Elements(l) /\ \A m \in News(l, skip) : ~Taken(m.id)
    BY DEF News, Elements
  <1>2. ASSUME NEW m \in News(l, skip), NEW n \in News(l, skip), m.id = n.id
        PROVE  m = n
    <2>1. PICK j \in 1..Len(l) : m = l[j] /\ \A h \in 1..(j - 1) : l[h].id # l[j].id
      BY DEF News
    <2>2. PICK k \in 1..Len(l) : n = l[k] /\ \A h \in 1..(k - 1) : l[h].id # l[k].id
      BY DEF News
    <2>3. ~(j < k) /\ ~(k < j)
      BY <2>1, <2>2, <1>2
    <2> QED BY <2>1, <2>2, <2>3
  <1> QED BY <1>1, <1>2

-----------------------------------------------------------------------------
(* What every step leaves alone *)

Storing == {"store", "put", "store_all", "insert_all"}

LEMMA Frame ==
    ASSUME TypeOK, NEW c \in Calls, StartCall(c) \/ Step(c) \/ Abandon(c)
    PROVE  /\ pc[c] # "done"
           /\ backend' = backend /\ isolated' = isolated
           /\ \A d \in Calls \ {c} :
                 /\ pc'[d] = pc[d] /\ op'[d] = op[d] /\ list'[d] = list[d]
                 /\ target'[d] = target[d] /\ sel'[d] = sel[d] /\ told'[d] = told[d]
                 /\ res'[d] = res[d] /\ before'[d] = before[d]
           /\ pc[c] # "idle" => UNCHANGED args
           /\ pc[c] = "idle" => UNCHANGED table /\ before'[c] = {d \in Calls : pc[d] = "done"}
  <1>1. CASE StartCall(c)
    BY <1>1 DEF StartCall, StoreStart, RemoveStart, QueryStart, Start, Goto, Return, TypeOK
  <1>2. CASE Abandon(c)
    BY <1>2 DEF Abandon, Return, TypeOK, args
  <1>3. CASE Store(c) \/ PutOne(c) \/ Fetch(c)
    BY <1>3 DEF Store, PutOne, Put, Fetch, Answer, Goto, Return, At, args, TypeOK
  <1>4. CASE StoreAll(c)
    BY <1>4 DEF StoreAll, Put, Goto, Return, At, args, TypeOK
  <1>5. CASE InsertAll(c)
    BY <1>5 DEF InsertAll, Return, At, args, TypeOK
  <1>6. CASE Remove(c) \/ Drop(c) \/ Query(c)
    BY <1>6 DEF Remove, Drop, Query, Answer, Goto, Return, At, args, TypeOK
  <1> QED BY <1>1, <1>2, <1>3, <1>4, <1>5, <1>6 DEF Step

-----------------------------------------------------------------------------
(* The table *)

\* A row that a step adds belongs to the call and has a mapping it was given,
\* which has been validated.
LEMMA AddedRows ==
    ASSUME IInv, NEW c \in Calls, Step(c)
    PROVE  \A r \in table' \ table :
              /\ r.by = c
              /\ MappingOf(r) \in Elements(list[c])
              /\ Valid(MappingOf(r))
              /\ pc[c] \in Storing
  <1> DEFINE l == list[c]
  <1>1. l \in Seq(Mapping) /\ Checked(c) /\ Single(c)
    BY DEF IInv, TypeOK
  <1>2. Elements(l) \in SUBSET Mapping
    BY <1>1, ElementsType
  <1>3. ASSUME NEW ms \in SUBSET Elements(l), Insert(c, ms)
        PROVE  \A r \in table' \ table : r.by = c /\ MappingOf(r) \in ms
    BY <1>2, <1>3, RowFacts DEF Insert
  <1>4. ASSUME NEW m \in Elements(l), Upsert(c, m)
        PROVE  \A r \in table' \ table : r.by = c /\ MappingOf(r) = m
    BY <1>2, <1>4, RowFacts DEF Upsert
  <1>5. \A skip : News(l, skip) \subseteq Elements(l)
    BY <1>1, NewsFacts
  <1>6. CASE Store(c)
    <2>1. Len(l) = 1 /\ pc[c] = "store"
      BY <1>1, <1>6 DEF Store, At, Single
    <2>2. l[1] \in Elements(l)
      BY <1>1, <2>1, ElementsType
    <2>3. UNCHANGED table \/ Insert(c, News(l, {})) \/ Upsert(c, l[1])
      BY <1>6 DEF Store
    <2>4. \A m \in Elements(l) : Valid(m)
      BY <1>1, <2>1 DEF Checked
    <2> QED BY <1>3, <1>4, <1>5, <2>1, <2>2, <2>3, <2>4 DEF Storing
  <1>7. CASE PutOne(c)
    <2>1. pc[c] = "put" /\ Insert(c, News(l, {}))
      BY <1>7 DEF PutOne, At, Put
    <2>2. \A m \in Elements(l) : Valid(m)
      BY <1>1, <2>1 DEF Checked
    <2> QED BY <1>3, <1>5, <2>1, <2>2 DEF Storing
  <1>8. CASE StoreAll(c)
    <2>1. pc[c] = "store_all"
      BY <1>8 DEF StoreAll, At
    <2>2. CASE backend = "memory" /\ Insert(c, News(l, {}))
      <3>1. \A m \in Elements(l) : Valid(m)
        BY <1>1, <2>1, <2>2 DEF Checked
      <3> QED BY <1>3, <1>5, <2>1, <2>2, <3>1 DEF Storing
    <2>3. CASE UNCHANGED table
      BY <2>3
    <2>4. CASE /\ count[c] < Len(l)
               /\ Valid(l[count[c] + 1]) /\ Upsert(c, l[count[c] + 1])
      <3>1. count[c] + 1 \in 1..Len(l)
        BY <1>1, <2>4 DEF IInv, TypeOK
      <3>2. l[count[c] + 1] \in Elements(l)
        BY <1>1, <3>1, ElementsType
      <3> QED BY <1>4, <2>1, <2>4, <3>2 DEF Storing
    <2> QED BY <1>8, <2>2, <2>3, <2>4 DEF StoreAll, Put
  <1>9. CASE InsertAll(c)
    <2>1. PICK skip : pc[c] = "insert_all" /\ Insert(c, News(l, skip))
      BY <1>9 DEF InsertAll, At
    <2>2. \A m \in Elements(l) : Valid(m)
      BY <1>1, <2>1 DEF Checked
    <2> QED BY <1>3, <1>5, <2>1, <2>2 DEF Storing
  <1>10. CASE Fetch(c) \/ Query(c)
    BY <1>10 DEF Fetch, Query
  <1>11. CASE Remove(c) \/ Drop(c)
    BY <1>11 DEF Remove, Drop, Delete
  <1> QED BY <1>6, <1>7, <1>8, <1>9, <1>10, <1>11 DEF Step

\* What a step does to the table, in one of three ways.
LEMMA TableSteps ==
    ASSUME IInv, NEW c \in Calls, Step(c)
    PROVE  \/ \E skip : Insert(c, News(list[c], skip))
           \/ \E m \in Mapping : Upsert(c, m)
           \/ table' \subseteq table
  <1> DEFINE l == list[c]
  <1>1. l \in Seq(Mapping) /\ Single(c)
    BY DEF IInv, TypeOK
  <1>2. \A k \in 1..Len(l) : l[k] \in Mapping
    BY <1>1
  <1>3. CASE Store(c)
    <2>1. l[1] \in Mapping
      BY <1>1, <1>2, <1>3 DEF Store, At, Single
    <2> QED BY <1>3, <2>1 DEF Store
  <1>4. CASE PutOne(c) \/ InsertAll(c)
    BY <1>4 DEF PutOne, Put, InsertAll
  <1>5. CASE StoreAll(c)
    <2>1. count[c] < Len(l) => l[count[c] + 1] \in Mapping
      BY <1>1, <1>2 DEF IInv, TypeOK
    <2> QED BY <1>5, <2>1 DEF StoreAll, Put
  <1>6. CASE Fetch(c) \/ Query(c) \/ Remove(c) \/ Drop(c)
    BY <1>6 DEF Fetch, Query, Remove, Drop, Delete
  <1> QED BY <1>3, <1>4, <1>5, <1>6 DEF Step

LEMMA OneToOneStep ==
    ASSUME IInv, NEW c \in Calls, Step(c), table' \in SUBSET Row
    PROVE  OneToOne'
  <1>1. table \in SUBSET Row /\ list[c] \in Seq(Mapping) /\ OneToOne
    BY DEF IInv, TypeOK
  <1>2. ASSUME NEW r \in table'
        PROVE  Valid(r)
    <2>1. CASE r \in table
      BY <1>1, <2>1 DEF OneToOne
    <2>2. CASE r \notin table
      <3>1. Valid(MappingOf(r))
        BY <2>2, AddedRows
      <3> QED BY <3>1, RowFacts DEF Valid
    <2> QED BY <2>1, <2>2
  <1>3. ASSUME NEW r \in table', NEW s \in table', s.id = r.id
        PROVE  s = r
    <2>1. CASE table' \subseteq table
      BY <1>1, <1>3, <2>1 DEF OneToOne
    <2>2. ASSUME NEW m \in Mapping, Upsert(c, m)
          PROVE  s = r
      <3>1. RowOf(m, c).id = m.id
        BY RowFacts
      <3>2. \A t \in table' : t = RowOf(m, c) \/ (t \in table /\ t.id # m.id)
        BY <2>2 DEF Upsert
      <3>3. \A t, u \in table : t.id = u.id => t = u
        BY <1>1 DEF OneToOne
      <3> QED BY <1>3, <3>1, <3>2, <3>3
    <2>3. ASSUME NEW skip, Insert(c, News(list[c], skip))
          PROVE  s = r
      <3> DEFINE N == News(list[c], skip)
      <3>1. /\ N \subseteq Mapping
            /\ \A m \in N : ~Taken(m.id)
            /\ \A m, n \in N : m.id = n.id => m = n
        BY <1>1, NewsFacts, ElementsType
      <3>2. \A t \in table' : t \in table \/ \E m \in N : t = RowOf(m, c) /\ t.id = m.id
        <4>1. table' = table \cup {RowOf(m, c) : m \in N}
          BY <2>3 DEF Insert
        <4> HIDE DEF N
        <4> QED BY <3>1, <4>1, RowFacts
      <3>3. \A t, u \in table : t.id = u.id => t = u
        BY <1>1 DEF OneToOne
      <3>4. \A m \in N : \A t \in table : t.id # m.id
        BY <3>1 DEF Taken
      <3> HIDE DEF N
      <3> QED BY <1>3, <3>1, <3>2, <3>3, <3>4
    <2> QED BY <2>1, <2>2, <2>3, TableSteps
  <1> QED BY <1>2, <1>3 DEF OneToOne, Valid

-----------------------------------------------------------------------------
(* The calls *)

LEMMA ReturnType ==
    ASSUME TypeOK, NEW c \in Calls, NEW result \in Results, NEW answer \in SUBSET Mapping,
           Return(c, result, answer)
    PROVE  /\ pc' \in [Calls -> Labels]
           /\ res' \in [Calls -> Results]
           /\ told' \in [Calls -> SUBSET Mapping]
  <1>1. pc' \in [Calls -> Labels]
    BY DEF TypeOK, Return, Labels
  <1>2. res' \in [Calls -> Results]
    BY DEF TypeOK, Return, Results
  <1>3. told' = [told EXCEPT ![c] = answer] \/ told' = told
    BY DEF Return
  <1>4. told' \in [Calls -> SUBSET Mapping]
    BY <1>3 DEF TypeOK
  <1> QED BY <1>1, <1>2, <1>4

LEMMA GotoType ==
    ASSUME TypeOK, NEW c \in Calls, NEW label \in Labels, Goto(c, label)
    PROVE  /\ pc' \in [Calls -> Labels]
           /\ res' \in [Calls -> Results]
           /\ told' \in [Calls -> SUBSET Mapping]
  BY DEF TypeOK, Goto

LEMMA TypeStep ==
    ASSUME IInv, NEW c \in Calls, StartCall(c) \/ Step(c) \/ Abandon(c)
    PROVE  TypeOK'
  <1> DEFINE l == list[c]
  <1> DEFINE Calling == /\ pc' \in [Calls -> Labels]
                        /\ res' \in [Calls -> Results]
                        /\ told' \in [Calls -> SUBSET Mapping]
  <1>1. TypeOK /\ l \in Seq(Mapping) /\ Elements(l) \in SUBSET Mapping
    BY ElementsType DEF IInv, TypeOK
  <1>2. {"ok", "err", "invalid"} \subseteq Results
    BY DEF Results
  <1>3. \A rows \in SUBSET Row : {MappingOf(r) : r \in rows} \in SUBSET Mapping
    BY RowFacts
  <1>4. \A skip : News(l, skip) \in SUBSET Mapping
    BY <1>1, NewsFacts
  <1>5. Hits(c) \in SUBSET Row /\ sel[c] \in SUBSET Row
    BY <1>1 DEF TypeOK, Hits
  <1>6. Step(c) => table' \in SUBSET Row
    <2>1. \A ms \in SUBSET Mapping : Insert(c, ms) => table' \in SUBSET Row
      BY <1>1, RowFacts DEF Insert, TypeOK
    <2>2. \A m \in Mapping : Upsert(c, m) => table' \in SUBSET Row
      BY <1>1, RowFacts DEF Upsert, TypeOK
    <2>3. table' \subseteq table => table' \in SUBSET Row
      BY <1>1 DEF TypeOK
    <2> QED BY <1>4, <2>1, <2>2, <2>3, TableSteps
  <1>7. CASE StartCall(c)
    <2>1. Calling
      BY <1>1, <1>2, <1>7, ReturnType, GotoType
         DEF StartCall, StoreStart, RemoveStart, QueryStart, Labels
    <2>2. list' \in [Calls -> Seq(Mapping)] /\ target' \in [Calls -> Target \cup {NoTarget}]
      <3>1. CASE \E kind \in Ops, x \in Lists : StoreStart(c, kind, x)
        BY <1>1, <3>1, RegistryAssumption DEF StoreStart, TypeOK
      <3>2. CASE \E kind \in Ops, t \in Targets : RemoveStart(c, kind, t)
        BY <1>1, <3>2, RegistryAssumption DEF RemoveStart, TypeOK
      <3>3. CASE \E t \in Targets : QueryStart(c, t)
        BY <1>1, <3>3, RegistryAssumption DEF QueryStart, TypeOK
      <3> QED BY <1>7, <3>1, <3>2, <3>3 DEF StartCall
    <2>3. op' \in [Calls -> AllOps \cup {"none"}] /\ before' \in [Calls -> SUBSET Calls]
      <3>1. PICK kind \in AllOps : Start(c, kind)
        BY <1>7 DEF StartCall, StoreStart, RemoveStart, QueryStart, AllOps
      <3>2. op' = [op EXCEPT ![c] = kind] /\ op' \in [Calls -> AllOps \cup {"none"}]
        BY <1>1, <3>1 DEF Start, TypeOK
      <3>3. before' \in [Calls -> SUBSET Calls]
        BY <1>1, <3>1 DEF Start, TypeOK
      <3> QED BY <3>2, <3>3
    <2>4. UNCHANGED <<backend, isolated, table, sel, count>>
      BY <1>7 DEF StartCall, StoreStart, RemoveStart, QueryStart, Start
    <2> QED BY <1>1, <2>1, <2>2, <2>3, <2>4 DEF TypeOK
  <1>8. CASE Abandon(c)
    <2>1. Calling
      BY <1>1, <1>2, <1>8, ReturnType DEF Abandon
    <2> QED BY <1>1, <1>8, <2>1 DEF Abandon, TypeOK, args
  <1>9. CASE Step(c)
    <2>1. UNCHANGED <<backend, isolated, op, list, target, before>>
      BY <1>9 DEF Step, Store, PutOne, Fetch, StoreAll, InsertAll, Remove, Drop, Query, At, args
    <2>2. Calling /\ sel' \in [Calls -> SUBSET Row] /\ count' \in [Calls -> Nat]
      <3>1. CASE Store(c)
        <4>1. Elements(l) \in SUBSET Mapping /\ {} \in SUBSET Mapping
          BY <1>1
        <4>2. \/ Return(c, "ok", {}) \/ Return(c, "ok", Elements(l))
              \/ Goto(c, "put") \/ Goto(c, "fetch")
          BY <3>1 DEF Store
        <4>3. Calling
          BY <1>1, <1>2, <4>1, <4>2, ReturnType, GotoType DEF Labels
        <4> QED BY <1>1, <3>1, <4>3 DEF Store, TypeOK
      <3>2. CASE PutOne(c)
        <4>1. Return(c, "ok", News(l, {}))
          BY <3>2 DEF PutOne, Put
        <4>2. Calling
          BY <1>1, <1>2, <1>4, <4>1, ReturnType
        <4> QED BY <1>1, <3>2, <4>2 DEF PutOne, TypeOK
      <3>3. CASE Fetch(c) \/ Query(c)
        <4>1. \E rows \in SUBSET Row : Answer(c, rows)
          BY <1>1, <1>5, <3>3 DEF Fetch, Query, TypeOK
        <4>2. Calling
          BY <1>1, <1>2, <1>3, <4>1, ReturnType DEF Answer
        <4> QED BY <1>1, <3>3, <4>2 DEF Fetch, Query, TypeOK
      <3>4. CASE StoreAll(c)
        <4>1. \/ Return(c, "ok", {}) \/ Return(c, "err", {})
              \/ Return(c, "ok", Elements(l)) \/ Return(c, "ok", News(l, {}))
              \/ Goto(c, "insert_all") \/ Goto(c, "store_all")
          BY <3>4 DEF StoreAll, Put
        <4>2. Calling
          BY <1>1, <1>2, <1>4, <4>1, ReturnType, GotoType DEF Labels
        <4>3. sel' \in [Calls -> SUBSET Row] /\ count' \in [Calls -> Nat]
          <5>1. count' = count \/ count' = [count EXCEPT ![c] = count[c] + 1]
            BY <3>4 DEF StoreAll
          <5>2. sel' = sel \/ \E rows \in SUBSET Row : sel' = [sel EXCEPT ![c] = rows]
            BY <1>1, <3>4 DEF StoreAll, TypeOK
          <5>3. count' \in [Calls -> Nat]
            <6>1. count \in [Calls -> Nat]
              BY <1>1 DEF TypeOK
            <6> QED BY <5>1, <6>1
          <5>4. \A rows \in SUBSET Row : [sel EXCEPT ![c] = rows] \in [Calls -> SUBSET Row]
            BY <1>1 DEF TypeOK
          <5>5. sel \in [Calls -> SUBSET Row]
            BY <1>1 DEF TypeOK
          <5>6. sel' \in [Calls -> SUBSET Row]
            BY <5>2, <5>4, <5>5
          <5> QED BY <5>3, <5>6
        <4> QED BY <4>2, <4>3
      <3>5. CASE InsertAll(c)
        <4>1. \E ms \in SUBSET Mapping : Return(c, "ok", ms)
          BY <1>1, <3>5 DEF InsertAll
        <4>2. Calling
          BY <1>1, <1>2, <4>1, ReturnType
        <4> QED BY <1>1, <3>5, <4>2 DEF InsertAll, TypeOK
      <3>6. CASE Remove(c) \/ Drop(c)
        <4>1. Goto(c, "drop") \/ \E rows \in SUBSET Row : Answer(c, rows)
          BY <1>5, <3>6 DEF Remove, Drop
        <4>2. Calling
          BY <1>1, <1>2, <1>3, <4>1, ReturnType, GotoType DEF Answer, Labels
        <4>3. sel' \in [Calls -> SUBSET Row] /\ count' \in [Calls -> Nat]
          <5>1. sel' = sel \/ sel' = [sel EXCEPT ![c] = Hits(c)]
            BY <3>6 DEF Remove, Drop
          <5>2. count' = count
            BY <3>6 DEF Remove, Drop
          <5>3. \A rows \in SUBSET Row : [sel EXCEPT ![c] = rows] \in [Calls -> SUBSET Row]
            BY <1>1 DEF TypeOK
          <5>4. sel' \in [Calls -> SUBSET Row]
            BY <1>1, <1>5, <5>1, <5>3 DEF TypeOK
          <5> QED BY <1>1, <5>2, <5>4 DEF TypeOK
        <4> QED BY <4>2, <4>3
      <3> QED BY <1>9, <3>1, <3>2, <3>3, <3>4, <3>5, <3>6 DEF Step
    <2> QED BY <1>1, <1>6, <1>9, <2>1, <2>2 DEF TypeOK
  <1> QED BY <1>7, <1>8, <1>9

\* The parts of the invariant about single calls.
LEMMA CallsStep ==
    ASSUME IInv, NEW c \in Calls, StartCall(c) \/ Step(c) \/ Abandon(c)
    PROVE  \A d \in Calls : Checked(d)' /\ Single(d)' /\ Kind(d)' /\ Ordered(d)'
  <1>1. TypeOK /\ \A d \in Calls : Checked(d) /\ Single(d) /\ Kind(d) /\ Ordered(d)
    BY DEF IInv
  <1>2. /\ pc[c] # "done" /\ backend' = backend
        /\ \A d \in Calls \ {c} : /\ pc'[d] = pc[d] /\ op'[d] = op[d] /\ list'[d] = list[d]
                                  /\ told'[d] = told[d] /\ res'[d] = res[d]
                                  /\ before'[d] = before[d]
        /\ pc[c] # "idle" => UNCHANGED args
        /\ pc[c] = "idle" => before'[c] = {d \in Calls : pc[d] = "done"}
    BY <1>1, Frame
  <1>3. ASSUME NEW d \in Calls
        PROVE  Ordered(d)'
    <2>1. before[d] \subseteq Calls
      BY <1>1 DEF TypeOK
    <2>2. \A e \in Calls : pc[e] = "done" => pc'[e] = "done"
      BY <1>2
    <2>3. \A e \in before'[d] : e \in Calls /\ pc[e] = "done"
      BY <1>1, <1>2, <2>1 DEF Ordered, args
    <2> QED BY <2>2, <2>3 DEF Ordered
  <1>4. ASSUME NEW d \in Calls \ {c}
        PROVE  Checked(d)' /\ Single(d)' /\ Kind(d)'
    BY <1>1, <1>2 DEF Checked, Single, Kind, Stores, Removes, Valid
  <1>5. Checked(c)' /\ Single(c)' /\ Kind(c)'
    <2>1. CASE StartCall(c)
      <3>1. CASE \E kind \in Ops, l \in Lists : StoreStart(c, kind, l)
        BY <1>1, <3>1 DEF StoreStart, Start, Goto, Return, TypeOK,
           Checked, Single, Kind, Stores, Removes, Valid
      <3>2. CASE \E kind \in Ops, t \in Targets : RemoveStart(c, kind, t)
        BY <1>1, <3>2 DEF RemoveStart, Start, Goto, TypeOK,
           Checked, Single, Kind, Stores, Removes, Valid
      <3>3. CASE \E t \in Targets : QueryStart(c, t)
        BY <1>1, <3>3 DEF QueryStart, Start, Goto, TypeOK,
           Checked, Single, Kind, Stores, Removes, Valid
      <3> QED BY <2>1, <3>1, <3>2, <3>3 DEF StartCall
    <2>2. CASE pc'[c] = "done" /\ pc[c] # "idle"
      BY <1>2, <2>2 DEF Checked, Single, Kind
    <2>3. CASE Step(c) /\ pc'[c] # "done"
      <3>1. /\ UNCHANGED <<backend, op, list, res, told>>
            /\ \/ pc[c] = "store" /\ pc'[c] \in {"put", "fetch"}
               \/ pc[c] = "store_all" /\ backend # "surreal" /\ pc'[c] = "insert_all"
               \/ pc[c] = "store_all" /\ backend = "surreal" /\ pc'[c] = "store_all"
               \/ pc[c] = "remove" /\ pc'[c] = "drop"
        BY <1>1, <2>3 DEF Step, Store, PutOne, Put, Fetch, StoreAll, InsertAll, Remove, Drop,
           Query, Answer, At, Goto, Return, args, TypeOK
      <3> QED BY <1>1, <3>1 DEF Checked, Single, Kind, Stores, Removes, Valid
    <2>4. CASE Abandon(c)
      <3>1. pc'[c] = "done" /\ pc[c] # "idle"
        BY <1>1, <2>4 DEF Abandon, Return, TypeOK
      <3> QED BY <2>2, <3>1
    <2>5. Step(c) => pc[c] # "idle"
      BY DEF Step, Store, PutOne, Fetch, StoreAll, InsertAll, Remove, Drop, Query, At
    <2> QED BY <2>1, <2>2, <2>3, <2>4, <2>5
  <1> QED BY <1>3, <1>4, <1>5

-----------------------------------------------------------------------------
(* Rows and calls *)

\* A step of c keeps what a call was given, once it has begun.
LEMMA BegunKeeps ==
    ASSUME IInv, NEW c \in Calls, StartCall(c) \/ Step(c) \/ Abandon(c),
           NEW d \in Calls, pc[d] # "idle"
    PROVE  /\ op'[d] = op[d] /\ list'[d] = list[d] /\ target'[d] = target[d]
           /\ before'[d] = before[d]
  <1>1. CASE d = c
    BY <1>1, Frame DEF IInv, args
  <1>2. CASE d # c
    BY <1>2, Frame DEF IInv
  <1> QED BY <1>1, <1>2

\* A row that a step of c leaves or adds.
LEMMA RowSteps ==
    ASSUME IInv, NEW c \in Calls, StartCall(c) \/ Step(c) \/ Abandon(c),
           NEW r \in table'
    PROVE  \/ r \in table
           \/ /\ r.by = c /\ MappingOf(r) \in Elements(list[c])
              /\ pc[c] \in Storing /\ pc[c] # "done"
  <1>1. CASE StartCall(c)
    BY <1>1 DEF StartCall, StoreStart, RemoveStart, QueryStart, Start
  <1>2. CASE Abandon(c)
    BY <1>2 DEF Abandon
  <1>3. CASE Step(c)
    BY <1>3, AddedRows DEF Storing
  <1> QED BY <1>1, <1>2, <1>3

LEMMA OwnedStep ==
    ASSUME IInv, NEW c \in Calls, StartCall(c) \/ Step(c) \/ Abandon(c)
    PROVE  Owned'
  <1> SUFFICES ASSUME NEW r \in table', r.by # Seed
               PROVE  (Stores(r.by) /\ MappingOf(r) \in Elements(list[r.by]))'
    BY DEF Owned, MappingOf
  <1>1. \A d \in Calls : Kind(d)
    BY DEF IInv
  <1>2. CASE r \in table
    <2>1. r.by \in Calls /\ Stores(r.by) /\ MappingOf(r) \in Elements(list[r.by])
      BY <1>2, RowFacts DEF IInv, Owned, TypeOK
    <2>2. pc[r.by] # "idle"
      BY <1>1, <2>1 DEF Kind, Stores
    <2> QED BY <2>1, <2>2, BegunKeeps DEF Stores, Elements, MappingOf
  <1>3. CASE r \notin table
    <2>1. r.by = c /\ MappingOf(r) \in Elements(list[c]) /\ pc[c] \in Storing
      BY <1>3, RowSteps
    <2>2. Stores(c) /\ pc[c] # "idle"
      BY <1>1, <2>1 DEF Kind, Storing
    <2> QED BY <2>1, <2>2, BegunKeeps DEF Stores, Elements, MappingOf
  <1> QED BY <1>2, <1>3

\* Once a call has begun, what is stored after it began is later than it.
LEMMA LaterKeeps ==
    ASSUME IInv, NEW c \in Calls, StartCall(c) \/ Step(c) \/ Abandon(c),
           NEW d \in Calls, pc[d] # "idle", NEW r \in table', r \notin table \/ Later(d, r)
    PROVE  Later(d, r)'
  <1>1. before'[d] = before[d]
    BY BegunKeeps
  <1>2. CASE Later(d, r)
    BY <1>1, <1>2 DEF Later
  <1>3. CASE r \notin table
    <2>1. r.by = c /\ pc[c] # "done"
      BY <1>3, RowSteps
    <2>2. c \notin before[d]
      BY <2>1 DEF IInv, Ordered
    <2> QED BY <1>1, <2>1, <2>2 DEF Later
  <1> QED BY <1>2, <1>3

LEMMA SelectedStep ==
    ASSUME IInv, NEW c \in Calls, StartCall(c) \/ Step(c) \/ Abandon(c),
           NEW d \in Calls
    PROVE  Selected(d)'
  <1> SUFFICES ASSUME pc'[d] = "drop", NEW r \in table', Covers(target'[d], r)
               PROVE  r \in sel'[d] \/ Later(d, r)'
    BY DEF Selected, Covers, Later
  <1>1. CASE d # c
    <2>1. pc[d] = "drop" /\ sel'[d] = sel[d] /\ target'[d] = target[d]
      BY <1>1, Frame DEF IInv
    <2>2. CASE r \in table
      <3>1. r \in sel[d] \/ Later(d, r)
        BY <2>1, <2>2 DEF IInv, Selected
      <3> QED BY <2>1, <3>1, LaterKeeps
    <2> QED BY <2>1, <2>2, LaterKeeps
  <1>2. CASE d = c
    <2>1. Remove(c) /\ UNCHANGED table /\ sel' = [sel EXCEPT ![c] = Hits(c)]
      <3>1. CASE StartCall(c)
        BY <1>2, <3>1 DEF StartCall, StoreStart, RemoveStart, QueryStart, Start, Goto, Return,
           IInv, TypeOK
      <3>2. CASE Abandon(c) \/ PutOne(c) \/ Fetch(c) \/ InsertAll(c) \/ Drop(c) \/ Query(c)
        BY <1>2, <3>2 DEF Abandon, PutOne, Put, Fetch, InsertAll, Drop, Query, Answer, Return,
           IInv, TypeOK
      <3>3. CASE Store(c) \/ StoreAll(c)
        BY <1>2, <3>3 DEF Store, StoreAll, Put, Goto, Return, IInv, TypeOK
      <3>4. CASE Remove(c)
        BY <1>2, <3>4 DEF Remove, Answer, Goto, Return, IInv, TypeOK
      <3> QED BY <3>1, <3>2, <3>3, <3>4 DEF Step
    <2>2. target' = target
      BY <2>1 DEF Remove, At, args
    <2>3. r \in Hits(c)
      BY <1>2, <2>1, <2>2 DEF Hits
    <2> QED BY <1>2, <2>1, <2>3 DEF IInv, TypeOK
  <1> QED BY <1>1, <1>2

LEMMA ClearedStep ==
    ASSUME IInv, NEW c \in Calls, StartCall(c) \/ Step(c) \/ Abandon(c),
           NEW d \in Calls
    PROVE  Cleared(d)'
  <1> SUFFICES ASSUME Removes(d)', res'[d] = "ok", NEW r \in table', Covers(target'[d], r)
               PROVE  Later(d, r)'
    BY DEF Cleared, Covers, Later
  <1>1. TypeOK /\ Kind(c) /\ Kind(d) /\ Selected(d) /\ Cleared(d)
    BY DEF IInv
  <1>2. CASE d # c
    <2>1. res[d] = "ok" /\ Removes(d) /\ target'[d] = target[d] /\ pc[d] # "idle"
      BY <1>1, <1>2, Frame DEF Removes, Kind
    <2>2. r \notin table \/ Later(d, r)
      BY <1>1, <2>1 DEF Cleared
    <2> QED BY <2>1, <2>2, LaterKeeps
  <1>3. CASE d = c
    <2>1. (Remove(c) /\ ~SelectsFirst(c)) \/ (Remove(c) /\ Hits(c) = {} /\ UNCHANGED table)
            \/ Drop(c)
      <3>1. CASE StartCall(c)
        BY <1>1, <1>3, <3>1 DEF StartCall, StoreStart, RemoveStart, QueryStart, Start, Goto,
           Return, Kind, TypeOK
      <3>2. CASE Abandon(c)
        BY <1>1, <1>3, <3>2 DEF Abandon, Return, TypeOK
      <3>3. CASE Store(c) \/ PutOne(c) \/ Fetch(c) \/ StoreAll(c) \/ InsertAll(c) \/ Query(c)
        <4>1. op' = op /\ ~Removes(c)
          BY <1>1, <3>3 DEF Store, PutOne, Fetch, StoreAll, InsertAll, Query, At, args, Kind,
             Stores, Removes
        <4> QED BY <1>3, <4>1 DEF Removes
      <3>4. CASE Remove(c) /\ SelectsFirst(c) /\ Hits(c) # {}
        BY <1>1, <1>3, <3>4 DEF Remove, At, Goto, Kind
      <3>5. CASE Remove(c) /\ SelectsFirst(c) /\ Hits(c) = {}
        BY <3>5 DEF Remove
      <3> QED BY <3>1, <3>2, <3>3, <3>4, <3>5 DEF Step
    <2>2. pc[c] # "idle" /\ target' = target
      BY <2>1 DEF Remove, Drop, At, args
    <2>3. r \in table => Later(c, r)
      <3>1. CASE Remove(c) /\ ~SelectsFirst(c)
        <4>1. table' = table \ Hits(c)
          BY <3>1 DEF Remove, Delete
        <4> QED BY <1>3, <2>2, <4>1 DEF Hits
      <3>2. CASE Hits(c) = {} /\ UNCHANGED table
        BY <1>3, <2>2, <3>2 DEF Hits
      <3>3. CASE Drop(c)
        <4>1. table' = table \ sel[c] /\ pc[c] = "drop"
          BY <3>3 DEF Drop, Delete, At
        <4> QED BY <1>1, <1>3, <2>2, <4>1 DEF Selected
      <3> QED BY <2>1, <3>1, <3>2, <3>3
    <2> QED BY <1>3, <2>2, <2>3, LaterKeeps
  <1> QED BY <1>2, <1>3

LEMMA GoneStep ==
    ASSUME IInv, NEW c \in Calls, StartCall(c) \/ Step(c) \/ Abandon(c)
    PROVE  RemovedIsGone'
  <1> SUFFICES ASSUME NEW q \in Calls, NEW r \in Calls, NEW m \in told'[q],
                      op'[q] = "query", Removes(r)', res'[r] = "ok", r \in before'[q],
                      Covers(target'[r], m)
               PROVE  \E d \in Calls \ before'[r] : Stores(d)' /\ m \in Elements(list'[d])
    BY DEF RemovedIsGone, Covers, Elements
  <1>1. TypeOK /\ (\A d \in Calls : Kind(d) /\ Ordered(d)) /\ Owned /\ Cleared(r)
    BY DEF IInv
  <1>2. pc[q] # "idle"
    <2>1. CASE q = c /\ StartCall(c)
      <3>1. told'[c] = {}
        BY <1>1, <2>1 DEF StartCall, StoreStart, RemoveStart, QueryStart, Start, Goto, Return,
           Kind, TypeOK
      <3> QED BY <2>1, <3>1
    <2>2. CASE q = c /\ ~StartCall(c)
      BY <2>2 DEF Step, Store, PutOne, Fetch, StoreAll, InsertAll, Remove, Drop, Query, At,
         Abandon
    <2>3. CASE q # c
      BY <1>1, <2>3, Frame DEF Kind
    <2> QED BY <2>1, <2>2, <2>3
  <1>3. op[q] = "query" /\ r \in before[q] /\ pc[r] = "done"
    BY <1>1, <1>2, BegunKeeps DEF Ordered
  <1>4. r # c
    BY <1>1, <1>3, Frame
  <1>5. /\ Removes(r) /\ res[r] = "ok" /\ Covers(target[r], m) /\ before'[r] = before[r]
    BY <1>1, <1>4, Frame DEF Removes
  <1>6. \E d \in Calls \ before[r] : Stores(d) /\ m \in Elements(list[d])
    <2>1. CASE m \in told[q]
      BY <1>3, <1>5, <2>1 DEF IInv, RemovedIsGone
    <2>2. CASE m \notin told[q]
      <3>1. q = c
        BY <1>1, <2>2, Frame
      <3>2. Query(c)
        <4>1. CASE StartCall(c)
          BY <1>2, <3>1, <4>1 DEF StartCall, StoreStart, RemoveStart, QueryStart, Start
        <4>2. CASE Abandon(c)
          BY <1>1, <2>2, <3>1, <4>2 DEF Abandon, Return, TypeOK
        <4>3. CASE Store(c) \/ PutOne(c) \/ Fetch(c) \/ StoreAll(c) \/ InsertAll(c)
          BY <1>1, <1>3, <3>1, <4>3 DEF Store, PutOne, Fetch, StoreAll, InsertAll, At, Kind, Stores
        <4>4. CASE Remove(c) \/ Drop(c)
          BY <1>1, <1>3, <3>1, <4>4 DEF Remove, Drop, At, Kind, Removes
        <4> QED BY <4>1, <4>2, <4>3, <4>4 DEF Step
      <3>3. PICK s \in table : m = MappingOf(s)
        BY <1>1, <2>2, <3>1, <3>2 DEF Query, Answer, Return, Hits, TypeOK
      <3>4. s \in Row /\ Covers(target[r], s)
        BY <1>1, <1>5, <3>3, CoversMapping DEF TypeOK
      <3>5. Later(r, s)
        BY <1>1, <1>5, <3>3, <3>4 DEF Cleared
      <3>6. s.by # Seed
        BY <3>5, RegistryAssumption DEF Later, RegistryAssumption
      <3> QED BY <1>1, <3>3, <3>5, <3>6 DEF Later, Owned
    <2> QED BY <2>1, <2>2
  <1>7. PICK d \in Calls \ before[r] : Stores(d) /\ m \in Elements(list[d])
    BY <1>6
  <1>8. pc[d] # "idle"
    BY <1>1, <1>7 DEF Kind, Stores
  <1>9. op'[d] = op[d] /\ list'[d] = list[d]
    BY <1>8, BegunKeeps
  <1> QED BY <1>5, <1>7, <1>9 DEF Stores

-----------------------------------------------------------------------------
(* The theorems about the first invariant *)

LEMMA InitInv == Init => IInv
  <1> SUFFICES ASSUME Init PROVE IInv
    OBVIOUS
  <1> DEFINE On(n) == [name |-> n, id |-> Hash[n]]
  <1>1. \A n \in SeedNames : On(n) \in Mapping
    BY RegistryAssumption DEF RegistryAssumption, Mapping
  <1>2. ASSUME NEW r \in table
        PROVE  r \in Row /\ r.name \in SeedNames /\ r.id = Hash[r.name] /\ r.by = Seed
    <2>1. PICK n \in SeedNames : r = RowOf(On(n), Seed)
      BY DEF Init
    <2> QED BY <1>1, <2>1 DEF RowOf, Row, Mapping
  <1>3. <<>> \in Seq(Mapping)
    OBVIOUS
  <1>4. TypeOK
    BY <1>2, <1>3 DEF Init, TypeOK, Labels, Results
  <1>5. OneToOne
    <2>1. ASSUME NEW r \in table, NEW s \in table, s.id = r.id
          PROVE  s = r
      <3>1. s.name = r.name /\ s.by = r.by
        BY <1>2, <2>1, RegistryAssumption DEF RegistryAssumption
      <3> QED BY <1>2, <2>1, <3>1 DEF Row
    <2> QED BY <1>2, <2>1 DEF OneToOne, Valid
  <1>6. \A c \in Calls : Checked(c) /\ Single(c) /\ Kind(c) /\ Ordered(c)
    BY DEF Init, Checked, Single, Kind, Ordered
  <1>7. Owned
    BY <1>2 DEF Owned
  <1>8. (\A c \in Calls : Selected(c) /\ Cleared(c)) /\ RemovedIsGone
    BY DEF Init, Selected, Cleared, Removes, RemovedIsGone
  <1> QED BY <1>4, <1>5, <1>6, <1>7, <1>8 DEF IInv

\* The inductive invariant: what is stored was validated and belongs to the call
\* that stored it, and a row that a removal missed was stored since it began.
THEOREM Invariance == Spec => []IInv
  <1>1. Init => IInv
    BY InitInv
  <1>2. ASSUME IInv, NEW c \in Calls, StartCall(c) \/ Step(c) \/ Abandon(c)
        PROVE  IInv'
    <2>1. TypeOK'
      BY <1>2, TypeStep
    <2>2. OneToOne'
      <3>1. CASE Step(c)
        BY <1>2, <2>1, <3>1, OneToOneStep DEF TypeOK
      <3>2. CASE StartCall(c) \/ Abandon(c)
        <4>1. UNCHANGED table
          BY <3>2 DEF StartCall, StoreStart, RemoveStart, QueryStart, Start, Abandon
        <4> QED BY <1>2, <4>1 DEF IInv, OneToOne, Valid
      <3> QED BY <1>2, <3>1, <3>2
    <2>3. \A d \in Calls : Checked(d)' /\ Single(d)' /\ Kind(d)' /\ Ordered(d)'
      BY <1>2, CallsStep
    <2>4. Owned'
      BY <1>2, OwnedStep
    <2>5. \A d \in Calls : Selected(d)' /\ Cleared(d)'
      BY <1>2, SelectedStep, ClearedStep
    <2>6. RemovedIsGone'
      BY <1>2, GoneStep
    <2> QED BY <2>1, <2>2, <2>3, <2>4, <2>5, <2>6 DEF IInv
  <1>3. ASSUME IInv, UNCHANGED vars
        PROVE  IInv'
    BY <1>3 DEF IInv, vars, TypeOK, OneToOne, Checked, Single, Kind, Ordered, Owned, Later,
       Selected, Cleared, RemovedIsGone, Stores, Removes, Valid
  <1>4. IInv /\ [Next]_vars => IInv'
    BY <1>2, <1>3 DEF Next
  <1> QED BY <1>1, <1>4, PTL DEF Spec

\* Every call, row and answer keeps its type, on every backend.
THEOREM TypeCorrect == Spec => []TypeOK
  BY Invariance, PTL DEF IInv

\* In the registry an id leads to one name, which has that id, for any hash.
THEOREM RegistryIsOneToOne == Spec => []OneToOne
  BY Invariance, PTL DEF IInv

\* What a removal returned Ok for is not found by a query that starts later,
\* unless a call stores it since the removal began; however many statements the
\* backend takes.
THEOREM RemovalIsFinal == Spec => []RemovedIsGone
  BY Invariance, PTL DEF IInv

-----------------------------------------------------------------------------
(* The second invariant: how often, and where, a mapping is counted *)

\* Where a call stands and what it holds.
Shape(c) ==
    /\ pc[c] = "idle" => list[c] = <<>> /\ count[c] = 0
    /\ Len(list[c]) <= MaxLen
    /\ count[c] <= Len(list[c])
    /\ count[c] # 0 => backend = "surreal" /\ pc[c] \in {"store_all", "done"}
    /\ pc[c] = "put" => backend = "memory"
    /\ pc[c] \in {"fetch", "insert_all"} => backend = "seaorm"
    /\ pc[c] = "drop" => SelectsFirst(c) /\ \A r \in sel[c] : Covers(target[c], r)

Begun == {c \in Calls : pc[c] # "idle"}

Registered(m) == \E r \in table : MappingOf(r) = m

\* The mappings of lists that are m, and those whose turn has come.
Entries(m) ==
    {p \in Calls \X (1..MaxLen) : p[2] \in DOMAIN list[p[1]] /\ list[p[1]][p[2]] = m}

Spent(m) == {p \in Entries(m) : pc[p[1]] \in {"fetch", "done"} \/ p[2] <= count[p[1]]}

\* A removal that tells m, and the row of m, are paid for by an entry.
PaidFor(m) ==
    Cardinality({c \in Removers(m) : Atomic(c)}) + Once(Registered(m))
        <= Once(IsSeed(m)) + Cardinality(Spent(m))

\* No removal of m and no store of another name with its id ran since s began.
Undisturbed(s, m) ==
    \A d \in Calls \ before[s] :
        /\ Removes(d) => ~Covers(target[d], m)
        /\ Stores(d) => \A n \in Elements(list[d]) : n.id = m.id => n = m

\* SeaORM between the two statements of a bulk store: what has come since.
Seen(c) ==
    pc[c] = "insert_all" =>
        \A r \in table :
            (\E n \in Elements(list[c]) : n.id = r.id)
                => (\E s \in sel[c] : s.id = r.id) \/ Later(c, r)

\* SurrealDB between two statements of a bulk store.
HalfStored(c) ==
    pc[c] = "store_all" =>
        \A k \in 1..count[c] : Undisturbed(c, list[c][k]) => Registered(list[c][k])

Kept(c) == Stores(c) => \A m \in told[c] : Undisturbed(c, m) => Registered(m)

CInv ==
    /\ IInv
    /\ IsFiniteSet(Begun)
    /\ \A c \in Calls : Shape(c) /\ Seen(c) /\ HalfStored(c) /\ Kept(c)
    /\ LockedIsBalanced
    /\ \A m \in Mapping : PaidFor(m)
    /\ StoredIsFound

-----------------------------------------------------------------------------
(* Lists and finite sets *)

\* A set of numbers has a least one.
LEMMA LeastOf ==
    ASSUME NEW S \in SUBSET Nat, S # {}
    PROVE  \E n \in S : \A m \in S : n <= m
  <1>1. PICK R : R = OpToRel(<, Nat) /\ IsWellFoundedOn(R, Nat)
    BY NatLessThanWellFounded
  <1>2. PICK n \in S : \A m \in S : <<m, n>> \notin R
    BY <1>1, WFMin
  <1>3. \A m, k \in Nat : m < k => <<m, k>> \in R
    BY <1>1 DEF OpToRel
  <1>4. ASSUME NEW m \in S
        PROVE  n <= m
    <2>1. m \in Nat /\ n \in Nat
      OBVIOUS
    <2>2. ~(m < n)
      BY <1>2, <1>3, <2>1
    <2> QED BY <2>1, <2>2
  <1> QED BY <1>4

\* Of the mappings of a list with a free id the first is new.
LEMMA FirstIsNew ==
    ASSUME NEW l \in Seq(Mapping), NEW skip, NEW m \in Elements(l),
           m.id \notin skip, ~Taken(m.id)
    PROVE  \E n \in News(l, skip) : n.id = m.id
  <1> DEFINE S == {j \in 1..Len(l) : l[j].id = m.id}
  <1>1. S \in SUBSET Nat /\ S # {}
    BY DEF Elements
  <1>2. PICK j \in S : \A h \in S : j <= h
    BY <1>1, LeastOf
  <1>3. \A h \in 1..(j - 1) : h \in 1..Len(l) /\ ~(j <= h)
    BY <1>2
  <1>4. \A h \in 1..(j - 1) : l[h].id # l[j].id
    BY <1>2, <1>3
  <1>5. l[j] \in News(l, skip) /\ l[j].id = m.id
    BY <1>2, <1>4 DEF News
  <1> QED BY <1>5

\* What an insert registers.
LEMMA NewsInTable ==
    ASSUME NEW c \in Calls, NEW ms \in SUBSET Mapping, Insert(c, ms)
    PROVE  \A m \in Mapping : Registered(m)' <=> Registered(m) \/ m \in ms
  <1> SUFFICES ASSUME NEW m \in Mapping
               PROVE  (\E r \in table' : MappingOf(r) = m) <=> Registered(m) \/ m \in ms
    BY DEF Registered, MappingOf
  <1>1. table' = table \cup {RowOf(n, c) : n \in ms}
    BY DEF Insert
  <1>2. \A n \in ms : MappingOf(RowOf(n, c)) = n
    BY RowFacts
  <1> QED BY <1>1, <1>2 DEF Registered

\* What is counted is finite, though there may be any number of calls: only
\* finitely many have begun.
LEMMA Finite ==
    ASSUME CInv, NEW m
    PROVE  /\ IsFiniteSet(Storers(m)) /\ IsFiniteSet(Removers(m))
           /\ IsFiniteSet(Entries(m)) /\ IsFiniteSet(Spent(m))
  <1>1. \A c \in Calls : Kind(c) /\ Shape(c)
    BY DEF CInv, IInv
  <1>2. IsFiniteSet(Begun) /\ IsFiniteSet(1..MaxLen)
    BY FS_Interval, RegistryAssumption DEF CInv, RegistryAssumption
  <1>3. Storers(m) \in SUBSET Begun /\ Removers(m) \in SUBSET Begun
    BY <1>1 DEF Storers, Removers, Answered, Begun, Kind
  <1>4. IsFiniteSet(Begun \X (1..MaxLen))
    BY <1>2, FS_Product
  <1>5. Entries(m) \in SUBSET (Begun \X (1..MaxLen)) /\ Spent(m) \in SUBSET Entries(m)
    <2>1. \A c \in Calls, k \in 1..MaxLen : k \in DOMAIN list[c] => c \in Begun
      BY <1>1 DEF Begun, Shape
    <2> QED BY <2>1 DEF Entries, Spent
  <1> QED BY <1>2, <1>3, <1>4, <1>5, FS_Subset

-----------------------------------------------------------------------------
(* One step of a call *)

\* Only a bulk store of SurrealDB counts, and it stores what it counts.
LEMMA CountStep ==
    ASSUME IInv, NEW c \in Calls, StartCall(c) \/ Step(c) \/ Abandon(c)
    PROVE  /\ \A d \in Calls \ {c} : count'[d] = count[d]
           /\ \/ count'[c] = count[c]
              \/ /\ pc[c] = "store_all" /\ pc'[c] = "store_all" /\ backend = "surreal"
                 /\ count[c] < Len(list[c]) /\ count'[c] = count[c] + 1
                 /\ Upsert(c, list[c][count[c] + 1])
  <1>1. CASE StoreAll(c)
    <2>1. CASE UNCHANGED count
      BY <2>1
    <2>2. CASE /\ pc[c] = "store_all" /\ backend = "surreal" /\ count[c] < Len(list[c])
               /\ Upsert(c, list[c][count[c] + 1])
               /\ count' = [count EXCEPT ![c] = @ + 1]
               /\ Goto(c, "store_all")
      BY <2>2 DEF IInv, TypeOK, Goto
    <2> QED BY <1>1, <2>1, <2>2 DEF StoreAll, At
  <1>2. CASE ~StoreAll(c)
    <2>1. UNCHANGED count
      BY <1>2 DEF StartCall, StoreStart, RemoveStart, QueryStart, Start, Abandon, Step, Store,
         PutOne, Fetch, InsertAll, Remove, Drop, Query
    <2> QED BY <2>1
  <1> QED BY <1>1, <1>2

\* Where a step leads.
LEMMA PlaceStep ==
    ASSUME IInv, NEW c \in Calls, StartCall(c) \/ Step(c) \/ Abandon(c)
    PROVE  \/ pc'[c] = "done"
           \/ pc[c] = "idle" /\ pc'[c] \in {"store", "store_all", "remove", "query"}
           \/ Store(c) /\ backend = "memory" /\ pc'[c] = "put" /\ UNCHANGED table
           \/ Store(c) /\ backend = "seaorm" /\ pc'[c] = "fetch"
           \/ StoreAll(c) /\ backend = "surreal" /\ pc'[c] = "store_all"
           \/ /\ StoreAll(c) /\ backend = "seaorm" /\ pc'[c] = "insert_all" /\ UNCHANGED table
              /\ sel'[c] = {r \in table : \E m \in Elements(list[c]) : m.id = r.id}
           \/ /\ Remove(c) /\ SelectsFirst(c) /\ pc'[c] = "drop" /\ UNCHANGED table
              /\ sel'[c] = Hits(c)
  <1> USE DEF IInv, TypeOK
  <1>1. CASE StartCall(c)
    BY <1>1 DEF StartCall, StoreStart, RemoveStart, QueryStart, Start, Goto, Return
  <1>2. CASE Abandon(c) \/ PutOne(c) \/ Fetch(c) \/ InsertAll(c) \/ Drop(c) \/ Query(c)
    BY <1>2 DEF Abandon, PutOne, Put, Fetch, InsertAll, Drop, Query, Answer, Return
  <1>3. CASE Store(c)
    BY <1>3 DEF Store, Return, Goto
  <1>4. CASE StoreAll(c)
    BY <1>4 DEF StoreAll, Put, Return, Goto
  <1>5. CASE Remove(c)
    BY <1>5 DEF Remove, Answer, Return, Goto
  <1> QED BY <1>1, <1>2, <1>3, <1>4, <1>5 DEF Step

\* A call that starts is given a list of Lists or none, and touches no table.
LEMMA StartStep ==
    ASSUME IInv, NEW c \in Calls, StartCall(c)
    PROVE  /\ list'[c] = list[c] \/ list'[c] \in Lists
           /\ UNCHANGED <<table, sel, count, backend, isolated>>
           /\ pc[c] = "idle" /\ told'[c] = {} /\ res'[c] # "ok"
  BY DEF StartCall, StoreStart, RemoveStart, QueryStart, Start, Goto, Return, IInv, TypeOK, Kind

\* One call at a time begins.
LEMMA BegunStep ==
    ASSUME CInv, NEW c \in Calls, StartCall(c) \/ Step(c) \/ Abandon(c)
    PROVE  IsFiniteSet(Begun')
  <1>1. Begun' \in SUBSET (Begun \cup {c})
    BY Frame DEF Begun, CInv, IInv
  <1> QED BY <1>1, FS_AddElement, FS_Subset DEF CInv

\* Every call keeps its shape.
LEMMA ShapeStep ==
    ASSUME CInv, NEW c \in Calls, StartCall(c) \/ Step(c) \/ Abandon(c),
           NEW d \in Calls
    PROVE  Shape(d)'
  <1>1. IInv /\ TypeOK /\ Shape(c) /\ Shape(d) /\ Kind(c)
    BY DEF CInv, IInv
  <1>2. backend' = backend /\ isolated' = isolated
    BY <1>1, Frame
  <1>3. CASE d # c
    BY <1>1, <1>2, <1>3, Frame, CountStep DEF Shape, SelectsFirst, Covers
  <1>4. CASE StartCall(c) /\ d = c
    <2>1. /\ list'[c] = <<>> \/ list'[c] \in Lists
          /\ count'[c] = 0 /\ pc[c] = "idle"
      BY <1>1, <1>4, StartStep DEF Shape
    <2>2. Len(list'[c]) \in Nat /\ Len(list'[c]) <= MaxLen
      BY <2>1, RegistryAssumption DEF RegistryAssumption
    <2>3. pc'[c] \in {"done", "store", "store_all", "remove", "query"}
      BY <1>1, <1>4, <2>1, PlaceStep
         DEF Store, StoreAll, Remove, At
    <2> QED BY <1>4, <2>1, <2>2, <2>3 DEF Shape
  <1>5. CASE ~StartCall(c) /\ d = c
    <2>1. pc[c] # "idle"
      BY <1>5 DEF Step, Store, PutOne, Fetch, StoreAll, InsertAll, Remove, Drop, Query, At, Abandon
    <2>2. op'[c] = op[c] /\ list'[c] = list[c] /\ target'[c] = target[c]
      BY <1>1, <2>1, BegunKeeps
    <2>3. count'[c] <= Len(list[c])
      BY <1>1, CountStep DEF Shape, TypeOK
    <2>4. count'[c] # 0 => backend = "surreal" /\ pc'[c] \in {"store_all", "done"}
      <3>1. CASE count'[c] # count[c]
        BY <1>1, <3>1, CountStep
      <3>2. CASE count'[c] = count[c] /\ count[c] # 0
        <4>1. backend = "surreal" /\ pc[c] \in {"store_all", "done"}
          BY <1>1, <3>2 DEF Shape
        <4> QED BY <1>1, <2>1, <4>1, PlaceStep DEF Store, Remove, At
      <3> QED BY <3>1, <3>2
    <2>5. pc'[c] # "idle"
      BY <1>1, <2>1, PlaceStep
    <2>6. /\ pc'[c] = "put" => backend = "memory"
          /\ pc'[c] \in {"fetch", "insert_all"} => backend = "seaorm"
      BY <1>1, <2>1, PlaceStep
    <2>7. pc'[c] = "drop" => SelectsFirst(c) /\ \A r \in sel'[c] : Covers(target[c], r)
      BY <1>1, <2>1, PlaceStep DEF Hits
    <2> QED
      BY <1>1, <1>2, <1>5, <2>2, <2>3, <2>4, <2>5, <2>6, <2>7 DEF Shape, SelectsFirst, Covers
  <1> QED BY <1>3, <1>4, <1>5

-----------------------------------------------------------------------------
(* Counting what was told *)

\* Only the call that steps can be told something new.
LEMMA ToldStep ==
    ASSUME IInv, NEW c \in Calls, StartCall(c) \/ Step(c) \/ Abandon(c), NEW m
    PROVE  /\ c \notin Storers(m) /\ c \notin Removers(m)
           /\ \/ Storers(m)' = Storers(m)
              \/ /\ Storers(m)' = Storers(m) \cup {c}
                 /\ Stores(c)' /\ res'[c] = "ok" /\ m \in told'[c]
           /\ \/ Removers(m)' = Removers(m)
              \/ /\ Removers(m)' = Removers(m) \cup {c}
                 /\ Removes(c)' /\ res'[c] = "ok" /\ m \in told'[c]
           /\ Stores(c)' /\ res'[c] = "ok" /\ m \in told'[c] => c \in Storers(m)'
           /\ Removes(c)' /\ res'[c] = "ok" /\ m \in told'[c] => c \in Removers(m)'
  <1>1. pc[c] # "done" /\ Kind(c)
    BY Frame DEF IInv
  <1>2. c \notin Storers(m) /\ c \notin Removers(m)
    BY <1>1 DEF Kind, Storers, Removers, Answered
  <1>3. \A d \in Calls \ {c} : op'[d] = op[d] /\ told'[d] = told[d] /\ res'[d] = res[d]
    BY Frame DEF IInv
  <1> QED BY <1>2, <1>3 DEF Storers, Removers, Answered, Stores, Removes

\* Returning a result: the answer is told, or nothing is.
LEMMA ReturnStep ==
    ASSUME IInv, NEW c \in Calls, pc[c] # "done", NEW result, NEW answer,
           Return(c, result, answer)
    PROVE  /\ pc'[c] = "done"
           /\ \/ told'[c] = answer /\ res'[c] = result
              \/ told'[c] = {} /\ res'[c] = "err" /\ backend # "memory"
  <1>1. told[c] = {}
    BY DEF IInv, Kind
  <1> QED BY <1>1 DEF Return, IInv, TypeOK

LEMMA GotoStep ==
    ASSUME IInv, NEW c \in Calls, pc[c] # "done", NEW label, Goto(c, label)
    PROVE  pc'[c] = label /\ told'[c] = {} /\ res'[c] # "ok"
  BY DEF IInv, TypeOK, Kind, Goto

\* A removal takes the rows of what it is told, and a mapping has one row.
LEMMA DeleteStep ==
    ASSUME IInv, NEW c \in Calls, NEW rows \in SUBSET table, Delete(rows)
    PROVE  \A m \in Mapping :
               Registered(m)' <=> Registered(m) /\ m \notin {MappingOf(r) : r \in rows}
  <1> SUFFICES ASSUME NEW m \in Mapping
               PROVE  (\E r \in table' : MappingOf(r) = m)
                          <=> Registered(m) /\ m \notin {MappingOf(r) : r \in rows}
    BY DEF Registered, MappingOf
  <1>1. \A r, s \in table : MappingOf(r) = MappingOf(s) => r = s
    <2>1. \A r \in table : r \in Row /\ MappingOf(r).id = r.id
      BY RowFacts DEF IInv, TypeOK
    <2> QED BY <2>1 DEF IInv, OneToOne
  <1>2. table' = table \ rows
    BY DEF Delete
  <1> QED BY <1>1, <1>2 DEF Registered

\* In memory every step keeps the balance.
LEMMA BalancedStep ==
    ASSUME CInv, NEW c \in Calls, StartCall(c) \/ Step(c) \/ Abandon(c)
    PROVE  LockedIsBalanced'
  <1> SUFFICES ASSUME backend = "memory", NEW m \in Mapping
               PROVE  Once(IsSeed(m)) + Cardinality(Storers(m)')
                          = Once(Registered(m)') + Cardinality(Removers(m)')
    <2>1. backend' = backend
      BY Frame DEF CInv, IInv
    <2> QED BY <2>1 DEF LockedIsBalanced, Registered, IsSeed, Valid, Once
  <1> DEFINE l == list[c]
  <1>1. IInv /\ Shape(c) /\ Kind(c) /\ pc[c] # "done" /\ l \in Seq(Mapping)
    BY Frame DEF CInv, IInv, TypeOK
  <1>2. /\ Cardinality(Storers(m)) \in Nat /\ Cardinality(Removers(m)) \in Nat
        /\ Cardinality(Storers(m) \cup {c}) = Cardinality(Storers(m)) + 1
        /\ Cardinality(Removers(m) \cup {c}) = Cardinality(Removers(m)) + 1
    BY <1>1, Finite, ToldStep, FS_AddElement, FS_CardinalityType
  <1>3. Once(IsSeed(m)) + Cardinality(Storers(m)) = Once(Registered(m)) + Cardinality(Removers(m))
    BY DEF CInv, LockedIsBalanced, Registered
  <1>4. Once(IsSeed(m)) \in Nat
    BY DEF Once
  <1>5. ASSUME UNCHANGED table, res'[c] # "ok" \/ told'[c] = {} \/ ~(Stores(c)' \/ Removes(c)')
        PROVE  Once(IsSeed(m)) + Cardinality(Storers(m)')
                   = Once(Registered(m)') + Cardinality(Removers(m)')
    <2>1. Storers(m)' = Storers(m) /\ Removers(m)' = Removers(m)
      BY <1>1, <1>5, ToldStep
    <2>2. Registered(m)' = Registered(m)
      BY <1>5 DEF Registered, MappingOf
    <2> QED BY <1>3, <2>1, <2>2
  <1>6. ASSUME Put(c), Stores(c)'
        PROVE  Once(IsSeed(m)) + Cardinality(Storers(m)')
                   = Once(Registered(m)') + Cardinality(Removers(m)')
    <2> DEFINE N == News(l, {})
    <2>1. N \in SUBSET Mapping /\ \A n \in N : ~Taken(n.id)
      BY <1>1, NewsFacts, ElementsType
    <2>2. res'[c] = "ok" /\ told'[c] = N
      BY <1>1, <1>6, ReturnStep DEF Put
    <2>3. Insert(c, N)
      BY <1>6 DEF Put
    <2>4. m \in N => ~Registered(m)
      <3>1. \A r \in table : MappingOf(r).id = r.id
        BY <1>1, RowFacts DEF IInv, TypeOK
      <3> QED BY <2>1, <3>1 DEF Registered, Taken
    <2>5. Registered(m)' <=> Registered(m) \/ m \in N
      BY <2>1, <2>3, NewsInTable
    <2>6. Removers(m)' = Removers(m)
      BY <1>1, <1>6, ToldStep DEF Stores, Removes
    <2>7. IF m \in N THEN Storers(m)' = Storers(m) \cup {c} ELSE Storers(m)' = Storers(m)
      BY <1>1, <1>6, <2>2, ToldStep
    <2> HIDE DEF N
    <2>8. CASE m \in N
      <3>1. Cardinality(Storers(m)') = Cardinality(Storers(m)) + 1
        BY <1>2, <2>7, <2>8
      <3>2. Once(Registered(m)) = 0 /\ Once(Registered(m)') = 1
        BY <2>4, <2>5, <2>8 DEF Once
      <3> QED BY <1>2, <1>3, <1>4, <2>6, <3>1, <3>2
    <2>9. CASE m \notin N
      BY <1>3, <2>5, <2>6, <2>7, <2>9 DEF Once
    <2> QED BY <2>8, <2>9
  <1>7. CASE StartCall(c)
    BY <1>1, <1>5, <1>7, StartStep
  <1>8. CASE Abandon(c)
    BY <1>1, <1>5, <1>8, ReturnStep DEF Abandon
  <1>9. CASE Store(c)
    BY <1>1, <1>5, <1>9, ReturnStep, GotoStep DEF Store
  <1>10. CASE PutOne(c)
    BY <1>1, <1>6, <1>10 DEF PutOne, At, args, Kind, Stores
  <1>11. CASE StoreAll(c)
    BY <1>1, <1>6, <1>11 DEF StoreAll, At, args, Kind, Stores
  <1>12. CASE Query(c)
    BY <1>1, <1>5, <1>12 DEF Query, At, args, Kind, Stores, Removes
  <1>13. CASE Remove(c)
    <2>1. ~SelectsFirst(c)
      BY DEF SelectsFirst
    <2>2. Delete(Hits(c)) /\ Answer(c, Hits(c)) /\ Removes(c)'
      BY <1>1, <1>13, <2>1 DEF Remove, At, args, Kind, Removes
    <2> DEFINE M == {MappingOf(r) : r \in Hits(c)}
    <2>3. res'[c] = "ok" /\ told'[c] = M
      BY <1>1, <2>2, ReturnStep DEF Answer
    <2>4. Registered(m)' <=> Registered(m) /\ m \notin M
      BY <1>1, <2>2, DeleteStep DEF Hits
    <2>5. m \in M => Registered(m)
      BY DEF Hits, Registered
    <2>6. Storers(m)' = Storers(m)
      BY <1>1, <2>2, ToldStep DEF Stores, Removes
    <2>7. IF m \in M THEN Removers(m)' = Removers(m) \cup {c} ELSE Removers(m)' = Removers(m)
      BY <1>1, <2>2, <2>3, ToldStep
    <2> HIDE DEF M
    <2>8. CASE m \in M
      <3>1. Cardinality(Removers(m)') = Cardinality(Removers(m)) + 1
        BY <1>2, <2>7, <2>8
      <3>2. Once(Registered(m)) = 1 /\ Once(Registered(m)') = 0
        BY <2>4, <2>5, <2>8 DEF Once
      <3> QED BY <1>2, <1>3, <1>4, <2>6, <3>1, <3>2
    <2>9. CASE m \notin M
      BY <1>3, <2>4, <2>6, <2>7, <2>9 DEF Once
    <2> QED BY <2>8, <2>9
  <1>14. CASE Fetch(c) \/ InsertAll(c) \/ Drop(c)
    BY <1>1, <1>14 DEF Fetch, InsertAll, Drop, At, Shape, SelectsFirst
  <1> QED
    BY <1>7, <1>8, <1>9, <1>10, <1>11, <1>12, <1>13, <1>14 DEF Step

-----------------------------------------------------------------------------
(* What the rows and the removals are paid with *)

\* An entry that is spent stays so.
LEMMA SpentGrows ==
    ASSUME CInv, NEW c \in Calls, StartCall(c) \/ Step(c) \/ Abandon(c), NEW m
    PROVE  Spent(m) \subseteq Spent(m)'
  <1> SUFFICES ASSUME NEW p \in Spent(m)
               PROVE  p \in Spent(m)'
    OBVIOUS
  <1>1. IInv /\ TypeOK /\ \A d \in Calls : Shape(d)
    BY DEF CInv, IInv
  <1>2. /\ p[1] \in Calls /\ p[2] \in 1..MaxLen /\ p \in Calls \X (1..MaxLen)
        /\ p[2] \in DOMAIN list[p[1]] /\ list[p[1]][p[2]] = m
        /\ pc[p[1]] \in {"fetch", "done"} \/ p[2] <= count[p[1]]
    BY DEF Spent, Entries
  <1>3. pc[p[1]] # "idle"
    BY <1>1, <1>2 DEF Shape
  <1>4. list'[p[1]] = list[p[1]]
    BY <1>1, <1>2, <1>3, BegunKeeps
  <1>5. count[p[1]] \in Nat /\ count'[p[1]] \in Nat /\ count[p[1]] <= count'[p[1]]
    <2>1. \A d \in Calls : count[d] \in Nat
      BY <1>1 DEF TypeOK
    <2>2. \A d \in Calls : count'[d] = count[d] \/ count'[d] = count[d] + 1
      BY <1>1, CountStep
    <2> QED BY <1>2, <2>1, <2>2
  <1>6. pc[p[1]] \in {"fetch", "done"} => pc'[p[1]] \in {"fetch", "done"}
    <2>1. CASE p[1] # c
      BY <1>1, <1>2, <2>1, Frame
    <2>2. CASE p[1] = c
      BY <1>1, <2>2, Frame, PlaceStep DEF Store, StoreAll, Remove, At
    <2> QED BY <2>1, <2>2
  <1>7. p[2] <= count[p[1]] => p[2] <= count'[p[1]]
    BY <1>2, <1>5
  <1> QED BY <1>2, <1>4, <1>6, <1>7 DEF Spent, Entries

\* A mapping that a step registers is one of an entry that the step spends.
LEMMA SpentFresh ==
    ASSUME CInv, NEW c \in Calls, StartCall(c) \/ Step(c) \/ Abandon(c), NEW m \in Mapping,
           Registered(m)', ~Registered(m)
    PROVE  \E p \in Spent(m)' : p \notin Spent(m)
  <1> DEFINE l == list[c]
  <1>1. IInv /\ TypeOK /\ Shape(c) /\ l \in Seq(Mapping)
    BY DEF CInv, IInv, TypeOK
  <1>2. PICK r \in table' : MappingOf(r) = m
    BY DEF Registered, MappingOf
  <1>3. r \notin table
    BY <1>2 DEF Registered
  <1>4. m \in Elements(l) /\ pc[c] \in Storing
    BY <1>1, <1>2, <1>3, RowSteps
  <1>5. list' = list
    BY <1>1, <1>4, Frame DEF Storing, args
  <1>6. ASSUME NEW k \in DOMAIN l, l[k] = m, ~(k <= count[c]),
               pc'[c] \in {"fetch", "done"} \/ k <= count'[c]
        PROVE  \E p \in Spent(m)' : p \notin Spent(m)
    <2>1. k \in 1..MaxLen
      BY <1>1, <1>6, RegistryAssumption DEF Shape, RegistryAssumption
    <2>2. <<c, k>> \notin Spent(m)
      BY <1>4, <1>6 DEF Spent, Storing
    <2>3. <<c, k>> \in Entries(m)'
      BY <1>5, <1>6, <2>1 DEF Entries
    <2>4. <<c, k>> \in Spent(m)'
      BY <1>6, <2>3 DEF Spent
    <2> QED BY <2>2, <2>4
  <1>7. CASE count'[c] = count[c]
    <2>1. pc'[c] \in {"fetch", "done"} /\ count[c] = 0
      <3>1. CASE Store(c) \/ PutOne(c) \/ InsertAll(c)
        <4>1. pc[c] \in {"store", "put", "insert_all"}
          BY <3>1 DEF Store, PutOne, InsertAll, At
        <4> QED
          BY <1>1, <1>2, <1>3, <4>1, PlaceStep DEF Store, StoreAll, Remove, At, Shape
      <3>2. CASE StoreAll(c)
        <4>1. backend # "surreal"
          <5>1. CASE UNCHANGED table
            BY <1>2, <1>3, <5>1
          <5>2. CASE ~UNCHANGED table
            BY <1>1, <1>7, <3>2, <5>2 DEF StoreAll, TypeOK
          <5> QED BY <5>1, <5>2
        <4>2. pc[c] = "store_all"
          BY <3>2 DEF StoreAll, At
        <4> QED
          BY <1>1, <1>2, <1>3, <4>1, <4>2, PlaceStep DEF Store, StoreAll, Remove, At, Shape
      <3>3. CASE Fetch(c) \/ Remove(c) \/ Drop(c) \/ Query(c) \/ Abandon(c) \/ StartCall(c)
        BY <1>1, <1>4, <3>3, StartStep
           DEF Fetch, Remove, Drop, Query, Abandon, At, Storing, Registered
      <3> QED BY <3>1, <3>2, <3>3 DEF Step
    <2>2. PICK k \in DOMAIN l : l[k] = m
      BY <1>4 DEF Elements
    <2> QED BY <1>1, <1>6, <2>1, <2>2
  <1>8. CASE count'[c] # count[c]
    <2>1. /\ count[c] < Len(l) /\ count'[c] = count[c] + 1
          /\ Upsert(c, l[count[c] + 1])
      BY <1>1, <1>8, CountStep
    <2>2. count[c] + 1 \in 1..Len(l) /\ l[count[c] + 1] \in Mapping
      BY <1>1, <2>1 DEF TypeOK
    <2>3. m = l[count[c] + 1]
      <3>1. r = RowOf(l[count[c] + 1], c)
        BY <1>3, <2>1 DEF Upsert
      <3> QED BY <1>2, <2>2, <3>1, RowFacts
    <2>4. ~(count[c] + 1 <= count[c]) /\ count[c] + 1 <= count'[c]
      BY <1>1, <2>1 DEF TypeOK
    <2>5. count[c] + 1 \in DOMAIN l
      BY <1>1, <2>2
    <2> HIDE DEF l
    <2> QED BY <1>6, <2>3, <2>4, <2>5
  <1> QED BY <1>7, <1>8

\* What is spent stays finite.
LEMMA SpentFinite ==
    ASSUME CInv, NEW c \in Calls, StartCall(c) \/ Step(c) \/ Abandon(c), NEW m
    PROVE  IsFiniteSet(Spent(m)')
  <1>1. \A d \in Calls : Shape(d)'
    BY ShapeStep
  <1>2. IsFiniteSet(Begun' \X (1..MaxLen))
    <2>1. IsFiniteSet(1..MaxLen)
      BY FS_Interval, RegistryAssumption DEF RegistryAssumption
    <2> QED BY <2>1, BegunStep, FS_Product
  <1>3. \A d \in Calls, k \in 1..MaxLen : k \in DOMAIN list'[d] => d \in Begun'
    BY <1>1 DEF Begun, Shape
  <1>4. Spent(m)' \in SUBSET (Begun' \X (1..MaxLen))
    BY <1>3 DEF Entries, Spent
  <1> QED BY <1>2, <1>4, FS_Subset

\* What a step registers is paid for by an entry it spends, and what an atomic
\* removal tells by the row it takes.
LEMMA PaidForStep ==
    ASSUME CInv, NEW c \in Calls, StartCall(c) \/ Step(c) \/ Abandon(c),
           NEW m \in Mapping
    PROVE  PaidFor(m)'
  <1> DEFINE R == {d \in Removers(m) : Atomic(d)}
  <1> DEFINE S == Spent(m)
  <1>1. IInv /\ TypeOK /\ Shape(c) /\ Kind(c) /\ pc[c] # "done" /\ \A d \in Calls : Kind(d)
    BY Frame DEF CInv, IInv, TypeOK
  <1>2. /\ IsFiniteSet(R) /\ Cardinality(R) \in Nat
        /\ Cardinality(R \cup {c}) = Cardinality(R) + 1
    BY <1>1, Finite, ToldStep, FS_Subset, FS_AddElement, FS_CardinalityType
  <1>3. IsFiniteSet(S) /\ IsFiniteSet(S') /\ Cardinality(S) \in Nat /\ Cardinality(S') \in Nat
        /\ Cardinality(S) <= Cardinality(S')
    BY Finite, SpentFinite, SpentGrows, FS_Subset, FS_CardinalityType
  <1>4. Registered(m)' /\ ~Registered(m) => Cardinality(S) + 1 <= Cardinality(S')
    <2> SUFFICES ASSUME Registered(m)', ~Registered(m)
                 PROVE  Cardinality(S) + 1 <= Cardinality(S')
      OBVIOUS
    <2>1. PICK p \in S' : p \notin S
      BY SpentFresh
    <2>2. S \cup {p} \in SUBSET S' /\ Cardinality(S \cup {p}) = Cardinality(S) + 1
      BY <1>3, <2>1, SpentGrows, FS_AddElement
    <2> HIDE DEF S
    <2>3. Cardinality(S \cup {p}) <= Cardinality(S')
      BY <1>3, <2>2, FS_Subset
    <2> QED BY <2>2, <2>3
  <1>5. Cardinality(R) + Once(Registered(m)) <= Once(IsSeed(m)) + Cardinality(S)
    BY DEF CInv, PaidFor
  <1>6. Once(IsSeed(m)) \in Nat
    BY DEF Once
  <1>7. \A d \in Removers(m) : Atomic(d)' <=> Atomic(d)
    <2>1. \A d \in Removers(m) : op'[d] = op[d]
      BY <1>1, ToldStep, Frame DEF Removers
    <2> QED BY <1>1, <2>1, Frame DEF Atomic
  <1>8. CASE R' = R
    <2>1. Once(Registered(m)') <= Once(Registered(m)) + Cardinality(S') - Cardinality(S)
      BY <1>3, <1>4 DEF Once
    <2>2. Once(Registered(m)) \in Nat /\ Once(Registered(m)') \in Nat
      BY DEF Once
    <2> HIDE DEF R, S
    <2>3. Cardinality(R') + Once(Registered(m)') <= Once(IsSeed(m)) + Cardinality(S')
      BY <1>2, <1>3, <1>5, <1>6, <1>8, <2>1, <2>2
    <2> QED BY <2>3 DEF PaidFor, R, S, IsSeed, Valid, Once
  <1>9. CASE R' # R
    <2>1. Removers(m)' = Removers(m) \cup {c} /\ Removes(c)' /\ m \in told'[c] /\ res'[c] = "ok"
      BY <1>1, <1>7, <1>9, ToldStep
    <2>2. R' = R \cup {c} /\ Atomic(c)'
      BY <1>7, <1>9, <2>1
    <2>3. ~StartCall(c) /\ pc[c] # "idle"
      <3>1. ~StartCall(c)
        BY <1>1, <2>1, StartStep
      <3> QED BY <3>1 DEF Step, Store, PutOne, Fetch, StoreAll, InsertAll, Remove, Drop, Query,
              At, Abandon
    <2>4. op'[c] = op[c] /\ Removes(c) /\ Atomic(c) /\ ~SelectsFirst(c)
      BY <1>1, <2>1, <2>2, <2>3, Frame, BegunKeeps, RegistryAssumption
         DEF Removes, Atomic, SelectsFirst, TypeOK, RegistryAssumption
    <2>5. Remove(c)
      <3>1. CASE Abandon(c)
        BY <1>1, <2>1, <3>1, ReturnStep DEF Abandon
      <3>2. CASE Drop(c)
        BY <1>1, <2>4, <3>2 DEF Drop, At, Shape
      <3>3. CASE Store(c) \/ PutOne(c) \/ Fetch(c) \/ StoreAll(c) \/ InsertAll(c) \/ Query(c)
        BY <1>1, <2>4, <3>3 DEF Store, PutOne, Fetch, StoreAll, InsertAll, Query, At, Kind,
           Stores, Removes
      <3> QED BY <2>3, <3>1, <3>2, <3>3 DEF Step
    <2>6. Delete(Hits(c)) /\ Answer(c, Hits(c))
      BY <2>4, <2>5 DEF Remove
    <2>7. m \in {MappingOf(r) : r \in Hits(c)}
      BY <1>1, <2>1, <2>6, ReturnStep DEF Answer
    <2>8. Registered(m) /\ ~Registered(m)'
      BY <1>1, <2>6, <2>7, DeleteStep DEF Hits, Registered
    <2>9. Once(Registered(m)) = 1 /\ Once(Registered(m)') = 0
      BY <2>8 DEF Once
    <2> HIDE DEF R, S
    <2>10. Cardinality(R') = Cardinality(R) + 1
      BY <1>2, <2>2
    <2>11. Cardinality(R') + Once(Registered(m)') <= Once(IsSeed(m)) + Cardinality(S')
      BY <1>2, <1>3, <1>5, <1>6, <2>9, <2>10
    <2> QED BY <2>11 DEF PaidFor, R, S, IsSeed, Valid, Once
  <1> QED BY <1>8, <1>9

-----------------------------------------------------------------------------
(* What a store was told is there *)

\* The later it gets the more may have disturbed a store.
LEMMA UndisturbedBefore ==
    ASSUME IInv, NEW c \in Calls, StartCall(c) \/ Step(c) \/ Abandon(c),
           NEW s \in Calls, pc[s] # "idle", NEW m, Undisturbed(s, m)'
    PROVE  Undisturbed(s, m)
  <1> SUFFICES ASSUME NEW d \in Calls \ before[s]
               PROVE  /\ Removes(d) => ~Covers(target[d], m)
                      /\ Stores(d) => \A n \in Elements(list[d]) : n.id = m.id => n = m
    BY DEF Undisturbed
  <1>1. before'[s] = before[s]
    BY BegunKeeps
  <1>2. CASE pc[d] = "idle"
    BY <1>2 DEF IInv, Kind, Removes, Stores
  <1>3. CASE pc[d] # "idle"
    <2>1. op'[d] = op[d] /\ list'[d] = list[d] /\ target'[d] = target[d]
      BY <1>3, BegunKeeps
    <2>2. /\ Removes(d)' => ~Covers(target'[d], m)
          /\ Stores(d)' => \A n \in Elements(list'[d]) : n.id = m.id => n = m
      BY <1>1 DEF Undisturbed, Covers, Elements
    <2> QED BY <2>1, <2>2 DEF Removes, Stores
  <1> QED BY <1>2, <1>3

\* What is registered stays so while the store it is of is undisturbed.
LEMMA RegisteredStays ==
    ASSUME CInv, NEW c \in Calls, StartCall(c) \/ Step(c) \/ Abandon(c),
           NEW s \in Calls, pc[s] # "idle", NEW m \in Mapping,
           Undisturbed(s, m), Registered(m)
    PROVE  Registered(m)'
  <1> DEFINE l == list[c]
  <1>1. IInv /\ TypeOK /\ Shape(c) /\ Kind(c) /\ l \in Seq(Mapping)
    BY DEF CInv, IInv, TypeOK
  <1>2. c \notin before[s]
    BY <1>1, Frame DEF IInv, Ordered
  <1>3. PICK r \in table : MappingOf(r) = m
    BY DEF Registered
  <1>4. r \in table' => Registered(m)'
    BY <1>3 DEF Registered, MappingOf
  <1>5. r \in Row /\ r.id = m.id
    BY <1>1, <1>3, RowFacts DEF TypeOK
  <1>6. ASSUME NEW n \in Elements(l), Stores(c), Upsert(c, n)
        PROVE  Registered(m)'
    <2>1. CASE n.id = m.id
      <3>1. n = m
        BY <1>2, <1>6, <2>1 DEF Undisturbed
      <3>2. RowOf(m, c) \in table' /\ MappingOf(RowOf(m, c)) = m
        BY <1>6, <3>1, RowFacts DEF Upsert
      <3> QED BY <3>2 DEF Registered, MappingOf
    <2>2. CASE n.id # m.id
      BY <1>4, <1>5, <1>6, <2>2 DEF Upsert
    <2> QED BY <2>1, <2>2
  <1>7. ASSUME NEW rows, Delete(rows), Removes(c), \A x \in rows : Covers(target[c], x)
        PROVE  Registered(m)'
    <2>1. ~Covers(target[c], m)
      BY <1>2, <1>7 DEF Undisturbed
    <2>2. ~Covers(target[c], r)
      BY <1>3, <1>5, <2>1, CoversMapping
    <2> QED BY <1>4, <1>7, <2>2 DEF Delete
  <1>8. \A ms : Insert(c, ms) => Registered(m)'
    BY <1>4 DEF Insert
  <1>9. CASE StartCall(c) \/ Abandon(c) \/ Fetch(c) \/ Query(c)
    BY <1>1, <1>4, <1>9, StartStep DEF Abandon, Fetch, Query
  <1>10. CASE Store(c)
    <2>1. l[1] \in Elements(l) /\ Stores(c)
      BY <1>1, <1>10, ElementsType DEF Store, At, IInv, Single, Kind
    <2> QED BY <1>4, <1>6, <1>8, <1>10, <2>1 DEF Store
  <1>11. CASE PutOne(c) \/ InsertAll(c)
    BY <1>8, <1>11 DEF PutOne, Put, InsertAll
  <1>12. CASE StoreAll(c)
    <2>1. count[c] < Len(l) => l[count[c] + 1] \in Elements(l)
      BY <1>1, ElementsType DEF TypeOK
    <2>2. Stores(c)
      BY <1>1, <1>12 DEF StoreAll, At, Kind
    <2> QED BY <1>4, <1>6, <1>8, <1>12, <2>1, <2>2 DEF StoreAll, Put
  <1>13. CASE Remove(c)
    <2>1. Removes(c) /\ \A x \in Hits(c) : Covers(target[c], x)
      BY <1>1, <1>13 DEF Remove, At, Kind, Hits
    <2> QED BY <1>4, <1>7, <1>13, <2>1 DEF Remove
  <1>14. CASE Drop(c)
    <2>1. Removes(c) /\ \A x \in sel[c] : Covers(target[c], x)
      BY <1>1, <1>14 DEF Drop, At, Kind, Shape
    <2> QED BY <1>7, <1>14, <2>1 DEF Drop
  <1> QED BY <1>9, <1>10, <1>11, <1>12, <1>13, <1>14 DEF Step

\* What a bulk store of SeaORM has not seen came after it began.
LEMMA SeenStep ==
    ASSUME CInv, NEW c \in Calls, StartCall(c) \/ Step(c) \/ Abandon(c),
           NEW d \in Calls
    PROVE  Seen(d)'
  <1> SUFFICES ASSUME pc'[d] = "insert_all", NEW r \in table',
                      NEW n \in Elements(list'[d]), n.id = r.id
               PROVE  (\E s \in sel'[d] : s.id = r.id) \/ Later(d, r)'
    BY DEF Seen, Later, Elements
  <1>1. IInv /\ TypeOK
    BY DEF CInv, IInv
  <1>2. CASE d # c
    <2>1. pc[d] = "insert_all" /\ sel'[d] = sel[d] /\ list'[d] = list[d]
      BY <1>1, <1>2, Frame
    <2>2. CASE r \in table
      <3>1. (\E s \in sel[d] : s.id = r.id) \/ Later(d, r)
        BY <2>1, <2>2 DEF CInv, Seen
      <3> QED BY <1>1, <2>1, <3>1, LaterKeeps
    <2> QED BY <1>1, <2>1, <2>2, LaterKeeps
  <1>3. CASE d = c
    <2>1. /\ StoreAll(c) /\ UNCHANGED table
          /\ sel'[c] = {x \in table : \E m \in Elements(list[c]) : m.id = x.id}
      BY <1>1, <1>3, PlaceStep
    <2>2. list'[c] = list[c]
      BY <2>1 DEF StoreAll, At, args
    <2> QED BY <1>3, <2>1, <2>2
  <1> QED BY <1>2, <1>3

\* What a bulk store of SurrealDB has stored stays, undisturbed.
LEMMA HalfStoredStep ==
    ASSUME CInv, NEW c \in Calls, StartCall(c) \/ Step(c) \/ Abandon(c),
           NEW d \in Calls
    PROVE  HalfStored(d)'
  <1> SUFFICES ASSUME pc'[d] = "store_all", NEW k \in 1..count'[d], NEW m, m = list'[d][k],
                      Undisturbed(d, m)'
               PROVE  Registered(m)'
    BY DEF HalfStored, Undisturbed, Registered
  <1>1. IInv /\ TypeOK /\ Shape(d) /\ Shape(c)
    BY DEF CInv, IInv
  <1>2. pc[d] # "idle"
    <2>1. CASE StartCall(c) /\ d = c
      BY <1>1, <2>1, StartStep DEF Shape
    <2>2. CASE ~StartCall(c) /\ d = c
      BY <2>2 DEF Step, Store, PutOne, Fetch, StoreAll, InsertAll, Remove, Drop, Query, At, Abandon
    <2>3. CASE d # c
      BY <1>1, <2>3, Frame
    <2> QED BY <2>1, <2>2, <2>3
  <1>3. list'[d] = list[d] /\ list[d] \in Seq(Mapping) /\ Undisturbed(d, m)
    BY <1>1, <1>2, BegunKeeps, UndisturbedBefore DEF TypeOK
  <1>4. pc[d] = "store_all"
    BY <1>1, <1>2, Frame, PlaceStep DEF StoreAll, At
  <1>5. ASSUME k \in 1..count[d]
        PROVE  Registered(m)'
    <2>1. k \in 1..Len(list[d]) /\ m = list[d][k] /\ m \in Mapping
      BY <1>1, <1>3, <1>5 DEF Shape, TypeOK
    <2>2. Registered(m)
      BY <1>3, <1>4, <1>5, <2>1 DEF CInv, HalfStored
    <2> QED BY <1>2, <1>3, <2>1, <2>2, RegisteredStays
  <1>6. CASE k \notin 1..count[d]
    <2>1. d = c /\ count'[c] # count[c]
      BY <1>1, <1>6, CountStep
    <2>2. /\ count[c] < Len(list[c]) /\ count'[c] = count[c] + 1
          /\ Upsert(c, list[c][count[c] + 1])
      BY <1>1, <2>1, CountStep
    <2>3. k = count[c] + 1 /\ k \in 1..Len(list[c])
      BY <1>1, <1>6, <2>1, <2>2 DEF TypeOK
    <2>4. m \in Mapping /\ Upsert(c, m)
      BY <1>3, <2>1, <2>2, <2>3
    <2>5. RowOf(m, c) \in table' /\ MappingOf(RowOf(m, c)) = m
      BY <2>4, RowFacts DEF Upsert
    <2> QED BY <2>5 DEF Registered, MappingOf
  <1> QED BY <1>5, <1>6

\* What a store is told is registered, and stays so, undisturbed.
LEMMA KeptStep ==
    ASSUME CInv, NEW c \in Calls, StartCall(c) \/ Step(c) \/ Abandon(c),
           NEW d \in Calls
    PROVE  Kept(d)'
  <1> SUFFICES ASSUME Stores(d)', NEW m \in told'[d], Undisturbed(d, m)'
               PROVE  Registered(m)'
    BY DEF Kept
  <1>1. IInv /\ TypeOK /\ Shape(c) /\ Kind(c) /\ Kind(d) /\ pc[c] # "done"
    BY Frame DEF CInv, IInv
  <1>2. CASE d # c
    <2>1. m \in told[d] /\ Stores(d) /\ pc[d] # "idle" /\ m \in Mapping
      BY <1>1, <1>2, Frame DEF Kind, Stores, TypeOK
    <2>2. Undisturbed(d, m)
      BY <1>1, <2>1, UndisturbedBefore
    <2>3. Registered(m)
      BY <2>1, <2>2 DEF CInv, Kept
    <2> QED BY <2>1, <2>2, <2>3, RegisteredStays
  <1>3. CASE d = c
    <2> DEFINE l == list[c]
    <2>1. ~StartCall(c) /\ pc[c] # "idle"
      <3>1. ~StartCall(c)
        BY <1>1, <1>3, StartStep
      <3> QED BY <3>1 DEF Step, Store, PutOne, Fetch, StoreAll, InsertAll, Remove, Drop, Query,
              At, Abandon
    <2>2. l \in Seq(Mapping) /\ Stores(c) /\ Elements(l) \in SUBSET Mapping
      BY <1>1, <1>3, <2>1, BegunKeeps, ElementsType DEF Stores, TypeOK
    <2>3. Undisturbed(c, m) /\ c \notin before[c]
      BY <1>1, <1>3, <2>1, UndisturbedBefore DEF IInv, Ordered
    <2>4. \A n \in Elements(l) : n.id = m.id => n = m
      BY <2>2, <2>3 DEF Undisturbed
    <2>5. ASSUME NEW ms \in SUBSET Mapping, Insert(c, ms), m \in ms
          PROVE  Registered(m)'
      BY <2>5, NewsInTable
    <2>6. ASSUME Put(c)
          PROVE  Registered(m)'
      <3>1. m \in News(l, {})
        BY <1>1, <1>3, <2>6, ReturnStep DEF Put
      <3>2. News(l, {}) \in SUBSET Mapping
        BY <2>2, NewsFacts
      <3> QED BY <2>5, <2>6, <3>1, <3>2 DEF Put
    <2>7. CASE Store(c)
      <3>1. backend = "surreal" /\ Upsert(c, l[1]) /\ m \in Elements(l)
        BY <1>1, <1>3, <2>7, ReturnStep, GotoStep DEF Store
      <3>2. l[1] = m /\ m \in Mapping
        BY <2>2, <2>7, <3>1 DEF Store, At, IInv, CInv, Single, Elements
      <3>3. RowOf(m, c) \in table' /\ MappingOf(RowOf(m, c)) = m
        BY <3>1, <3>2, RowFacts DEF Upsert
      <3> QED BY <3>3 DEF Registered, MappingOf
    <2>8. CASE Fetch(c)
      <3>1. PICK r \in table : m = MappingOf(r)
        BY <1>1, <1>3, <2>8, ReturnStep DEF Fetch, Answer
      <3>2. UNCHANGED table
        BY <2>8 DEF Fetch
      <3> QED BY <3>1, <3>2 DEF Registered, MappingOf
    <2>9. CASE StoreAll(c)
      <3>1. CASE Put(c)
        BY <2>6, <3>1
      <3>2. CASE ~Put(c)
        <4>1. /\ count[c] = Len(l) /\ m \in Elements(l) /\ UNCHANGED table
              /\ pc[c] = "store_all"
          BY <1>1, <1>3, <2>9, <3>2, ReturnStep, GotoStep DEF StoreAll, At
        <4>2. PICK k \in 1..count[c] : m = l[k]
          BY <2>2, <4>1 DEF Elements
        <4>3. Registered(m)
          BY <2>3, <4>1, <4>2 DEF CInv, HalfStored
        <4> QED BY <4>1, <4>3 DEF Registered, MappingOf
      <3> QED BY <3>1, <3>2
    <2>10. CASE InsertAll(c)
      <3> DEFINE ids == {r.id : r \in sel[c]}
      <3>1. /\ Insert(c, News(l, ids)) /\ pc[c] = "insert_all"
            /\ m \in Elements(l) /\ m.id \notin ids
        BY <1>1, <1>3, <2>10, ReturnStep DEF InsertAll, At
      <3>2. CASE Taken(m.id)
        <4>1. PICK r \in table : r.id = m.id
          BY <3>2 DEF Taken
        <4>2. Later(c, r)
          <5>1. ~\E s \in sel[c] : s.id = r.id
            BY <3>1, <4>1
          <5> QED BY <3>1, <4>1, <5>1 DEF CInv, Seen
        <4>3. r.by # Seed /\ r \in Row
          BY <1>1, <4>2, RegistryAssumption DEF Later, RegistryAssumption, TypeOK
        <4>4. Stores(r.by) /\ MappingOf(r) \in Elements(list[r.by]) /\ MappingOf(r).id = m.id
          BY <1>1, <4>1, <4>3, RowFacts DEF IInv, Owned
        <4>5. MappingOf(r) = m
          BY <2>3, <4>2, <4>4 DEF Later, Undisturbed
        <4>6. r \in table'
          BY <3>1 DEF Insert
        <4> QED BY <4>5, <4>6 DEF Registered, MappingOf
      <3>3. CASE ~Taken(m.id)
        <4> HIDE DEF ids
        <4>1. PICK n \in News(l, ids) : n.id = m.id
          BY <2>2, <3>1, <3>3, FirstIsNew
        <4>2. News(l, ids) \in SUBSET Mapping /\ n = m
          BY <2>2, <2>4, <4>1, NewsFacts
        <4> QED BY <2>5, <3>1, <4>1, <4>2
      <3> QED BY <3>2, <3>3
    <2>11. CASE PutOne(c)
      BY <2>6, <2>11 DEF PutOne
    <2>12. CASE Abandon(c)
      BY <1>1, <1>3, <2>12, ReturnStep DEF Abandon
    <2>13. CASE Remove(c) \/ Drop(c) \/ Query(c)
      BY <1>1, <2>2, <2>13 DEF Remove, Drop, Query, At, Kind, Stores, Removes
    <2> QED BY <2>1, <2>7, <2>8, <2>9, <2>10, <2>11, <2>12, <2>13 DEF Step
  <1> QED BY <1>2, <1>3

\* A query reads the row of what was stored before it.
LEMMA FoundStep ==
    ASSUME CInv, NEW c \in Calls, StartCall(c) \/ Step(c) \/ Abandon(c)
    PROVE  StoredIsFound'
  <1> SUFFICES ASSUME NEW q \in Calls, NEW s \in Calls, NEW m \in told'[s],
                      op'[q] = "query", res'[q] = "ok", Covers(target'[q], m),
                      Stores(s)', s \in before'[q], Undisturbed(s, m)'
               PROVE  m \in told'[q]
    BY DEF StoredIsFound, Undisturbed, Covers
  <1>1. IInv /\ TypeOK /\ (\A d \in Calls : Kind(d) /\ Ordered(d)) /\ pc[c] # "done"
    BY Frame DEF CInv, IInv
  <1>2. pc[q] # "idle" /\ (q = c => ~StartCall(c))
    <2>1. CASE q = c /\ StartCall(c)
      BY <1>1, <2>1, StartStep
    <2>2. CASE q = c /\ ~StartCall(c)
      BY <2>2 DEF Step, Store, PutOne, Fetch, StoreAll, InsertAll, Remove, Drop, Query, At, Abandon
    <2>3. CASE q # c
      BY <1>1, <2>3, Frame DEF Kind
    <2> QED BY <2>1, <2>2, <2>3
  <1>3. op[q] = "query" /\ s \in before[q] /\ pc[s] = "done" /\ Covers(target[q], m)
    BY <1>1, <1>2, BegunKeeps DEF Ordered
  <1>4. s # c /\ m \in told[s] /\ Stores(s) /\ m \in Mapping
    BY <1>1, <1>3, Frame DEF Stores, TypeOK
  <1>5. Undisturbed(s, m)
    BY <1>1, <1>3, UndisturbedBefore
  <1>6. CASE q # c
    <2>1. res[q] = "ok" /\ told'[q] = told[q]
      BY <1>1, <1>6, Frame
    <2> QED BY <1>3, <1>4, <1>5, <2>1 DEF CInv, StoredIsFound, Undisturbed
  <1>7. CASE q = c
    <2>1. Query(c)
      <3>1. CASE Abandon(c)
        BY <1>1, <1>7, <3>1, ReturnStep DEF Abandon
      <3>2. CASE Store(c) \/ PutOne(c) \/ Fetch(c) \/ StoreAll(c) \/ InsertAll(c)
        BY <1>1, <1>3, <1>7, <3>2 DEF Store, PutOne, Fetch, StoreAll, InsertAll, At, Kind, Stores
      <3>3. CASE Remove(c) \/ Drop(c)
        BY <1>1, <1>3, <1>7, <3>3 DEF Remove, Drop, At, Kind, Removes
      <3> QED BY <1>2, <1>7, <3>1, <3>2, <3>3 DEF Step
    <2>2. told'[c] = {MappingOf(r) : r \in Hits(c)}
      BY <1>1, <1>7, <2>1, ReturnStep DEF Query, Answer
    <2>3. PICK r \in table : MappingOf(r) = m
      BY <1>4, <1>5 DEF CInv, Kept, Registered
    <2>4. Covers(target[c], r)
      BY <1>1, <1>3, <1>7, <2>3, CoversMapping DEF TypeOK
    <2> QED BY <1>7, <2>2, <2>3, <2>4 DEF Hits
  <1> QED BY <1>6, <1>7

-----------------------------------------------------------------------------
(* The theorems about the second invariant *)

\* In the beginning the seeds are registered and nothing was told.
LEMMA InitCounts == Init => CInv
  <1> SUFFICES ASSUME Init PROVE CInv
    OBVIOUS
  <1> DEFINE On(n) == [name |-> n, id |-> Hash[n]]
  <1>1. IInv
    BY InitInv
  <1>2. Begun = {}
    BY DEF Init, Begun
  <1>3. \A c \in Calls : Shape(c) /\ Seen(c) /\ HalfStored(c) /\ Kept(c)
    BY RegistryAssumption DEF Init, Shape, Seen, HalfStored, Kept, RegistryAssumption
  <1>4. ASSUME NEW m \in Mapping
        PROVE  /\ Registered(m) <=> IsSeed(m)
               /\ Storers(m) = {} /\ Removers(m) = {} /\ Spent(m) = {}
    <2>1. \A n \in SeedNames : On(n) \in Mapping /\ MappingOf(RowOf(On(n), Seed)) = On(n)
      BY RegistryAssumption DEF RegistryAssumption, Mapping, MappingOf, RowOf
    <2>2. Registered(m) <=> \E n \in SeedNames : On(n) = m
      BY <2>1 DEF Init, Registered
    <2>3. IsSeed(m) <=> \E n \in SeedNames : On(n) = m
      BY DEF IsSeed, Valid, Mapping
    <2>4. Storers(m) = {} /\ Removers(m) = {}
      BY DEF Init, Storers, Removers, Answered
    <2>5. Spent(m) = {}
      BY DEF Init, Spent, Entries
    <2> QED BY <2>2, <2>3, <2>4, <2>5
  <1>5. LockedIsBalanced
    <2>1. \A m \in Mapping : /\ Once(IsSeed(m)) = Once(Registered(m))
                              /\ Storers(m) = Removers(m) /\ Cardinality(Removers(m)) = 0
      BY <1>4, FS_EmptySet DEF Once
    <2>2. \A m \in Mapping : Once(IsSeed(m)) \in Nat
      BY DEF Once
    <2> QED BY <2>1, <2>2 DEF LockedIsBalanced, Registered
  <1>6. \A m \in Mapping : PaidFor(m)
    <2> SUFFICES ASSUME NEW m \in Mapping PROVE PaidFor(m)
      OBVIOUS
    <2>1. {c \in Removers(m) : Atomic(c)} = {} /\ Spent(m) = {}
      BY <1>4
    <2>2. Once(Registered(m)) = Once(IsSeed(m)) /\ Once(IsSeed(m)) \in Nat
      BY <1>4 DEF Once
    <2> QED BY <2>1, <2>2, FS_EmptySet DEF PaidFor
  <1>7. StoredIsFound
    BY DEF Init, StoredIsFound
  <1> QED BY <1>1, <1>2, <1>3, <1>5, <1>6, <1>7, FS_EmptySet DEF CInv

\* The second invariant: in memory the answers balance; every row, and every
\* mapping an atomic removal told, was paid for by a seed or an entry of a list;
\* and what a store was told is registered while nothing disturbed it.
THEOREM CountsInvariance == Spec => []CInv
  <1>1. Init => CInv
    BY InitCounts
  <1>2. ASSUME IInv, IInv', CInv, NEW c \in Calls, StartCall(c) \/ Step(c) \/ Abandon(c)
        PROVE  CInv'
    <2>1. IsFiniteSet(Begun)'
      BY <1>2, BegunStep
    <2>2. \A d \in Calls : Shape(d)' /\ Seen(d)' /\ HalfStored(d)' /\ Kept(d)'
      BY <1>2, ShapeStep, SeenStep, HalfStoredStep, KeptStep
    <2>3. LockedIsBalanced'
      BY <1>2, BalancedStep
    <2>4. \A m \in Mapping : PaidFor(m)'
      BY <1>2, PaidForStep
    <2>5. StoredIsFound'
      BY <1>2, FoundStep
    <2> QED BY <1>2, <2>1, <2>2, <2>3, <2>4, <2>5 DEF CInv
  <1>3. ASSUME IInv', CInv, UNCHANGED vars
        PROVE  CInv'
    <2>1. /\ \A d \in Calls : Shape(d)' /\ Seen(d)' /\ HalfStored(d)' /\ Kept(d)'
          /\ StoredIsFound'
      <3>1. \A d \in Calls : Shape(d)' /\ Seen(d)'
        BY <1>3 DEF CInv, vars, Shape, SelectsFirst, Covers, Seen, Later, Elements
      <3>2. ASSUME NEW d \in Calls, NEW m, Undisturbed(d, m)'
            PROVE  Undisturbed(d, m) /\ (Registered(m) => Registered(m)')
        <4>1. UNCHANGED <<table, op, list, target, before>>
          BY <1>3 DEF vars
        <4>2. Undisturbed(d, m)
          <5>1. \A e \in Calls \ before[d] : /\ Removes(e)' => ~Covers(target'[e], m)
                                             /\ Stores(e)' => \A n \in Elements(list'[e]) :
                                                                 n.id = m.id => n = m
            BY <3>2, <4>1 DEF Undisturbed, Covers, Elements
          <5> QED BY <4>1, <5>1 DEF Undisturbed, Removes, Stores
        <4> QED BY <4>1, <4>2 DEF Registered, MappingOf
      <3>3. ASSUME NEW d \in Calls PROVE HalfStored(d)' /\ Kept(d)'
        <4>1. UNCHANGED <<pc, op, list, count, told>>
          BY <1>3 DEF vars
        <4>2. HalfStored(d)'
          <5> SUFFICES ASSUME pc[d] = "store_all", NEW k \in 1..count[d], NEW m,
                              m = list[d][k], Undisturbed(d, m)'
                       PROVE  Registered(m)'
            BY <4>1 DEF HalfStored, Undisturbed, Registered
          <5>1. Undisturbed(d, m) /\ (Registered(m) => Registered(m)')
            BY <3>2
          <5>2. Registered(m)
            BY <1>3, <5>1 DEF CInv, HalfStored
          <5> QED BY <5>1, <5>2
        <4>3. Kept(d)'
          <5> SUFFICES ASSUME Stores(d)', NEW m \in told'[d], Undisturbed(d, m)'
                       PROVE  Registered(m)'
            BY DEF Kept
          <5>1. Undisturbed(d, m) /\ (Registered(m) => Registered(m)')
            BY <3>2
          <5> QED BY <1>3, <4>1, <5>1 DEF CInv, Kept, Stores
        <4> QED BY <4>2, <4>3
      <3>4. StoredIsFound'
        BY <1>3 DEF CInv, vars, StoredIsFound, Stores, Removes, Covers, Elements
      <3> QED BY <3>1, <3>3, <3>4
    <2>2. Begun' = Begun
      BY <1>3 DEF vars, Begun
    <2>3. \A m : /\ Storers(m)' = Storers(m) /\ Removers(m)' = Removers(m)
                 /\ Registered(m)' = Registered(m) /\ Spent(m)' = Spent(m)
      BY <1>3 DEF vars, Storers, Removers, Answered, Registered, MappingOf, Spent, Entries
    <2>4. LockedIsBalanced'
      BY <1>3, <2>3 DEF CInv, LockedIsBalanced, vars, Registered, IsSeed, Valid, Once
    <2>5. \A m \in Mapping : PaidFor(m)'
      BY <1>3, <2>3 DEF CInv, PaidFor, vars, Atomic, IsSeed, Valid, Once
    <2> QED BY <1>3, <2>1, <2>2, <2>4, <2>5 DEF CInv
  <1>4. IInv /\ IInv' /\ CInv /\ [Next]_vars => CInv'
    BY <1>2, <1>3 DEF Next
  <1> QED BY <1>1, <1>4, Invariance, PTL DEF Spec

\* In memory every mapping told stored is registered or was told removed, once,
\* however calls interleave and are dropped.
THEOREM AnswersBalance == Spec => []LockedIsBalanced
  BY CountsInvariance, PTL DEF CInv

\* Removals that see and delete in one step are told a mapping at most as often
\* as it is a seed or in the list of a store.
THEOREM RemovalsAreDistinct == Spec => []RemovedOnce
  <1>1. CInv => RemovedOnce
    <2> SUFFICES ASSUME CInv, NEW m \in Mapping
                 PROVE  Cardinality({c \in Removers(m) : Atomic(c)})
                            <= Once(IsSeed(m)) + Cardinality(Entries(m))
      BY DEF RemovedOnce, Entries
    <2> DEFINE R == {c \in Removers(m) : Atomic(c)}
    <2>1. IsFiniteSet(R) /\ Cardinality(R) \in Nat
      BY Finite, FS_Subset, FS_CardinalityType
    <2>2. /\ Cardinality(Spent(m)) \in Nat /\ Cardinality(Entries(m)) \in Nat
          /\ Cardinality(Spent(m)) <= Cardinality(Entries(m))
      <3>1. Spent(m) \in SUBSET Entries(m)
        BY DEF Spent
      <3> QED BY <3>1, Finite, FS_Subset, FS_CardinalityType
    <2>3. Cardinality(R) + Once(Registered(m)) <= Once(IsSeed(m)) + Cardinality(Spent(m))
      BY DEF CInv, PaidFor
    <2>4. Once(Registered(m)) \in Nat /\ Once(IsSeed(m)) \in Nat
      BY DEF Once
    <2> HIDE DEF R
    <2>5. Cardinality(R) <= Once(IsSeed(m)) + Cardinality(Entries(m))
      BY <2>1, <2>2, <2>3, <2>4
    <2> QED BY <2>5 DEF R
  <1> QED BY <1>1, CountsInvariance, PTL

\* What a store was told is there is found by every query that starts after it,
\* on every backend, if no removal of it and no store of another name with its
\* id ran since the store began.
THEOREM WhatIsStoredIsFound == Spec => []StoredIsFound
  BY CountsInvariance, PTL DEF CInv
=============================================================================
