-------------------------- MODULE GroupStore_proofs --------------------------
(***************************************************************************)
(* Proofs about GroupStore for any groups, payloads and calls, and for     *)
(* every backend.                                                          *)
(***************************************************************************)
EXTENDS GroupStore, TLAPS

-----------------------------------------------------------------------------
(* The inductive invariant *)

\* Where a call stands says what it was asked and on which backend it runs.
Standing(c) ==
    /\ pc[c] = "idle" <=> req[c] = NoRequest
    /\ pc[c] = "done" <=> res[c] # "none"
    /\ pc[c] # "done" => told[c] = {}
    /\ pc[c] \in Ops => req[c].op = pc[c]
    /\ pc[c] = "put" => req[c].op = "store" /\ backend \notin Sql
    /\ pc[c] = "drop" => req[c].op = "delete" /\ backend \in Sql
    /\ pc[c] = "rewrite" => req[c].op = "update" /\ backend \in Sql

\* What a call has selected has the id it was asked about.
Choice(c) ==
    /\ \A r \in sel[c] : r.id = req[c].id
    /\ pc[c] \in Ops \cup {"idle", "put"} => sel[c] = {}

\* Only what had returned is before a call, which is still so.
Ordered(c) == \A d \in before[c] : pc[d] = "done"

OneRowPerId == \A r, s \in table : r.id = s.id => r = s

Basics ==
    /\ TypeOK
    /\ \A c \in Calls : Standing(c) /\ Choice(c) /\ Ordered(c)
    /\ OneRowPerId

\* A delete between its two statements, and one that has returned: whatever
\* row of the group it leaves behind was stored since it began.
Selected(d) ==
    pc[d] = "drop" =>
       \A r \in table :
          r.id = req[d].id => \/ Since(d, {"store"}, r.id) # {}
                              \/ \E s \in sel[d] : s.by = r.by /\ s.id = r.id

Deleted(d) == req[d] # NoRequest /\ req[d].op = "delete" /\ res[d] = "ok"

Gone(d) ==
    Deleted(d) =>
       \A r \in table : r.id = req[d].id => Since(d, {"store"}, r.id) # {}

\* A write that was answered is in the table until somebody undoes it; a store
\* of the memory repository that is about to write, and began after it, did not
\* see it: it has been undone.
Acked(w) == req[w] # NoRequest /\ (Added(w) \/ Changed(w))

Sticks(w) == Acked(w) /\ Undoers(w) = {} => \E r \in table : GroupOf(r) = GroupOf(req[w])

LatePut(c) ==
    pc[c] = "put" /\ backend = "memory" =>
       \A w \in before[c] : Acked(w) /\ req[w].id = req[c].id => Undoers(w) # {}

IInv ==
    /\ Basics
    /\ \A c \in Calls : Selected(c) /\ Gone(c)
    /\ \A c \in Calls : Sticks(c) /\ LatePut(c)
    /\ DeletedStaysGone
    /\ AckedWriteSticks

-----------------------------------------------------------------------------
(* Rows and groups *)

LEMMA RowFacts ==
    /\ \A r \in Row : GroupOf(r) \in Group /\ GroupOf(r).id = r.id /\ GroupOf(r).data = r.data
    /\ \A r \in Request : GroupOf(r) \in Group /\ GroupOf(r).id = r.id /\ GroupOf(r).data = r.data
    /\ \A r \in Row, x \in Payloads :
          /\ [r EXCEPT !.data = x] \in Row
          /\ [r EXCEPT !.data = x].id = r.id
          /\ [r EXCEPT !.data = x].by = r.by
          /\ [r EXCEPT !.data = x].data = x
  BY DEF GroupOf, Group, Request, Row

LEMMA NewRow ==
    ASSUME NEW c \in Calls, req[c] \in Request
    PROVE  /\ RowFor(c) \in Row /\ RowFor(c).id = req[c].id /\ RowFor(c).by = c
           /\ GroupOf(RowFor(c)) = GroupOf(req[c])
  BY DEF RowFor, Row, Request, GroupOf

LEMMA GroupsType ==
    ASSUME NEW rows \in SUBSET Row
    PROVE  GroupsOf(rows) \in SUBSET Group
  BY RowFacts DEF GroupsOf

\* A call that was asked something has a request of its type.
LEMMA Asked ==
    ASSUME TypeOK, NEW c \in Calls, Standing(c), pc[c] # "idle"
    PROVE  req[c] \in Request
  BY DEF TypeOK, Standing

-----------------------------------------------------------------------------
(* What every step leaves alone *)

LEMMA StartFrame ==
    ASSUME TypeOK, NEW c \in Calls, NEW r \in Requests, Start(c, r)
    PROVE  /\ pc[c] = "idle" /\ pc'[c] = r.op /\ req'[c] = r
           /\ before'[c] = {d \in Calls : pc[d] = "done"}
           /\ UNCHANGED <<backend, table, sel, told, res>>
           /\ \A d \in Calls \ {c} : pc'[d] = pc[d] /\ req'[d] = req[d] /\ before'[d] = before[d]
  BY DEF Start, Goto, TypeOK

\* How a call that runs may end, or go on.
Ends(c, rows) ==
    /\ pc'[c] = "done" /\ res'[c] \in {"ok", "err"}
    /\ IF res'[c] = "ok" THEN told'[c] = GroupsOf(rows) ELSE told'[c] = told[c]

GoesOn(c, label) == pc'[c] = label /\ told'[c] = told[c] /\ res'[c] = res[c]

LEMMA Endings ==
    ASSUME TypeOK, NEW c \in Calls
    PROVE  /\ Err(c) => Ends(c, {}) /\ res'[c] = "err"
           /\ \A rows : Return(c, rows) => Ends(c, rows)
           /\ \A rows : Answer(c, rows) => Ends(c, rows)
           /\ \A label : Goto(c, label) => GoesOn(c, label)
  BY DEF TypeOK, Err, Return, Answer, Goto, Ends, GoesOn

LEMMA Frame ==
    ASSUME TypeOK, NEW c \in Calls, Step(c) \/ Abandon(c)
    PROVE  /\ pc[c] \notin {"idle", "done"}
           /\ UNCHANGED <<backend, req, before>>
           /\ pc' = [pc EXCEPT ![c] = pc'[c]] /\ sel' = [sel EXCEPT ![c] = sel'[c]]
           /\ told' = [told EXCEPT ![c] = told'[c]] /\ res' = [res EXCEPT ![c] = res'[c]]
  <1>1. CASE Abandon(c)
    BY <1>1 DEF Abandon, Err, TypeOK
  <1>2. CASE Store(c) \/ Put(c)
    BY <1>2 DEF Store, Put, Goto, Return, Err, At, TypeOK
  <1>3. CASE Delete(c) \/ Drop(c)
    BY <1>3 DEF Delete, Drop, Answer, Goto, Return, Err, At, TypeOK
  <1>4. CASE Update(c)
    BY <1>4 DEF Update, Goto, Return, Err, At, TypeOK
  <1>5. CASE ChangeSelected(c)
    BY <1>5 DEF ChangeSelected, Change, Answer, Return, Err, At, TypeOK
  <1>6. CASE Query(c) \/ QueryAll(c)
    BY <1>6 DEF Query, QueryAll, Answer, Return, Err, At, TypeOK
  <1> QED BY <1>1, <1>2, <1>3, <1>4, <1>5, <1>6 DEF Step

\* What each action does to the table, and how the call goes on.
Keeps(c)     == UNCHANGED <<table, sel>>
Stored(c)    == table' = (table \ Hits(c)) \cup {RowFor(c)} /\ UNCHANGED sel
Selects(c)   == UNCHANGED table /\ sel'[c] = Hits(c)
Removes(c, rows) == table' = table \ rows /\ UNCHANGED sel
Rewrites(c, rows) == Rewrite(c, rows) /\ UNCHANGED sel

LEMMA Effects ==
    ASSUME TypeOK, NEW c \in Calls
    PROVE  /\ Store(c) =>
                \/ Keeps(c) /\ Ends(c, {}) /\ (res'[c] = "ok" => Hits(c) # {})
                \/ Keeps(c) /\ Hits(c) = {} /\ GoesOn(c, "put") /\ backend \notin Sql
                \/ Stored(c) /\ Hits(c) = {} /\ Ends(c, {RowFor(c)})
           /\ Put(c) =>
                \/ Keeps(c) /\ Ends(c, {}) /\ res'[c] = "err"
                \/ Stored(c) /\ (backend = "memory" \/ Hits(c) = {}) /\ Ends(c, {RowFor(c)})
           /\ Delete(c) =>
                \/ Removes(c, Hits(c)) /\ Ends(c, Hits(c))
                \/ Selects(c) /\ Hits(c) = {} /\ Ends(c, {})
                \/ Selects(c) /\ GoesOn(c, "drop") /\ backend \in Sql
           /\ Drop(c) => Removes(c, SameKey(sel[c])) /\ Ends(c, sel[c])
           /\ Update(c) =>
                \/ Keeps(c) /\ Ends(c, {}) /\ (res'[c] = "ok" => Hits(c) = {})
                \/ Rewrites(c, Hits(c)) /\ Hits(c) # {} /\ Ends(c, {RowFor(c)})
                \/ Selects(c) /\ Hits(c) = {} /\ Ends(c, {})
                \/ Selects(c) /\ GoesOn(c, "rewrite") /\ backend \in Sql
           /\ ChangeSelected(c) =>
                \/ Keeps(c) /\ Ends(c, {}) /\ res'[c] = "err"
                \/ /\ Rewrites(c, SameKey(sel[c])) /\ SameKey(sel[c]) # {}
                   /\ Ends(c, {RowFor(c)})
           /\ Query(c) => Keeps(c) /\ Ends(c, Hits(c))
           /\ QueryAll(c) => Keeps(c) /\ Ends(c, table)
           /\ Abandon(c) => Keeps(c) /\ Ends(c, {}) /\ res'[c] = "err"
  <1>1. /\ \A rows : Err(c) \/ Return(c, rows) \/ Answer(c, rows) => Ends(c, rows)
        /\ Err(c) => res'[c] = "err"
        /\ \A label : Goto(c, label) => GoesOn(c, label)
    BY Endings DEF Ends
  <1>2. Sql = {"seaorm", "mysql"} /\ sel \in [Calls -> SUBSET Row]
    BY DEF Sql, TypeOK
  <1>3. Store(c) => \/ Keeps(c) /\ Ends(c, {}) /\ (res'[c] = "ok" => Hits(c) # {})
                    \/ Keeps(c) /\ Hits(c) = {} /\ GoesOn(c, "put") /\ backend \notin Sql
                    \/ Stored(c) /\ Hits(c) = {} /\ Ends(c, {RowFor(c)})
    BY <1>1, <1>2 DEF Store, Keeps, Stored, Occupied, Insert
  <1>4. Put(c) =>
           \/ Keeps(c) /\ Ends(c, {}) /\ res'[c] = "err"
           \/ Stored(c) /\ (backend = "memory" \/ Hits(c) = {}) /\ Ends(c, {RowFor(c)})
    BY <1>1 DEF Put, Keeps, Stored, Insert, Replace
  <1>5. Delete(c) => \/ Removes(c, Hits(c)) /\ Ends(c, Hits(c))
                     \/ Selects(c) /\ Hits(c) = {} /\ Ends(c, {})
                     \/ Selects(c) /\ GoesOn(c, "drop") /\ backend \in Sql
    BY <1>1, <1>2 DEF Delete, Removes, Selects
  <1>6. Drop(c) => Removes(c, SameKey(sel[c])) /\ Ends(c, sel[c])
    BY <1>1 DEF Drop, Removes
  <1>7. Update(c) => \/ Keeps(c) /\ Ends(c, {}) /\ (res'[c] = "ok" => Hits(c) = {})
                     \/ Rewrites(c, Hits(c)) /\ Hits(c) # {} /\ Ends(c, {RowFor(c)})
                     \/ Selects(c) /\ Hits(c) = {} /\ Ends(c, {})
                     \/ Selects(c) /\ GoesOn(c, "rewrite") /\ backend \in Sql
    BY <1>1, <1>2 DEF Update, Keeps, Rewrites, Selects
  <1>8. ChangeSelected(c) =>
           \/ Keeps(c) /\ Ends(c, {}) /\ res'[c] = "err"
           \/ Rewrites(c, SameKey(sel[c])) /\ SameKey(sel[c]) # {} /\ Ends(c, {RowFor(c)})
    BY <1>1 DEF ChangeSelected, Change, Keeps, Rewrites
  <1>9. (Query(c) => Keeps(c) /\ Ends(c, Hits(c))) /\ (QueryAll(c) => Keeps(c) /\ Ends(c, table))
    BY <1>1 DEF Query, QueryAll, Keeps
  <1>10. Abandon(c) => Keeps(c) /\ Ends(c, {}) /\ res'[c] = "err"
    BY <1>1 DEF Abandon, Keeps
  <1> QED BY <1>3, <1>4, <1>5, <1>6, <1>7, <1>8, <1>9, <1>10

\* The access a step makes is the one the call stands before.
LEMMA Stands ==
    ASSUME TypeOK, NEW c \in Calls, Standing(c)
    PROVE  /\ Store(c) => pc[c] = "store" /\ req[c].op = "store"
           /\ Put(c) => pc[c] = "put" /\ req[c].op = "store"
           /\ Delete(c) => pc[c] = "delete" /\ req[c].op = "delete"
           /\ Drop(c) => pc[c] = "drop" /\ req[c].op = "delete"
           /\ Update(c) => pc[c] = "update" /\ req[c].op = "update"
           /\ ChangeSelected(c) => pc[c] = "rewrite" /\ req[c].op = "update"
           /\ Query(c) => pc[c] = "query" /\ req[c].op = "query"
           /\ QueryAll(c) => pc[c] = "query_all" /\ req[c].op = "query_all"
  BY DEF Standing, Store, Put, Delete, Drop, Update, ChangeSelected, Query, QueryAll, At, Ops

\* What was selected is the one row of the group or none of those stored.
LEMMA SameKeyHits ==
    ASSUME Basics, NEW c \in Calls
    PROVE  /\ SameKey(sel[c]) \subseteq Hits(c)
           /\ SameKey(sel[c]) \in {{}, Hits(c)}
  <1>1. Choice(c) /\ OneRowPerId
    BY DEF Basics
  <1>2. SameKey(sel[c]) \subseteq Hits(c)
    BY <1>1 DEF SameKey, Hits, Choice
  <1>3. \A r, s \in Hits(c) : r = s
    BY <1>1 DEF Hits, OneRowPerId
  <1> QED BY <1>2, <1>3

-----------------------------------------------------------------------------
(* Every step keeps the basics *)

Moves(c) == Step(c) \/ Abandon(c)

LEMMA Others ==
    ASSUME TypeOK, NEW c \in Calls, Moves(c)
    PROVE  \A d \in Calls \ {c} : /\ pc'[d] = pc[d] /\ sel'[d] = sel[d]
                                  /\ told'[d] = told[d] /\ res'[d] = res[d]
  BY Frame DEF Moves, TypeOK

\* The rows of a step are rows.
LEMMA RowsType ==
    ASSUME Basics, NEW c \in Calls, pc[c] # "idle"
    PROVE  /\ req[c] \in Request /\ RowFor(c) \in Row
           /\ Hits(c) \subseteq table /\ Hits(c) \in SUBSET Row
           /\ \A rows \in SUBSET Row :
                 {[r EXCEPT !.data = req[c].data] : r \in rows} \in SUBSET Row
  <1>1. req[c] \in Request /\ table \in SUBSET Row
    BY Asked DEF Basics, TypeOK
  <1>2. RowFor(c) \in Row /\ req[c].data \in Payloads
    BY <1>1, NewRow DEF Request
  <1>3. Hits(c) \subseteq table /\ Hits(c) \in SUBSET Row
    BY <1>1 DEF Hits
  <1>4. \A rows \in SUBSET Row : {[r EXCEPT !.data = req[c].data] : r \in rows} \in SUBSET Row
    BY <1>2, RowFacts
  <1> QED BY <1>1, <1>2, <1>3, <1>4

LEMMA Results ==
    ASSUME Basics, NEW c \in Calls, Moves(c)
    PROVE  /\ table' \in SUBSET Row
           /\ sel'[c] \in {sel[c], Hits(c)}
           /\ \/ \E rows \in SUBSET Row : Ends(c, rows)
              \/ GoesOn(c, "put") \/ GoesOn(c, "drop") \/ GoesOn(c, "rewrite")
  <1>1. pc[c] # "idle" /\ TypeOK /\ table \in SUBSET Row /\ sel[c] \in SUBSET Row
    BY Frame DEF Basics, Moves, TypeOK
  <1>2. /\ RowFor(c) \in Row /\ Hits(c) \in SUBSET Row
        /\ {[r EXCEPT !.data = req[c].data] : r \in Hits(c)} \in SUBSET Row
        /\ SameKey(sel[c]) \in {{}, Hits(c)}
    BY <1>1, RowsType, SameKeyHits
  <1>3. \A rows \in {{}, Hits(c)} : Rewrite(c, rows) => table' \in SUBSET Row
    BY <1>1, <1>2, RowFacts DEF Rewrite
  <1>4. CASE Store(c) \/ Put(c)
    BY <1>1, <1>2, <1>4, Effects DEF Keeps, Stored
  <1>5. CASE Delete(c) \/ Drop(c)
    BY <1>1, <1>2, <1>5, Effects DEF Keeps, Selects, Removes
  <1>6. CASE Update(c)
    BY <1>1, <1>2, <1>3, <1>6, Effects DEF Keeps, Selects, Rewrites
  <1>7. CASE ChangeSelected(c)
    BY <1>1, <1>2, <1>3, <1>7, Effects DEF Keeps, Rewrites
  <1>8. CASE Query(c) \/ QueryAll(c) \/ Abandon(c)
    BY <1>1, <1>2, <1>8, Effects DEF Keeps
  <1> QED BY <1>4, <1>5, <1>6, <1>7, <1>8 DEF Moves, Step

LEMMA TypeStep ==
    ASSUME Basics, NEW c \in Calls, Moves(c)
    PROVE  TypeOK'
  <1>1. TypeOK /\ UNCHANGED <<backend, req, before>>
    BY Frame DEF Basics, Moves
  <1>2. /\ pc' = [pc EXCEPT ![c] = pc'[c]] /\ sel' = [sel EXCEPT ![c] = sel'[c]]
        /\ told' = [told EXCEPT ![c] = told'[c]] /\ res' = [res EXCEPT ![c] = res'[c]]
    BY <1>1, Frame DEF Moves
  <1>3. table' \in SUBSET Row /\ sel'[c] \in SUBSET Row
    BY <1>1, Results, RowsType, Frame DEF TypeOK, Moves
  <1>4. pc'[c] \in Labels /\ told'[c] \in SUBSET Group /\ res'[c] \in {"none", "ok", "err"}
    <2>1. told[c] \in SUBSET Group /\ res[c] \in {"none", "ok", "err"}
      BY <1>1 DEF TypeOK
    <2>2. CASE \E rows \in SUBSET Row : Ends(c, rows)
      BY <2>1, <2>2, GroupsType DEF Ends, Labels
    <2>3. CASE GoesOn(c, "put") \/ GoesOn(c, "drop") \/ GoesOn(c, "rewrite")
      BY <2>1, <2>3 DEF GoesOn, Labels
    <2> QED BY <2>2, <2>3, Results
  <1> QED BY <1>1, <1>2, <1>3, <1>4 DEF TypeOK

LEMMA StandingStep ==
    ASSUME Basics, NEW c \in Calls, Moves(c)
    PROVE  \A d \in Calls : Standing(d)'
  <1>1. TypeOK /\ (\A d \in Calls : Standing(d)) /\ UNCHANGED <<backend, req>>
    BY Frame DEF Basics, Moves
  <1>2. ASSUME NEW d \in Calls \ {c}
        PROVE  Standing(d)'
    BY <1>1, <1>2, Others DEF Standing
  <1>3. pc[c] \notin {"idle", "done"}
    BY <1>1, Frame DEF Moves
  <1>4. Standing(c)'
    <2>1. CASE \E rows \in SUBSET Row : Ends(c, rows)
      BY <1>1, <1>3, <2>1 DEF Standing, Ends, Ops
    <2>2. CASE ~ \E rows \in SUBSET Row : Ends(c, rows)
      <3>1. /\ {} \in SUBSET Row /\ Hits(c) \in SUBSET Row /\ RowFor(c) \in Row
            /\ sel[c] \in SUBSET Row /\ table \in SUBSET Row
        BY <1>1, <1>3, RowsType DEF TypeOK
      <3>2. \/ GoesOn(c, "put") /\ req[c].op = "store" /\ backend \notin Sql
            \/ GoesOn(c, "drop") /\ req[c].op = "delete" /\ backend \in Sql
            \/ GoesOn(c, "rewrite") /\ req[c].op = "update" /\ backend \in Sql
        <4>1. CASE Store(c) \/ Put(c)
          BY <1>1, <2>2, <3>1, <4>1, Effects, Stands
        <4>2. CASE Delete(c) \/ Drop(c) \/ Update(c) \/ ChangeSelected(c)
          BY <1>1, <2>2, <3>1, <4>2, Effects, Stands
        <4>3. CASE Query(c) \/ QueryAll(c) \/ Abandon(c)
          BY <1>1, <2>2, <3>1, <4>3, Effects
        <4> QED BY <4>1, <4>2, <4>3 DEF Moves, Step
      <3> QED BY <1>1, <1>3, <3>2 DEF Standing, GoesOn, Ops
    <2> QED BY <2>1, <2>2
  <1> QED BY <1>2, <1>4

LEMMA ChoiceStep ==
    ASSUME Basics, NEW c \in Calls, Moves(c)
    PROVE  \A d \in Calls : Choice(d)'
  <1>1. TypeOK /\ (\A d \in Calls : Choice(d)) /\ UNCHANGED <<backend, req>>
    BY Frame DEF Basics, Moves
  <1>2. ASSUME NEW d \in Calls \ {c}
        PROVE  Choice(d)'
    BY <1>1, <1>2, Others DEF Choice
  <1>3. \A r \in sel'[c] : r.id = req[c].id
    BY <1>1, Results DEF Choice, Hits
  <1>4. pc'[c] \in Ops \cup {"idle", "put"} => sel'[c] = {}
    <2>1. pc'[c] \in {"put", "drop", "rewrite", "done"}
      BY Results DEF Ends, GoesOn
    <2>2. pc'[c] = "put" => pc[c] = "store" /\ sel'[c] = sel[c]
      <3>1. CASE Store(c)
        BY <1>1, <3>1, Effects, Stands DEF Keeps, Stored, Basics
      <3>2. CASE Put(c) \/ Delete(c) \/ Drop(c)
        BY <1>1, <3>2, Effects DEF Ends, GoesOn
      <3>3. CASE Update(c) \/ ChangeSelected(c)
        BY <1>1, <3>3, Effects DEF Ends, GoesOn
      <3>4. CASE Query(c) \/ QueryAll(c) \/ Abandon(c)
        BY <1>1, <3>4, Effects DEF Ends, GoesOn
      <3> QED BY <3>1, <3>2, <3>3, <3>4 DEF Moves, Step
    <2> QED BY <1>1, <2>1, <2>2 DEF Choice, Ops
  <1> QED BY <1>1, <1>2, <1>3, <1>4 DEF Choice

\* What a step does to the table: it adds the row of a store, takes rows of
\* one group, or changes the payload of the row of one group.
TableStep(c) ==
    \/ UNCHANGED table
    \/ /\ req[c].op = "store"
       /\ Hits(c) = {} \/ (pc[c] = "put" /\ backend = "memory")
       /\ table' = (table \ Hits(c)) \cup {RowFor(c)}
    \/ req[c].op = "delete" /\ \E rows \in SUBSET Hits(c) : table' = table \ rows
    \/ req[c].op = "update" /\ Hits(c) # {} /\ Rewrite(c, Hits(c))

LEMMA TableSteps ==
    ASSUME Basics, NEW c \in Calls, Moves(c)
    PROVE  TableStep(c)
  <1>1. TypeOK /\ Standing(c)
    BY DEF Basics
  <1>2. SameKey(sel[c]) \subseteq Hits(c) /\ SameKey(sel[c]) \in {{}, Hits(c)}
    BY SameKeyHits
  <1>3. CASE Store(c)
    BY <1>1, <1>3, Effects, Stands DEF Keeps, Stored, TableStep
  <1>4. CASE Put(c)
    BY <1>1, <1>4, Effects, Stands DEF Keeps, Stored, TableStep
  <1>5. CASE Delete(c)
    BY <1>1, <1>5, Effects, Stands DEF Selects, Removes, TableStep
  <1>6. CASE Drop(c)
    BY <1>1, <1>2, <1>6, Effects, Stands DEF Removes, TableStep
  <1>7. CASE Update(c)
    BY <1>1, <1>7, Effects, Stands DEF Keeps, Selects, Rewrites, TableStep
  <1>8. CASE ChangeSelected(c)
    BY <1>1, <1>2, <1>8, Effects, Stands DEF Keeps, Rewrites, TableStep
  <1>9. CASE Query(c) \/ QueryAll(c) \/ Abandon(c)
    BY <1>1, <1>9, Effects DEF Keeps, TableStep
  <1> QED BY <1>3, <1>4, <1>5, <1>6, <1>7, <1>8, <1>9 DEF Moves, Step

\* Where the rows after a step come from, and where those before it are.
LEMMA RowsAfter ==
    ASSUME Basics, NEW c \in Calls, Moves(c)
    PROVE  /\ \A r \in table' :
                 \/ r \in table
                 \/ r.id = req[c].id /\ req[c].op = "store"
                 \/ /\ r.id = req[c].id /\ req[c].op = "update"
                    /\ \E s \in Hits(c) : s.by = r.by /\ s.id = r.id
           /\ \A r \in table : r.id # req[c].id => r \in table'
           /\ req[c].op \in {"query", "query_all"} => table' = table
  <1>1. TableStep(c) /\ table \in SUBSET Row /\ pc[c] # "idle"
    BY TableSteps, Frame DEF Basics, TypeOK, Moves
  <1>2. RowFor(c).id = req[c].id /\ req[c].data \in Payloads
    BY <1>1, RowsType, NewRow DEF Request
  <1>3. \A r \in Row : /\ [r EXCEPT !.data = req[c].data].id = r.id
                       /\ [r EXCEPT !.data = req[c].data].by = r.by
    BY <1>2, RowFacts
  <1>4. \A r \in table : r.id # req[c].id <=> r \notin Hits(c)
    BY DEF Hits
  <1>5. CASE UNCHANGED table
    BY <1>5
  <1>6. CASE req[c].op = "store" /\ table' = (table \ Hits(c)) \cup {RowFor(c)}
    BY <1>2, <1>4, <1>6
  <1>7. CASE req[c].op = "delete" /\ \E rows \in SUBSET Hits(c) : table' = table \ rows
    BY <1>4, <1>7
  <1>8. CASE req[c].op = "update" /\ Hits(c) # {} /\ Rewrite(c, Hits(c))
    <2>1. Hits(c) \subseteq Row
      BY <1>1 DEF Hits
    <2>2. table' = (table \ Hits(c)) \cup {[r EXCEPT !.data = req[c].data] : r \in Hits(c)}
      BY <1>8 DEF Rewrite
    <2>3. ASSUME NEW r \in table', r \notin table
          PROVE  /\ r.id = req[c].id
                 /\ \E s \in Hits(c) : s.by = r.by /\ s.id = r.id
      <3>1. PICK s \in Hits(c) : r = [s EXCEPT !.data = req[c].data]
        BY <2>2, <2>3
      <3>2. r.id = s.id /\ r.by = s.by /\ s.id = req[c].id
        BY <1>3, <2>1, <3>1 DEF Hits
      <3> QED BY <3>2
    <2>4. \A r \in table : r.id # req[c].id => r \in table'
      BY <1>4, <2>2
    <2> QED BY <1>8, <2>3, <2>4
  <1> QED BY <1>1, <1>5, <1>6, <1>7, <1>8 DEF TableStep

LEMMA OneRowStep ==
    ASSUME Basics, NEW c \in Calls, Moves(c)
    PROVE  OneRowPerId'
  <1>1. TableStep(c) /\ OneRowPerId /\ table \in SUBSET Row /\ pc[c] # "idle"
    BY TableSteps, Frame DEF Basics, TypeOK, Moves
  <1>2. RowFor(c).id = req[c].id
    BY <1>1, RowsType, NewRow
  <1>3. \A r \in table : r.id # req[c].id <=> r \notin Hits(c)
    BY DEF Hits
  <1>4. CASE UNCHANGED table
    BY <1>1, <1>4 DEF OneRowPerId
  <1>5. CASE table' = (table \ Hits(c)) \cup {RowFor(c)}
    BY <1>1, <1>2, <1>3, <1>5 DEF OneRowPerId
  <1>6. CASE \E rows \in SUBSET Hits(c) : table' = table \ rows
    BY <1>1, <1>6 DEF OneRowPerId
  <1>7. CASE Rewrite(c, Hits(c))
    <2>1. \A r, s \in Hits(c) : r = s
      BY <1>1 DEF Hits, OneRowPerId
    <2>2. req[c].data \in Payloads /\ Hits(c) \subseteq Row
      BY <1>1, RowsType DEF Request, Hits
    <2>3. \A r \in Hits(c) : [r EXCEPT !.data = req[c].data].id = req[c].id
      BY <2>2, RowFacts DEF Hits
    <2>4. table' = (table \ Hits(c)) \cup {[r EXCEPT !.data = req[c].data] : r \in Hits(c)}
      BY <1>7 DEF Rewrite
    <2>5. ASSUME NEW r \in table', NEW s \in table', r.id = s.id
          PROVE  r = s
      <3>1. CASE r.id = req[c].id
        <4>1. PICK x \in Hits(c) : r = [x EXCEPT !.data = req[c].data]
          BY <1>3, <2>4, <3>1
        <4>2. PICK y \in Hits(c) : s = [y EXCEPT !.data = req[c].data]
          BY <1>3, <2>4, <2>5, <3>1
        <4> QED BY <2>1, <4>1, <4>2
      <3>2. CASE r.id # req[c].id
        BY <1>1, <2>3, <2>4, <2>5, <3>2 DEF OneRowPerId
      <3> QED BY <3>1, <3>2
    <2> QED BY <2>5 DEF OneRowPerId
  <1> QED BY <1>1, <1>4, <1>5, <1>6, <1>7 DEF TableStep

LEMMA BasicsStep ==
    ASSUME Basics, NEW c \in Calls, Moves(c) \/ \E r \in Requests : Start(c, r)
    PROVE  Basics'
  <1>1. CASE Moves(c)
    <2>1. TypeOK' /\ OneRowPerId'
      BY <1>1, TypeStep, OneRowStep
    <2>2. \A d \in Calls : Standing(d)' /\ Choice(d)'
      BY <1>1, StandingStep, ChoiceStep
    <2>3. \A d \in Calls : Ordered(d)'
      <3>1. before' = before /\ pc[c] # "done" /\ \A d \in Calls \ {c} : pc'[d] = pc[d]
        BY <1>1, Frame, Others DEF Basics, Moves
      <3> QED BY <3>1 DEF Basics, TypeOK, Ordered
    <2> QED BY <2>1, <2>2, <2>3 DEF Basics
  <1>2. CASE \E r \in Requests : Start(c, r)
    <2>1. PICK r \in Requests : Start(c, r)
      BY <1>2
    <2>2. r \in Request /\ r # NoRequest /\ r.op \in Ops
      BY GroupAssumption DEF GroupAssumption, Request
    <2>3. TypeOK /\ \A d \in Calls : Standing(d) /\ Choice(d) /\ Ordered(d)
      BY DEF Basics
    <2>4. /\ pc[c] = "idle" /\ pc'[c] = r.op /\ req'[c] = r
          /\ before'[c] = {d \in Calls : pc[d] = "done"}
          /\ UNCHANGED <<backend, table, sel, told, res>>
          /\ \A d \in Calls \ {c} : pc'[d] = pc[d] /\ req'[d] = req[d] /\ before'[d] = before[d]
      BY <2>1, <2>3, StartFrame
    <2>5. TypeOK'
      BY <2>1, <2>2, <2>3 DEF Start, Goto, TypeOK, Labels
    <2>6. \A d \in Calls : Standing(d)' /\ Choice(d)'
      BY <2>2, <2>3, <2>4 DEF Standing, Choice, Ops
    <2>7. \A d \in Calls : Ordered(d)'
      BY <2>3, <2>4 DEF Ordered, TypeOK
    <2>8. OneRowPerId'
      BY <2>4 DEF Basics, OneRowPerId
    <2> QED BY <2>5, <2>6, <2>7, <2>8 DEF Basics
  <1> QED BY <1>1, <1>2

-----------------------------------------------------------------------------
(* What a call has started after, and run along with *)

Acts(c) == Moves(c) \/ \E r \in Requests : Start(c, r)

LEMMA Stable ==
    ASSUME Basics, NEW c \in Calls, Acts(c)
    PROVE  /\ pc[c] # "done" /\ res[c] = "none"
           /\ \A d \in Calls : pc[d] # "idle" => req'[d] = req[d] /\ before'[d] = before[d]
           /\ \A d \in Calls \ {c} : /\ pc'[d] = pc[d] /\ sel'[d] = sel[d]
                                     /\ told'[d] = told[d] /\ res'[d] = res[d]
                                     /\ req'[d] = req[d] /\ before'[d] = before[d]
           /\ backend' = backend
  <1>1. TypeOK /\ Standing(c)
    BY DEF Basics
  <1>2. CASE Moves(c)
    BY <1>1, <1>2, Frame, Others DEF Moves, Standing
  <1>3. CASE \E r \in Requests : Start(c, r)
    BY <1>1, <1>3, StartFrame DEF Standing
  <1> QED BY <1>2, <1>3 DEF Acts

LEMMA SinceGrows ==
    ASSUME Basics, NEW c \in Calls, Acts(c), NEW d \in Calls, pc[d] # "idle"
    PROVE  /\ \A kinds, i : Since(d, kinds, i) \subseteq Since(d, kinds, i)'
           /\ Undoers(d) \subseteq Undoers(d)'
  <1>1. \A e \in Calls : req[e] # NoRequest => req'[e] = req[e] /\ before'[e] = before[e]
    BY Stable DEF Basics, Standing
  <1>2. req'[d] = req[d] /\ before'[d] = before[d]
    BY Stable
  <1>3. ASSUME NEW kinds, NEW i
        PROVE  Since(d, kinds, i) \subseteq Since(d, kinds, i)'
    BY <1>1, <1>2 DEF Since
  <1>4. Since(d, {"update", "delete"}, req[d].id) \subseteq Since(d, {"update", "delete"}, req[d].id)'
    BY <1>1, <1>2 DEF Since
  <1>5. ASSUME NEW e \in Since(d, {"store"}, req[d].id), d \notin before[e]
        PROVE  e \in Since(d, {"store"}, req[d].id)' /\ d \notin before'[e]
    BY <1>1, <1>2, <1>5 DEF Since
  <1>6. Undoers(d) \subseteq Undoers(d)'
    BY <1>4, <1>5 DEF Undoers
  <1> QED BY <1>3, <1>6

\* A call that takes a step runs along with every other call, or after it.
LEMMA Along ==
    ASSUME Basics, NEW c \in Calls, Moves(c), NEW d \in Calls \ {c}, NEW kinds,
           NEW i, req[c].op \in kinds, req[c].id = i
    PROVE  c \in Since(d, kinds, i)'
  <1>1. Standing(c) /\ Ordered(d) /\ pc[c] \notin {"idle", "done"} /\ UNCHANGED <<req, before>>
    BY Frame DEF Basics, Moves
  <1>2. req[c] # NoRequest /\ c \notin before[d]
    BY <1>1 DEF Standing, Ordered
  <1> QED BY <1>1, <1>2 DEF Since

-----------------------------------------------------------------------------
(* What was deleted stays gone *)

LEMMA SelectedStep ==
    ASSUME Basics, \A d \in Calls : Selected(d), NEW c \in Calls, Acts(c)
    PROVE  \A d \in Calls : Selected(d)'
  <1> SUFFICES ASSUME NEW d \in Calls, pc'[d] = "drop", NEW r \in table', r.id = req'[d].id
               PROVE  \/ Since(d, {"store"}, r.id)' # {}
                      \/ \E s \in sel'[d] : s.by = r.by /\ s.id = r.id
    BY DEF Selected
  <1>1. CASE \E x \in Requests : Start(c, x)
    <2>1. table' = table /\ d # c
      BY <1>1, StartFrame, GroupAssumption DEF Basics, GroupAssumption, Request, Ops
    <2>2. pc[d] = "drop" /\ req'[d] = req[d] /\ sel'[d] = sel[d]
      BY <2>1, Stable
    <2>3. Since(d, {"store"}, r.id) \subseteq Since(d, {"store"}, r.id)'
      BY <2>2, SinceGrows
    <2> QED BY <2>1, <2>2, <2>3 DEF Selected
  <1>2. CASE Moves(c) /\ d # c
    <2>1. pc[d] = "drop" /\ req'[d] = req[d] /\ sel'[d] = sel[d]
      BY <1>2, Stable
    <2>2. req[d].op = "delete"
      BY <2>1 DEF Basics, Standing
    <2>3. Since(d, {"store"}, r.id) \subseteq Since(d, {"store"}, r.id)'
      BY <2>1, SinceGrows
    <2>4. CASE r.id = req[c].id /\ req[c].op = "store"
      BY <1>2, <2>4, Along
    <2>5. CASE \E s \in table : s.by = r.by /\ s.id = r.id
      BY <2>1, <2>3, <2>5 DEF Selected
    <2> QED BY <1>2, <2>4, <2>5, RowsAfter DEF Hits
  <1>3. CASE Moves(c) /\ d = c
    <2>1. Standing(c) /\ TypeOK
      BY DEF Basics
    <2>2. pc'[c] = "drop" => UNCHANGED table /\ sel'[c] = Hits(c)
      <3>1. CASE Store(c) \/ Put(c) \/ Drop(c)
        BY <2>1, <3>1, Effects DEF Ends, GoesOn
      <3>2. CASE Delete(c)
        BY <2>1, <3>2, Effects DEF Ends, GoesOn, Selects
      <3>3. CASE Update(c) \/ ChangeSelected(c)
        BY <2>1, <3>3, Effects DEF Ends, GoesOn
      <3>4. CASE Query(c) \/ QueryAll(c) \/ Abandon(c)
        BY <2>1, <3>4, Effects DEF Ends
      <3> QED BY <1>3, <3>1, <3>2, <3>3, <3>4 DEF Moves, Step
    <2>3. req' = req
      BY <1>3, <2>1, Frame DEF Moves
    <2> QED BY <1>3, <2>2, <2>3 DEF Hits
  <1> QED BY <1>1, <1>2, <1>3 DEF Acts

LEMMA GoneStep ==
    ASSUME Basics, \A d \in Calls : Selected(d) /\ Gone(d), NEW c \in Calls, Acts(c)
    PROVE  \A d \in Calls : Gone(d)'
  <1> SUFFICES ASSUME NEW d \in Calls, Deleted(d)', NEW r \in table', r.id = req'[d].id
               PROVE  Since(d, {"store"}, r.id)' # {}
    BY DEF Gone
  <1>1. CASE \E x \in Requests : Start(c, x)
    <2>1. table' = table /\ d # c
      BY <1>1, Stable, StartFrame DEF Basics, Deleted
    <2>2. Deleted(d) /\ req'[d] = req[d] /\ pc[d] # "idle"
      BY <2>1, Stable DEF Deleted, Basics, Standing
    <2> QED BY <2>1, <2>2, SinceGrows DEF Gone
  <1>2. CASE Moves(c) /\ d # c
    <2>1. Deleted(d) /\ req'[d] = req[d] /\ pc[d] # "idle"
      BY <1>2, Stable DEF Deleted, Basics, Standing
    <2>2. Since(d, {"store"}, r.id) \subseteq Since(d, {"store"}, r.id)'
      BY <2>1, SinceGrows
    <2>3. CASE r.id = req[c].id /\ req[c].op = "store"
      BY <1>2, <2>3, Along
    <2>4. CASE \E s \in table : s.by = r.by /\ s.id = r.id
      BY <2>1, <2>2, <2>4 DEF Gone
    <2> QED BY <1>2, <2>3, <2>4, RowsAfter DEF Hits
  <1>3. CASE Moves(c) /\ d = c
    <2>1. Standing(c) /\ TypeOK /\ req' = req /\ pc[c] # "idle"
      BY <1>3, Frame DEF Basics, Moves
    <2>2. req[c].op = "delete" /\ res'[c] = "ok" /\ r.id = req[c].id
      BY <1>3, <2>1 DEF Deleted
    <2>3. res[c] = "none"
      BY <1>3, Stable DEF Acts
    <2>4. CASE Delete(c)
      <3>1. table' = table \ Hits(c) \/ (table' = table /\ Hits(c) = {})
        BY <2>1, <2>2, <2>3, <2>4, Effects DEF Removes, Selects, GoesOn
      <3> QED BY <2>2, <3>1 DEF Hits
    <2>5. CASE Drop(c)
      <3>1. pc[c] = "drop" /\ table' = table \ SameKey(sel[c])
        BY <2>1, <2>5, Effects, Stands DEF Removes
      <3>2. Since(c, {"store"}, r.id) # {}
        BY <2>2, <3>1 DEF Selected, SameKey
      <3> QED BY <1>3, <2>1, <3>2, SinceGrows DEF Acts
    <2>6. CASE Abandon(c)
      BY <2>1, <2>2, <2>6, Effects
    <2>7. ~(Store(c) \/ Put(c) \/ Update(c) \/ ChangeSelected(c) \/ Query(c) \/ QueryAll(c))
      BY <2>1, <2>2, Stands
    <2> QED BY <1>3, <2>4, <2>5, <2>6, <2>7 DEF Moves, Step
  <1> QED BY <1>1, <1>2, <1>3 DEF Acts

\* What a query answers is in the table.
LEMMA ReadEnds ==
    ASSUME Basics, NEW c \in Calls, Moves(c), req[c].op \in {"query", "query_all"},
           res'[c] = "ok"
    PROVE  told'[c] = GroupsOf(IF req[c].op = "query" THEN Hits(c) ELSE table)
  <1>1. Standing(c) /\ TypeOK
    BY DEF Basics
  <1>2. CASE Query(c) \/ QueryAll(c)
    BY <1>1, <1>2, Effects, Stands DEF Ends
  <1>3. ~(Store(c) \/ Put(c) \/ Delete(c) \/ Drop(c) \/ Update(c) \/ ChangeSelected(c))
    BY <1>1, Stands
  <1>4. ~Abandon(c)
    BY <1>1, Effects
  <1> QED BY <1>2, <1>3, <1>4 DEF Moves, Step

LEMMA DeletedStep ==
    ASSUME Basics, \A d \in Calls : Gone(d), DeletedStaysGone, NEW c \in Calls, Acts(c)
    PROVE  DeletedStaysGone'
  <1> SUFFICES ASSUME NEW q \in Calls, NEW d \in Calls, Reads(q)', d \in before'[q],
                      req'[d].op = "delete", res'[d] = "ok",
                      \E x \in told'[q] : x.id = req'[d].id
               PROVE  Since(d, {"store"}, req[d].id)' # {}
    BY DEF DeletedStaysGone
  <1>1. CASE q # c
    <2>1. Reads(q) /\ d \in before[q] /\ told'[q] = told[q]
      BY <1>1, Stable DEF Reads
    <2>2. pc[d] = "done" /\ d # c
      BY <2>1, Stable DEF Basics, Ordered
    <2>3. req'[d] = req[d] /\ res'[d] = res[d]
      BY <2>2, Stable
    <2>4. Since(d, {"store"}, req[d].id) # {}
      BY <2>1, <2>3 DEF DeletedStaysGone
    <2> QED BY <2>2, <2>3, <2>4, SinceGrows
  <1>2. CASE q = c
    <2>1. Moves(c)
      <3>1. ~ \E r \in Requests : Start(c, r)
        BY <1>2, StartFrame, Stable DEF Reads, Basics
      <3> QED BY <3>1 DEF Acts
    <2>2. UNCHANGED <<req, before>> /\ req[c].op \in {"query", "query_all"} /\ res'[c] = "ok"
      BY <1>2, <2>1, Frame DEF Reads, Moves, Basics
    <2>3. told'[c] \subseteq GroupsOf(table)
      BY <2>1, <2>2, ReadEnds DEF GroupsOf, Hits
    <2>4. pc[d] = "done" /\ d # c
      BY <1>2, <2>2, Stable DEF Basics, Ordered
    <2>5. PICK r \in table : r.id = req[d].id
      BY <1>2, <2>2, <2>3 DEF GroupsOf, GroupOf
    <2>6. Deleted(d)
      BY <2>2, <2>4, Stable DEF Deleted, Basics, Standing
    <2>7. Since(d, {"store"}, req[d].id) # {}
      BY <2>5, <2>6 DEF Gone
    <2> QED BY <2>2, <2>4, <2>7, SinceGrows
  <1> QED BY <1>1, <1>2

-----------------------------------------------------------------------------
(* What was written is read *)

LEMMA AckedStays ==
    ASSUME Basics, NEW c \in Calls, Acts(c), NEW w \in Calls \ {c}
    PROVE  /\ Acked(w)' <=> Acked(w)
           /\ Acked(w) => pc[w] = "done" /\ req'[w] = req[w]
  BY Stable DEF Acked, Added, Changed, Basics, Standing

\* A step of another call undoes a write only if it is one that may.
LEMMA OthersKeep ==
    ASSUME IInv, NEW c \in Calls, Moves(c), NEW w \in Calls \ {c}, Acked(w),
           Undoers(w)' = {}
    PROVE  \E r \in table' : GroupOf(r) = GroupOf(req[w])
  <1>1. Basics /\ TableStep(c) /\ UNCHANGED <<req, before>> /\ pc[w] = "done" /\ pc[c] # "done"
    BY TableSteps, Frame, AckedStays, Stable DEF IInv, Basics, Moves, Acts
  <1>2. Undoers(w) = {}
    BY <1>1, SinceGrows DEF Acts
  <1>3. PICK r \in table : GroupOf(r) = GroupOf(req[w])
    BY <1>2 DEF IInv, Sticks
  <1>4. r.id = req[w].id
    BY <1>3 DEF GroupOf
  <1>5. CASE req[c].id # r.id
    BY <1>1, <1>3, <1>5, RowsAfter
  <1>6. CASE req[c].id = r.id
    <2>1. req[c].op \notin {"update", "delete"}
      <3> SUFFICES ASSUME req[c].op \in {"update", "delete"}
                   PROVE  FALSE
        OBVIOUS
      <3>1. c \in Since(w, {"update", "delete"}, r.id)'
        BY <1>1, <1>6, Along
      <3>2. c \in Since(w, {"update", "delete"}, req[w].id)'
        BY <1>1, <1>4, <3>1
      <3> QED BY <3>2 DEF Undoers
    <2>2. r \in Hits(c)
      BY <1>6 DEF Hits
    <2>3. ~(req[c].op = "store" /\ pc[c] = "put" /\ backend = "memory")
      <3> SUFFICES ASSUME req[c].op = "store", pc[c] = "put", backend = "memory"
                   PROVE  FALSE
        OBVIOUS
      <3>1. w \notin before[c]
        BY <1>2, <1>4, <1>6 DEF IInv, LatePut
      <3>2. c \in Since(w, {"store"}, r.id)'
        BY <1>1, <1>6, Along
      <3>3. c \in Since(w, {"store"}, req[w].id)' /\ w \notin before'[c]
        BY <1>1, <1>4, <3>1, <3>2
      <3> QED BY <3>3 DEF Undoers
    <2> QED BY <1>1, <1>3, <2>1, <2>2, <2>3 DEF TableStep
  <1> QED BY <1>5, <1>6

\* A call that is told of its write has written.
LEMMA Writes ==
    ASSUME Basics, NEW c \in Calls, Moves(c), Acked(c)'
    PROVE  \E r \in table' : GroupOf(r) = GroupOf(req[c])
  <1>1. Standing(c) /\ TypeOK /\ pc[c] # "idle" /\ req' = req
    BY Frame DEF Basics, Moves
  <1>2. /\ req[c] \in Request /\ RowFor(c) \in Row
        /\ GroupOf(RowFor(c)) = GroupOf(req[c])
    BY <1>1, RowsType, NewRow
  <1>3. res'[c] = "ok" /\ told'[c] # {} /\ req[c].op \in {"store", "update"}
    BY <1>1 DEF Acked, Added, Changed
  <1>4. ~Ends(c, {}) /\ \A label : ~GoesOn(c, label)
    BY <1>1, <1>3, Stable DEF Ends, GoesOn, GroupsOf, Acts
  <1>5. ASSUME NEW rows \in SUBSET Hits(c), rows # {}, Rewrite(c, rows)
        PROVE  \E r \in table' : GroupOf(r) = GroupOf(req[c])
    <2>1. PICK x \in rows : TRUE
      BY <1>5
    <2>2. x \in Row /\ x.id = req[c].id /\ req[c].data \in Payloads
      BY <1>1, <1>2, <1>5, <2>1 DEF Hits, TypeOK, Request
    <2>3. [x EXCEPT !.data = req[c].data] \in table'
      BY <1>5, <2>1 DEF Rewrite
    <2>4. GroupOf([x EXCEPT !.data = req[c].data]) = GroupOf(req[c])
      BY <2>2, RowFacts DEF GroupOf
    <2> QED BY <2>3, <2>4
  <1>6. CASE Store(c) \/ Put(c)
    BY <1>1, <1>2, <1>4, <1>6, Effects DEF Stored
  <1>7. CASE Update(c)
    <2>1. Rewrite(c, Hits(c)) /\ Hits(c) # {}
      BY <1>1, <1>4, <1>7, Effects DEF Rewrites
    <2> QED BY <1>5, <2>1
  <1>8. CASE ChangeSelected(c)
    <2>1. Rewrite(c, SameKey(sel[c])) /\ SameKey(sel[c]) # {}
      BY <1>1, <1>4, <1>8, Effects DEF Rewrites
    <2> QED BY <1>5, <2>1, SameKeyHits
  <1>9. CASE Abandon(c)
    BY <1>1, <1>3, <1>9, Effects
  <1>10. ~(Delete(c) \/ Drop(c) \/ Query(c) \/ QueryAll(c))
    BY <1>1, <1>3, Stands
  <1> QED BY <1>6, <1>7, <1>8, <1>9, <1>10 DEF Moves, Step

LEMMA SticksStep ==
    ASSUME IInv, NEW c \in Calls, Acts(c)
    PROVE  \A w \in Calls : Sticks(w)'
  <1> SUFFICES ASSUME NEW w \in Calls, Acked(w)', Undoers(w)' = {}
               PROVE  \E r \in table' : GroupOf(r) = GroupOf(req[w])'
    BY DEF Sticks
  <1>1. Basics
    BY DEF IInv
  <1>2. CASE \E x \in Requests : Start(c, x)
    <2>1. table' = table /\ w # c
      BY <1>1, <1>2, StartFrame, Stable DEF Basics, Acked, Added, Changed
    <2>2. Acked(w) /\ pc[w] = "done" /\ req'[w] = req[w]
      BY <1>1, <2>1, AckedStays
    <2>3. Undoers(w) = {}
      BY <1>1, <2>2, SinceGrows
    <2>4. \E r \in table : GroupOf(r) = GroupOf(req[w])
      BY <2>2, <2>3 DEF IInv, Sticks
    <2> QED BY <2>1, <2>2, <2>4 DEF GroupOf
  <1>3. CASE Moves(c)
    <2>1. \E r \in table' : GroupOf(r) = GroupOf(req[w])
      <3>1. CASE w = c
        BY <1>1, <1>3, <3>1, Writes
      <3>2. CASE w # c
        BY <1>1, <1>3, <3>2, OthersKeep, AckedStays
      <3> QED BY <3>1, <3>2
    <2>2. req' = req
      BY <1>1, <1>3, Frame DEF Basics, Moves
    <2> QED BY <2>1, <2>2 DEF GroupOf
  <1> QED BY <1>2, <1>3 DEF Acts

LEMMA LatePutStep ==
    ASSUME IInv, NEW c \in Calls, Acts(c)
    PROVE  \A d \in Calls : LatePut(d)'
  <1> SUFFICES ASSUME NEW d \in Calls, pc'[d] = "put", backend' = "memory",
                      NEW w \in before'[d], Acked(w)', req'[w].id = req'[d].id
               PROVE  Undoers(w)' # {}
    BY DEF LatePut
  <1>1. Basics /\ backend = "memory" /\ Standing(d) /\ Standing(c)
    BY Stable DEF IInv, Basics
  <1>2. w \in Calls
    BY <1>1, BasicsStep DEF Basics, TypeOK, Acts
  <1>3. CASE d # c
    <2>1. pc[d] = "put" /\ w \in before[d] /\ req'[d] = req[d]
      BY <1>1, <1>3, Stable
    <2>2. pc[w] = "done" /\ w # c
      BY <1>1, <2>1, Stable DEF Basics, Ordered
    <2>3. Acked(w) /\ req'[w] = req[w]
      BY <1>1, <1>2, <2>2, AckedStays
    <2>4. Undoers(w) # {}
      BY <1>1, <2>1, <2>3 DEF IInv, LatePut
    <2> QED BY <1>1, <1>2, <2>2, <2>4, SinceGrows
  <1>4. CASE d = c
    <2>1. ~ \E x \in Requests : Start(c, x)
      BY <1>1, <1>4, StartFrame, GroupAssumption DEF Basics, GroupAssumption, Request, Ops
    <2>2. Moves(c) /\ UNCHANGED <<req, before>>
      BY <1>1, <2>1, Frame DEF Acts, Moves, Basics
    <2>3. pc[w] = "done" /\ w # c
      BY <1>1, <1>4, <2>2, Stable DEF Basics, Ordered
    <2>4. Acked(w) /\ req[w].id = req[c].id
      BY <1>1, <1>2, <1>4, <2>2, <2>3, AckedStays
    <2>5. Hits(c) = {}
      <3>1. CASE Store(c)
        BY <1>1, <1>4, <3>1, Effects DEF Ends, GoesOn, Basics
      <3>2. CASE Put(c) \/ Delete(c) \/ Drop(c)
        BY <1>1, <1>4, <3>2, Effects DEF Ends, GoesOn, Basics
      <3>3. CASE Update(c) \/ ChangeSelected(c)
        BY <1>1, <1>4, <3>3, Effects DEF Ends, GoesOn, Basics
      <3>4. CASE Query(c) \/ QueryAll(c) \/ Abandon(c)
        BY <1>1, <1>4, <3>4, Effects DEF Ends, Basics
      <3> QED BY <2>2, <3>1, <3>2, <3>3, <3>4 DEF Moves, Step
    <2>6. ~ \E r \in table : GroupOf(r) = GroupOf(req[w])
      BY <2>4, <2>5 DEF Hits, GroupOf
    <2>7. Undoers(w) # {}
      BY <1>2, <2>4, <2>6 DEF IInv, Sticks
    <2> QED BY <1>1, <1>2, <2>3, <2>7, SinceGrows
  <1> QED BY <1>3, <1>4

LEMMA AckedWriteStep ==
    ASSUME IInv, NEW c \in Calls, Acts(c)
    PROVE  AckedWriteSticks'
  <1> SUFFICES ASSUME NEW q \in Calls, NEW w \in Calls, Reads(q)', w \in before'[q],
                      Added(w)' \/ Changed(w)',
                      req'[q].op = "query" => req'[q].id = req'[w].id, Undoers(w)' = {}
               PROVE  GroupOf(req[w])' \in told'[q]
    BY DEF AckedWriteSticks
  <1>1. Basics
    BY DEF IInv
  <1>2. CASE q # c
    <2>1. Reads(q) /\ w \in before[q] /\ told'[q] = told[q] /\ req'[q] = req[q]
      BY <1>1, <1>2, Stable DEF Reads
    <2>2. pc[w] = "done" /\ w # c
      BY <1>1, <2>1, Stable DEF Basics, Ordered
    <2>3. (Added(w) \/ Changed(w)) /\ req'[w] = req[w]
      BY <1>1, <2>2, Stable DEF Added, Changed
    <2>4. Undoers(w) = {}
      BY <1>1, <2>2, SinceGrows
    <2>5. GroupOf(req[w]) \in told[q]
      BY <2>1, <2>3, <2>4 DEF IInv, AckedWriteSticks
    <2> QED BY <2>1, <2>3, <2>5 DEF GroupOf
  <1>3. CASE q = c
    <2>1. Moves(c)
      BY <1>1, <1>3, StartFrame, Stable DEF Reads, Basics, Acts
    <2>2. UNCHANGED <<req, before>> /\ req[c].op \in {"query", "query_all"} /\ res'[c] = "ok"
      BY <1>1, <1>3, <2>1, Frame DEF Reads, Moves, Basics
    <2>3. told'[c] = GroupsOf(IF req[c].op = "query" THEN Hits(c) ELSE table)
      BY <1>1, <2>1, <2>2, ReadEnds
    <2>4. pc[w] = "done" /\ w # c
      BY <1>1, <1>3, <2>2, Stable DEF Basics, Ordered
    <2>5. Acked(w)
      BY <1>1, <2>4, Stable DEF Acked, Added, Changed, Basics, Standing
    <2>6. Undoers(w) = {}
      BY <1>1, <2>4, SinceGrows
    <2>7. PICK r \in table : GroupOf(r) = GroupOf(req[w])
      BY <2>5, <2>6 DEF IInv, Sticks
    <2>8. r.id = req[w].id
      BY <2>7 DEF GroupOf
    <2>9. req[c].op = "query" => r \in Hits(c)
      BY <1>3, <2>2, <2>8 DEF Hits
    <2>10. GroupOf(req[w]) \in told'[c]
      BY <2>3, <2>7, <2>9 DEF GroupsOf
    <2> QED BY <1>3, <2>2, <2>10 DEF GroupOf
  <1> QED BY <1>2, <1>3

-----------------------------------------------------------------------------
(* The invariant *)

LEMMA InitInv == Init => IInv
  <1> SUFFICES ASSUME Init
               PROVE  IInv
    OBVIOUS
  <1>1. PICK S \in {{}, Seeds} :
           table = {[id |-> x.id, data |-> x.data, by |-> Seed] : x \in S}
    BY DEF Init
  <1>2. \A x \in S : x \in Group /\ x.id \in Ids /\ x.data \in Payloads
    BY <1>1, GroupAssumption DEF GroupAssumption, Group
  <1>3. \A x, y \in S : x.id = y.id => x = y
    BY <1>1, GroupAssumption DEF GroupAssumption
  <1>4. table \subseteq Row
    BY <1>1, <1>2 DEF Row
  <1>5. TypeOK
    BY <1>4 DEF Init, TypeOK, Labels
  <1>6. OneRowPerId
    <2> SUFFICES ASSUME NEW r \in table, NEW s \in table, r.id = s.id
                 PROVE  r = s
      BY DEF OneRowPerId
    <2>1. PICK x \in S : r = [id |-> x.id, data |-> x.data, by |-> Seed]
      BY <1>1
    <2>2. PICK y \in S : s = [id |-> y.id, data |-> y.data, by |-> Seed]
      BY <1>1
    <2>3. x = y
      BY <1>3, <2>1, <2>2
    <2> QED BY <2>1, <2>2, <2>3
  <1>7. \A c \in Calls : /\ pc[c] = "idle" /\ req[c] = NoRequest /\ sel[c] = {}
                         /\ told[c] = {} /\ res[c] = "none" /\ before[c] = {}
    BY DEF Init
  <1>8. \A c \in Calls : Standing(c) /\ Choice(c) /\ Ordered(c)
    BY <1>7 DEF Standing, Choice, Ordered, Ops
  <1>9. \A c \in Calls : Selected(c) /\ Gone(c) /\ Sticks(c) /\ LatePut(c)
    BY <1>7 DEF Selected, Gone, Deleted, Sticks, Acked, LatePut
  <1>10. DeletedStaysGone /\ AckedWriteSticks
    BY <1>7 DEF DeletedStaysGone, AckedWriteSticks, Reads
  <1> QED BY <1>5, <1>6, <1>8, <1>9, <1>10 DEF IInv, Basics

\* The inductive invariant: the table has one row per id; what a returned delete
\* leaves of its group was stored since it began; and an answered write is in the
\* table until a call that may undoes it.
THEOREM Invariance == Spec => []IInv
  <1>1. Init => IInv
    BY InitInv
  <1>2. ASSUME IInv, NEW c \in Calls, Acts(c)
        PROVE  IInv'
    <2>1. Basics'
      BY <1>2, BasicsStep DEF IInv, Acts
    <2>2. \A d \in Calls : Selected(d)' /\ Gone(d)'
      BY <1>2, SelectedStep, GoneStep DEF IInv
    <2>3. \A d \in Calls : Sticks(d)' /\ LatePut(d)'
      BY <1>2, SticksStep, LatePutStep
    <2>4. DeletedStaysGone' /\ AckedWriteSticks'
      BY <1>2, DeletedStep, AckedWriteStep DEF IInv
    <2> QED BY <2>1, <2>2, <2>3, <2>4 DEF IInv
  <1>3. ASSUME IInv, UNCHANGED vars
        PROVE  IInv'
    <2>1. Basics'
      BY <1>3 DEF IInv, Basics, vars, TypeOK, Standing, Choice, Ordered, OneRowPerId
    <2>2. \A d \in Calls : Selected(d)' /\ Gone(d)' /\ Sticks(d)' /\ LatePut(d)'
      BY <1>3 DEF IInv, vars, Selected, Gone, Deleted, Sticks, LatePut, Acked, Added, Changed,
         Undoers, Since
    <2>3. DeletedStaysGone' /\ AckedWriteSticks'
      BY <1>3 DEF IInv, vars, DeletedStaysGone, AckedWriteSticks, Reads, Added, Changed,
         Undoers, Since
    <2> QED BY <2>1, <2>2, <2>3 DEF IInv
  <1>4. IInv /\ [Next]_vars => IInv'
    BY <1>2, <1>3 DEF Next, Acts, Moves
  <1> QED BY <1>1, <1>4, PTL DEF Spec

\* Every row, call and answer keeps its type, on every backend.
THEOREM TypeCorrect == Spec => []TypeOK
  BY Invariance, PTL DEF IInv, Basics

\* A query that starts after a delete_group returned Ok finds the group only if
\* a store_group of it ran since the delete began, however many statements the
\* backend takes.
THEOREM DeletionIsFinal == Spec => []DeletedStaysGone
  BY Invariance, PTL DEF IInv

\* A query that starts after a store_group or update_group was answered finds
\* what was written, unless a call that may undo it ran meanwhile.
THEOREM WritesStick == Spec => []AckedWriteSticks
  BY Invariance, PTL DEF IInv

-----------------------------------------------------------------------------
(* The contract *)

\* The groups a call of the contract deals with are those of the rows it hits.
LEMMA HeldHits ==
    ASSUME NEW c \in Calls
    PROVE  /\ Contract!Held(req[c].id) = GroupsOf(Hits(c))
           /\ Contract!Rest(req[c].id) = GroupsOf(table \ Hits(c))
           /\ Hits(c) = {} <=> GroupsOf(Hits(c)) = {}
  <1>1. \A r : GroupOf(r).id = r.id
    BY DEF GroupOf
  <1> QED BY <1>1 DEF Contract!Held, Contract!Rest, GroupsOf, Hits

LEMMA Unions ==
    /\ \A rows, more : GroupsOf(rows \cup more) = GroupsOf(rows) \cup GroupsOf(more)
    /\ \A r : GroupsOf({r}) = {GroupOf(r)}
    /\ GroupsOf({}) = {}
  BY DEF GroupsOf

LEMMA ContractInit == Init => Contract!Init
  <1> SUFFICES ASSUME Init
               PROVE  Contract!Init
    OBVIOUS
  <1>1. Basics
    BY InitInv DEF IInv
  <1>2. \A x, y \in GroupsOf(table) : x.id = y.id => x = y
    <2>1. \A r \in table : GroupOf(r).id = r.id
      BY DEF GroupOf
    <2> QED BY <1>1, <2>1 DEF Basics, OneRowPerId, GroupsOf
  <1>3. Lenient \subseteq {"store", "delete"}
    BY DEF Lenient
  <1>4. [c \in Calls |-> Noted(c)] = [c \in Calls |-> {}]
    BY DEF Init, Noted
  <1> QED BY <1>2, <1>3, <1>4 DEF Init, Contract!Init

LEMMA LenientStays ==
    ASSUME UNCHANGED backend
    PROVE  Lenient' = Lenient
  BY DEF Lenient

\* What other calls have noted stays, for it depends on what they do.
LEMMA NotedOthers ==
    ASSUME Basics, NEW c \in Calls, Acts(c), NEW x, x = Noted(c)'
    PROVE  [d \in Calls |-> Noted(d)]' = [[d \in Calls |-> Noted(d)] EXCEPT ![c] = x]
  <1>1. \A d \in Calls \ {c} : Noted(d)' = Noted(d)
    BY Stable DEF Noted
  <1> QED BY <1>1

LEMMA Tells ==
    ASSUME Basics, NEW c \in Calls, Moves(c), NEW rows, Ends(c, rows)
    PROVE  /\ res'[c] = "ok" => Contract!Tell(c, "ok", GroupsOf(rows))
           /\ res'[c] # "ok" => Contract!Tell(c, "err", {})
  <1>1. TypeOK /\ Standing(c) /\ Acts(c)
    BY DEF Basics, Acts
  <1>2. told' = [told EXCEPT ![c] = told'[c]] /\ res' = [res EXCEPT ![c] = res'[c]]
    BY <1>1, Frame DEF Moves
  <1>3. told[c] = {}
    BY <1>1, Frame DEF Standing, Moves
  <1>4. Noted(c)' = {}
    BY DEF Ends, Noted
  <1>5. [d \in Calls |-> Noted(d)]' = [[d \in Calls |-> Noted(d)] EXCEPT ![c] = {}]
    BY <1>1, <1>4, NotedOthers
  <1> QED BY <1>2, <1>3, <1>5 DEF Ends, Contract!Tell

\* A step that runs, and leaves the groups as they are.
LEMMA RunsOn ==
    ASSUME Basics, NEW c \in Calls, Moves(c)
    PROVE  Contract!Runs(c)
  <1>1. TypeOK /\ Standing(c)
    BY DEF Basics
  <1>2. req[c] # NoRequest /\ res[c] = "none" /\ UNCHANGED <<backend, req>>
    BY <1>1, Frame, Stable DEF Moves, Standing, Acts
  <1> QED BY <1>2, LenientStays DEF Contract!Runs

LEMMA Failing ==
    ASSUME Basics, NEW c \in Calls, Moves(c), NEW rows, Ends(c, rows), res'[c] # "ok",
           UNCHANGED table
    PROVE  Contract!Fail(c)
  <1>1. UNCHANGED GroupsOf(table)
    BY DEF GroupsOf
  <1> QED BY <1>1, RunsOn, Tells DEF Contract!Fail

\* What a store writes, an update writes too.
LEMMA WithRow ==
    ASSUME Basics, NEW c \in Calls, pc[c] # "idle"
    PROVE  /\ Stored(c) => GroupsOf(table)' = Contract!With(req[c])
           /\ Hits(c) # {} /\ Rewrite(c, Hits(c)) => GroupsOf(table)' = Contract!With(req[c])
  <1> DEFINE new == {[r EXCEPT !.data = req[c].data] : r \in Hits(c)}
  <1>1. req[c] \in Request /\ GroupOf(RowFor(c)) = GroupOf(req[c]) /\ Hits(c) \subseteq Row
    BY RowsType, NewRow
  <1>2. Contract!With(req[c]) = GroupsOf(table \ Hits(c)) \cup {GroupOf(req[c])}
    BY HeldHits DEF Contract!With, Contract!GroupOf, GroupOf
  <1>3. Stored(c) => GroupsOf(table)' = Contract!With(req[c])
    <2>1. Stored(c) => GroupsOf(table') = GroupsOf(table \ Hits(c)) \cup {GroupOf(req[c])}
      <3>1. GroupsOf((table \ Hits(c)) \cup {RowFor(c)})
               = GroupsOf(table \ Hits(c)) \cup GroupsOf({RowFor(c)})
        BY Unions
      <3>2. GroupsOf({RowFor(c)}) = {GroupOf(req[c])}
        BY <1>1, Unions
      <3> QED BY <3>1, <3>2 DEF Stored
    <2>2. GroupsOf(table)' = GroupsOf(table')
      BY DEF GroupsOf, GroupOf
    <2> QED BY <1>2, <2>1, <2>2
  <1>4. \A r \in Hits(c) : GroupOf([r EXCEPT !.data = req[c].data]) = GroupOf(req[c])
    <2> SUFFICES ASSUME NEW r \in Hits(c)
                 PROVE  GroupOf([r EXCEPT !.data = req[c].data]) = GroupOf(req[c])
      OBVIOUS
    <2>1. r \in Row /\ r.id = req[c].id /\ req[c].data \in Payloads
      BY <1>1 DEF Hits, Request
    <2> QED BY <2>1, RowFacts DEF GroupOf
  <1>5. Hits(c) # {} => GroupsOf(new) = {GroupOf(req[c])}
    BY <1>4 DEF GroupsOf
  <1>6. Hits(c) # {} /\ Rewrite(c, Hits(c)) => GroupsOf(table)' = Contract!With(req[c])
    <2>1. Rewrite(c, Hits(c)) => table' = (table \ Hits(c)) \cup new
      BY DEF Rewrite
    <2> HIDE DEF new
    <2>2. GroupsOf(table)' = GroupsOf(table')
      BY DEF GroupsOf, GroupOf
    <2> QED BY <1>2, <1>5, <2>1, <2>2, Unions
  <1> QED BY <1>3, <1>6

\* A call between its two accesses, which the contract lets look, or not.
LEMMA Looking ==
    ASSUME Basics, NEW c \in Calls, Moves(c), UNCHANGED table,
           \/ GoesOn(c, "put") /\ req[c].op = "store" /\ Hits(c) = {} /\ sel'[c] = sel[c]
                 /\ pc[c] = "store" /\ backend \notin Sql
           \/ GoesOn(c, "drop") /\ req[c].op = "delete" /\ sel'[c] = Hits(c) /\ backend \in Sql
                 /\ pc[c] = "delete"
    PROVE  Contract!Look(c) \/ UNCHANGED Contract!vars
  <1>1. TypeOK /\ Standing(c) /\ Choice(c) /\ Acts(c)
    BY DEF Basics, Acts
  <1>2. UNCHANGED <<backend, req, told, res>> /\ UNCHANGED GroupsOf(table)
    <2>1. told' = [told EXCEPT ![c] = told'[c]] /\ res' = [res EXCEPT ![c] = res'[c]]
      BY <1>1, Frame DEF Moves
    <2>2. told' = [told EXCEPT ![c] = told[c]] /\ res' = [res EXCEPT ![c] = res[c]]
      BY <2>1 DEF GoesOn
    <2>3. UNCHANGED <<told, res>>
      BY <1>1, <2>2 DEF TypeOK
    <2> QED BY <1>1, <2>3, Frame DEF Moves, GroupsOf
  <1>3. Contract!Held(req[c].id) = GroupsOf(Hits(c))
    BY HeldHits
  <1>4. GroupsOf(sel'[c]) = GroupsOf(Hits(c))
    BY <1>1 DEF Choice, Ops
  <1>5. CASE pc'[c] = "drop" \/ backend = "memory"
    <2>1. req[c].op \in Lenient
      BY <1>1, <1>5 DEF Lenient, GoesOn, Sql
    <2>2. Noted(c)' = {GroupsOf(sel[c])'}
      BY <1>2, <1>5 DEF Noted, GoesOn
    <2>3. GroupsOf(sel[c])' = GroupsOf(sel'[c])
      BY DEF GroupsOf, GroupOf
    <2>4. Noted(c)' = {Contract!Held(req[c].id)}
      BY <1>3, <1>4, <2>2, <2>3
    <2>5. [d \in Calls |-> Noted(d)]'
             = [[d \in Calls |-> Noted(d)] EXCEPT ![c] = {Contract!Held(req[c].id)}]
      BY <1>1, <2>4, NotedOthers
    <2>6. Contract!Runs(c)
      BY RunsOn
    <2> QED BY <1>2, <2>1, <2>5, <2>6 DEF Contract!Look
  <1>6. CASE pc'[c] = "put" /\ backend # "memory"
    <2>1. Noted(c)' = {} /\ Noted(c) = {}
      BY <1>2, <1>6 DEF Noted, GoesOn
    <2>2. [d \in Calls |-> Noted(d)]' = [d \in Calls |-> Noted(d)]
      BY <1>1, <2>1, NotedOthers
    <2>3. Lenient' = Lenient
      BY <1>2, LenientStays
    <2> QED BY <1>2, <2>2, <2>3 DEF Contract!vars
  <1> QED BY <1>5, <1>6 DEF GoesOn

LEMMA Ending ==
    ASSUME NEW c \in Calls, NEW rows, Ends(c, rows)
    PROVE  res'[c] = "ok" \/ res'[c] = "err"
  BY DEF Ends

LEMMA ContractStore ==
    ASSUME Basics, NEW c \in Calls, Moves(c), Store(c) \/ Put(c)
    PROVE  [Contract!Next]_(Contract!vars)
  <1>1. /\ TypeOK /\ Standing(c) /\ Choice(c) /\ pc[c] # "idle" /\ req[c].op = "store"
        /\ backend' = backend
    BY Frame, Stands DEF Basics, Moves
  <1>2. CASE Keeps(c) /\ Ends(c, {}) /\ res'[c] # "ok"
    BY <1>2, Failing DEF Keeps, Contract!Next
  <1>3. CASE Keeps(c) /\ Ends(c, {}) /\ res'[c] = "ok" /\ Hits(c) # {}
    <2>1. Contract!Tell(c, "ok", {}) /\ Contract!Runs(c)
      BY <1>3, Tells, RunsOn, Unions
    <2>2. UNCHANGED GroupsOf(table)
      BY <1>3 DEF Keeps, GroupsOf
    <2>3. Contract!Held(req[c].id) # {}
      BY <1>3, HeldHits
    <2> QED BY <1>1, <2>1, <2>2, <2>3 DEF Contract!Store, Contract!Next
  <1>4. CASE Stored(c) /\ Ends(c, {RowFor(c)}) /\ (Hits(c) = {} \/ (Put(c) /\ backend = "memory"))
    <2>1. GroupsOf(table)' = Contract!With(req[c]) /\ Contract!Runs(c)
      BY <1>1, <1>4, WithRow, RunsOn
    <2>2. Contract!MayAdd(c)
      <3>1. CASE Hits(c) = {}
        BY <3>1, HeldHits DEF Contract!MayAdd
      <3>2. CASE Put(c) /\ backend = "memory"
        <4>1. Noted(c) = {GroupsOf(sel[c])} /\ sel[c] = {}
          BY <1>1, <3>2, Stands DEF Noted, Choice
        <4> QED BY <4>1, Unions DEF Contract!MayAdd
      <3> QED BY <1>4, <3>1, <3>2
    <2>3. CASE res'[c] = "ok"
      <3>1. GroupsOf({RowFor(c)}) = {Contract!GroupOf(req[c])}
        <4>1. GroupOf(RowFor(c)) = GroupOf(req[c])
          BY <1>1, RowsType, NewRow
        <4> QED BY <4>1, Unions DEF Contract!GroupOf, GroupOf
      <3>2. Contract!Tell(c, "ok", {Contract!GroupOf(req[c])})
        BY <1>4, <2>3, <3>1, Tells
      <3> QED BY <1>1, <2>1, <2>2, <3>2 DEF Contract!Store, Contract!Next
    <2>4. CASE res'[c] # "ok"
      BY <1>1, <1>4, <2>1, <2>2, <2>4, Tells DEF Contract!Fail, Contract!Next
    <2> QED BY <2>3, <2>4
  <1>5. CASE /\ Store(c) /\ Keeps(c) /\ Hits(c) = {} /\ GoesOn(c, "put")
             /\ backend \notin Sql
    <2>1. pc[c] = "store" /\ sel'[c] = sel[c] /\ table' = table
      BY <1>1, <1>5, Stands DEF Keeps
    <2> QED BY <1>1, <1>5, <2>1, Looking DEF Contract!Next
  <1>6. CASE Store(c)
    BY <1>1, <1>2, <1>3, <1>4, <1>5, <1>6, Effects, Ending
  <1>7. CASE Put(c)
    <2>1. Keeps(c) /\ Ends(c, {}) /\ res'[c] = "err" => [Contract!Next]_(Contract!vars)
      BY <1>2
    <2> QED BY <1>1, <1>4, <1>7, <2>1, Effects
  <1> QED BY <1>6, <1>7

LEMMA ContractDelete ==
    ASSUME Basics, NEW c \in Calls, Moves(c), Delete(c) \/ Drop(c)
    PROVE  [Contract!Next]_(Contract!vars)
  <1>1. /\ TypeOK /\ Standing(c) /\ Choice(c) /\ pc[c] # "idle" /\ req[c].op = "delete"
        /\ backend' = backend
    BY Frame, Stands DEF Basics, Moves
  <1>2. /\ Contract!Runs(c)
        /\ Contract!Held(req[c].id) = GroupsOf(Hits(c))
        /\ Contract!Rest(req[c].id) = GroupsOf(table \ Hits(c))
    BY RunsOn, HeldHits
  <1>3. GroupsOf(table)' = GroupsOf(table')
    BY DEF GroupsOf, GroupOf
  <1>4. CASE table' = table \ Hits(c) /\ Ends(c, Hits(c))
    <2>1. GroupsOf(table)' = Contract!Rest(req[c].id)
      BY <1>2, <1>3, <1>4
    <2>2. CASE res'[c] = "ok"
      BY <1>1, <1>2, <1>4, <2>1, <2>2, Tells DEF Contract!Delete, Contract!Next
    <2>3. CASE res'[c] # "ok"
      BY <1>1, <1>2, <1>4, <2>1, <2>3, Tells DEF Contract!Fail, Contract!Next
    <2> QED BY <2>2, <2>3
  <1>5. CASE Delete(c)
    <2>1. CASE Removes(c, Hits(c)) /\ Ends(c, Hits(c))
      BY <1>4, <2>1 DEF Removes
    <2>2. CASE Selects(c) /\ Hits(c) = {} /\ Ends(c, {})
      BY <1>4, <2>2 DEF Selects
    <2>3. CASE Selects(c) /\ GoesOn(c, "drop") /\ backend \in Sql
      <3>1. pc[c] = "delete" /\ sel'[c] = Hits(c) /\ table' = table
        BY <1>1, <1>5, <2>3, Stands DEF Selects
      <3> QED BY <1>1, <2>3, <3>1, Looking DEF Contract!Next
    <2> QED BY <1>1, <1>5, <2>1, <2>2, <2>3, Effects
  <1>6. CASE Drop(c)
    <2>1. table' = table \ SameKey(sel[c]) /\ Ends(c, sel[c]) /\ pc[c] = "drop"
      BY <1>1, <1>6, Effects, Stands DEF Removes
    <2>2. table' \in {table, table \ Hits(c)}
      BY <2>1, SameKeyHits
    <2>3. GroupsOf(table)' \in {GroupsOf(table), Contract!Rest(req[c].id)}
      BY <1>2, <1>3, <2>2
    <2>4. Noted(c) = {GroupsOf(sel[c])}
      BY <2>1 DEF Noted
    <2>5. CASE res'[c] = "ok"
      <3>1. Contract!Tell(c, "ok", GroupsOf(sel[c]))
        BY <2>1, <2>5, Tells
      <3>2. \E seen \in [d \in Calls |-> Noted(d)][c] : Contract!Tell(c, "ok", seen)
        BY <2>4, <3>1
      <3> QED BY <1>1, <1>2, <2>3, <3>2 DEF Contract!Delete, Contract!Next
    <2>6. CASE res'[c] # "ok"
      <3>1. Contract!Tell(c, "err", {})
        BY <2>1, <2>6, Tells
      <3> QED BY <1>1, <1>2, <2>3, <3>1 DEF Contract!Fail, Contract!Next
    <2> QED BY <2>5, <2>6
  <1> QED BY <1>5, <1>6

LEMMA ContractUpdate ==
    ASSUME Basics, NEW c \in Calls, Moves(c), Update(c) \/ ChangeSelected(c)
    PROVE  [Contract!Next]_(Contract!vars)
  <1>1. /\ TypeOK /\ Standing(c) /\ pc[c] # "idle" /\ req[c].op = "update"
        /\ UNCHANGED <<backend, req>>
    BY Frame, Stands DEF Basics, Moves
  <1>2. Contract!Runs(c) /\ Contract!Held(req[c].id) = GroupsOf(Hits(c))
    BY RunsOn, HeldHits
  <1>3. CASE UNCHANGED table /\ Ends(c, {}) /\ (res'[c] = "ok" => Hits(c) = {})
    <2>1. CASE res'[c] = "ok"
      <3>1. UNCHANGED GroupsOf(table)
        BY <1>3 DEF GroupsOf
      <3>2. Contract!Tell(c, "ok", {}) /\ Contract!Held(req[c].id) = {}
        BY <1>2, <1>3, <2>1, Tells, Unions
      <3> QED BY <1>1, <1>2, <3>1, <3>2 DEF Contract!Update, Contract!Next
    <2>2. CASE res'[c] # "ok"
      BY <1>3, <2>2, Failing DEF Contract!Next
    <2> QED BY <2>1, <2>2
  <1>4. CASE Rewrite(c, Hits(c)) /\ Hits(c) # {} /\ Ends(c, {RowFor(c)})
    <2>1. GroupsOf(table)' = Contract!With(req[c]) /\ Contract!Held(req[c].id) # {}
      BY <1>1, <1>4, WithRow, HeldHits
    <2>2. CASE res'[c] = "ok"
      <3>1. GroupsOf({RowFor(c)}) = {Contract!GroupOf(req[c])}
        <4>1. GroupOf(RowFor(c)) = GroupOf(req[c])
          BY <1>1, RowsType, NewRow
        <4> QED BY <4>1, Unions DEF Contract!GroupOf, GroupOf
      <3>2. Contract!Tell(c, "ok", {Contract!GroupOf(req[c])})
        BY <1>4, <2>2, <3>1, Tells
      <3> QED BY <1>1, <1>2, <2>1, <3>2 DEF Contract!Update, Contract!Next
    <2>3. CASE res'[c] # "ok"
      BY <1>1, <1>2, <1>4, <2>1, <2>3, Tells DEF Contract!Fail, Contract!Next
    <2> QED BY <2>2, <2>3
  <1>5. CASE Selects(c) /\ GoesOn(c, "rewrite")
    <2>1. told' = [told EXCEPT ![c] = told'[c]] /\ res' = [res EXCEPT ![c] = res'[c]]
      BY <1>1, Frame DEF Moves
    <2>2. told' = [told EXCEPT ![c] = told[c]] /\ res' = [res EXCEPT ![c] = res[c]]
      BY <1>5, <2>1 DEF GoesOn
    <2>3. UNCHANGED <<told, res>>
      BY <1>1, <2>2 DEF TypeOK
    <2>4. UNCHANGED GroupsOf(table) /\ Lenient' = Lenient
      BY <1>1, <1>5, LenientStays DEF Selects, GroupsOf
    <2>5. Noted(c)' = {} /\ Noted(c) = {}
      <3>1. pc[c] \notin {"put", "drop"}
        BY <1>1 DEF Standing
      <3> QED BY <1>5, <3>1 DEF Noted, GoesOn
    <2>6. [d \in Calls |-> Noted(d)]' = [[d \in Calls |-> Noted(d)] EXCEPT ![c] = {}]
      BY <2>5, NotedOthers DEF Acts
    <2>7. [d \in Calls |-> Noted(d)]' = [d \in Calls |-> Noted(d)]
      BY <2>5, <2>6
    <2> QED BY <1>1, <2>3, <2>4, <2>7 DEF Contract!vars
  <1>6. CASE Update(c)
    BY <1>1, <1>3, <1>4, <1>5, <1>6, Effects DEF Keeps, Selects, Rewrites
  <1>7. CASE ChangeSelected(c)
    <2>1. CASE Keeps(c) /\ Ends(c, {}) /\ res'[c] = "err"
      BY <1>3, <2>1 DEF Keeps
    <2>2. CASE Rewrite(c, SameKey(sel[c])) /\ SameKey(sel[c]) # {} /\ Ends(c, {RowFor(c)})
      <3>1. SameKey(sel[c]) = Hits(c)
        BY <2>2, SameKeyHits
      <3> QED BY <1>4, <2>2, <3>1
    <2> QED BY <1>1, <1>7, <2>1, <2>2, Effects DEF Rewrites
  <1> QED BY <1>6, <1>7

LEMMA ContractQuery ==
    ASSUME Basics, NEW c \in Calls, Moves(c), Query(c) \/ QueryAll(c)
    PROVE  [Contract!Next]_(Contract!vars)
  <1> DEFINE rows == IF req[c].op = "query" THEN Hits(c) ELSE table
  <1>1. Keeps(c) /\ Ends(c, rows) /\ req[c].op \in {"query", "query_all"}
    BY Effects, Stands DEF Basics
  <1>2. UNCHANGED GroupsOf(table) /\ Contract!Runs(c)
    BY <1>1, RunsOn DEF Keeps, GroupsOf
  <1>3. CASE res'[c] = "ok"
    <2>1. Contract!Tell(c, "ok", GroupsOf(rows))
      BY <1>1, <1>3, Tells
    <2>2. CASE req[c].op = "query"
      BY <1>2, <2>1, <2>2, HeldHits DEF Contract!Query, Contract!Next
    <2>3. CASE req[c].op = "query_all"
      BY <1>2, <2>1, <2>3 DEF Contract!Query, Contract!Next
    <2> QED BY <1>1, <2>2, <2>3
  <1>4. CASE res'[c] # "ok"
    BY <1>1, <1>4, Failing DEF Keeps, Contract!Next
  <1> QED BY <1>3, <1>4

LEMMA ContractStart ==
    ASSUME Basics, NEW c \in Calls, NEW r \in Requests, Start(c, r)
    PROVE  Contract!Next
  <1>1. pc[c] = "idle" /\ pc'[c] = r.op /\ UNCHANGED <<backend, table, told, res>>
    BY StartFrame DEF Basics
  <1>2. req[c] = NoRequest /\ req' = [req EXCEPT ![c] = r] /\ Acts(c)
    BY <1>1 DEF Basics, Standing, Start, Acts
  <1>3. Noted(c)' = {} /\ Noted(c) = {}
    BY <1>1, GroupAssumption DEF Noted, GroupAssumption, Request, Ops
  <1>4. [d \in Calls |-> Noted(d)]' = [[d \in Calls |-> Noted(d)] EXCEPT ![c] = {}]
    BY <1>2, <1>3, NotedOthers
  <1>5. [d \in Calls |-> Noted(d)]' = [d \in Calls |-> Noted(d)]
    BY <1>3, <1>4
  <1>6. Lenient' = Lenient /\ UNCHANGED GroupsOf(table)
    BY <1>1, LenientStays DEF GroupsOf
  <1> QED BY <1>1, <1>2, <1>5, <1>6 DEF Contract!Ask, Contract!Next

LEMMA ContractStep == Basics /\ [Next]_vars => [Contract!Next]_(Contract!vars)
  <1>1. ASSUME Basics, NEW c \in Calls, Moves(c)
        PROVE  [Contract!Next]_(Contract!vars)
    <2>1. CASE Store(c) \/ Put(c)
      BY <1>1, <2>1, ContractStore
    <2>2. CASE Delete(c) \/ Drop(c)
      BY <1>1, <2>2, ContractDelete
    <2>3. CASE Update(c) \/ ChangeSelected(c)
      BY <1>1, <2>3, ContractUpdate
    <2>4. CASE Query(c) \/ QueryAll(c)
      BY <1>1, <2>4, ContractQuery
    <2>5. CASE Abandon(c)
      <3>1. Keeps(c) /\ Ends(c, {}) /\ res'[c] # "ok"
        BY <1>1, <2>5, Effects DEF Basics
      <3>2. Contract!Fail(c)
        BY <1>1, <3>1, Failing DEF Keeps
      <3> QED BY <3>2 DEF Contract!Next
    <2> QED BY <1>1, <2>1, <2>2, <2>3, <2>4, <2>5 DEF Moves, Step
  <1>2. ASSUME UNCHANGED vars
        PROVE  UNCHANGED Contract!vars
    BY <1>2 DEF vars, Contract!vars, Lenient, GroupsOf, Noted
  <1> QED BY <1>1, <1>2, ContractStart DEF Next, Moves

\* Every backend keeps the contract of the trait: a call that answers Ok has done
\* what it was asked in one step, one that answers Err has done it or nothing,
\* with the two exceptions that Lenient names.
THEOREM Implements == Spec => KeepsContract
  <1>1. IInv => Basics
    BY DEF IInv
  <1> QED BY <1>1, ContractInit, ContractStep, Invariance, PTL
          DEF Spec, KeepsContract, Contract!Spec
=============================================================================
