-------------------------- MODULE PermissionRegistry --------------------------
(***************************************************************************)
(* The permission mapping repositories: the registry that leads from the   *)
(* id of a permission back to its name.                                    *)
(*                                                                         *)
(* An id is a hash of the normalized name, so that a mapping is wrong when *)
(* its parts do not fit, and two names may have one id.  The backends look *)
(* and write in different ways:                                            *)
(*   memory    store_mapping looks under the read lock, then looks again   *)
(*             and inserts under the write lock; the rest takes one lock   *)
(*   seaorm    INSERT ... ON CONFLICT DO NOTHING, then SELECT; removals    *)
(*             SELECT, then DELETE by primary key, a single one in a       *)
(*             transaction, a bulk one not; a bulk store SELECTs first     *)
(*   surreal   one statement per mapping stored, an UPSERT, and one per    *)
(*             removal                                                     *)
(***************************************************************************)
EXTENDS Naturals, Sequences, FiniteSets

CONSTANTS
    Calls,          \* the calls of a behaviour; each runs once
    Names,          \* permission names, normalized
    Ids,
    Hash,           \* the id of each name
    Lists,          \* the lists of mappings that are stored, singletons for one
    Targets,        \* what removals and queries are given
    SeedNames,      \* the names registered when the behaviour starts
    Backends,
    Ops,            \* the kinds of calls made
    MaxLen,         \* the longest list
    Seed,
    NoTarget

Mapping == [name : Names, id : Ids]

\* A row; "by" is the call that inserted it and stands for its primary key.
Row == [name : Names, id : Ids, by : Calls \cup {Seed}]

\* All ids ask for all mappings; one id, or a name, is what one removal takes.
Target == [kind : {"ids"}, ids : SUBSET Ids] \cup [kind : {"name"}, name : Names]

AllOps == {"store", "store_all", "remove", "remove_all", "query"}

ASSUME RegistryAssumption ==
    /\ Hash \in [Names -> Ids]
    /\ MaxLen \in Nat
    /\ \A l \in Lists : l \in Seq(Mapping) /\ Len(l) <= MaxLen
    /\ Targets \subseteq Target
    /\ SeedNames \subseteq Names
    /\ \A m, n \in SeedNames : Hash[m] = Hash[n] => m = n
    /\ Backends \subseteq {"memory", "seaorm", "surreal"}
    /\ Ops \subseteq AllOps
    /\ Seed \notin Calls
    /\ NoTarget \notin Target

VARIABLES
    backend,    \* the implementation; never changes
    isolated,   \* whether the SQL transactions are serializable; never changes
    table,      \* the rows stored
    pc,         \* where each call stands: the access it is about to make
    op,         \* the operation it is a call of
    list,       \* the mappings it stores
    target,     \* the rows it removes or queries
    sel,        \* the rows it has selected
    count,      \* SurrealDB: how many of its list it has stored
    told,       \* the mappings it has answered, if its answer is Ok
    res,        \* how it ended
    before      \* history: the calls that had returned when it started

args == <<op, list, target, before>>
vars == <<backend, isolated, table, pc, op, list, target, sel, count, told, res, before>>

Labels == {"idle", "store", "put", "fetch", "store_all", "insert_all", "remove", "drop",
           "query", "done"}

Results == {"none", "ok", "invalid", "err"}

TypeOK ==
    /\ backend \in Backends
    /\ isolated \in BOOLEAN
    /\ table \subseteq Row
    /\ pc \in [Calls -> Labels]
    /\ op \in [Calls -> AllOps \cup {"none"}]
    /\ list \in [Calls -> Seq(Mapping)]
    /\ target \in [Calls -> Target \cup {NoTarget}]
    /\ sel \in [Calls -> SUBSET Row]
    /\ count \in [Calls -> Nat]
    /\ told \in [Calls -> SUBSET Mapping]
    /\ res \in [Calls -> Results]
    /\ before \in [Calls -> SUBSET Calls]

-----------------------------------------------------------------------------
(* Rows and mappings *)

RowOf(m, c)  == [name |-> m.name, id |-> m.id, by |-> c]
\* Mutant of MappingOf: the primary key stays in what is answered.
WholeRow(r) == r

MappingOf(r) == [name |-> r.name, id |-> r.id]

\* PermissionMapping::validate; one that was deserialized may fail it.
Valid(m) == m.id = Hash[m.name]

Elements(l) == {l[k] : k \in DOMAIN l}

Taken(i) == \E r \in table : r.id = i

\* Mutant of News: what an earlier mapping of the list has taken is not seen.
ChecksTableOnly(l, skip) == {m \in Elements(l) : m.id \notin skip /\ ~Taken(m.id)}

\* The mappings of a list that a sequence of inserts adds, where one that finds
\* its id taken does nothing; those with an id in "skip" are not tried.
News(l, skip) ==
    {l[k] : k \in {j \in DOMAIN l :
        l[j].id \notin skip /\ ~Taken(l[j].id) /\ \A h \in 1..(j - 1) : l[h].id # l[j].id}}

Insert(c, ms) == table' = table \cup {RowOf(m, c) : m \in ms}

Covers(t, m) == IF t.kind = "ids" THEN m.id \in t.ids ELSE m.name = t.name

Hits(c) == {r \in table : Covers(target[c], r)}

-----------------------------------------------------------------------------
(* Building blocks of a call's steps *)

Goto(c, label) == pc' = [pc EXCEPT ![c] = label] /\ UNCHANGED <<told, res>>

\* The answer of a database may be lost, the work being done.
Return(c, result, answer) ==
    /\ pc' = [pc EXCEPT ![c] = "done"]
    /\ \/ /\ res' = [res EXCEPT ![c] = result]
          /\ told' = [told EXCEPT ![c] = answer]
       \/ /\ backend # "memory"
          /\ res' = [res EXCEPT ![c] = "err"]
          /\ UNCHANGED told

Answer(c, rows) == Return(c, "ok", {MappingOf(r) : r \in rows})

At(c, label) == pc[c] = label /\ UNCHANGED <<backend, isolated, args>>

Start(c, kind) ==
    /\ kind \in Ops
    /\ pc[c] = "idle"
    /\ op' = [op EXCEPT ![c] = kind]
    /\ before' = [before EXCEPT ![c] = {d \in Calls : pc[d] = "done"}]
    /\ UNCHANGED <<backend, isolated, table, sel, count>>

-----------------------------------------------------------------------------
(* store_mapping and store_mappings *)

\* Every mapping is validated before the first access, except that SurrealDB
\* validates those of a list one by one.
StoreStart(c, kind, l) ==
    /\ kind \in {"store", "store_all"}
    /\ kind = "store" => Len(l) = 1
    /\ Start(c, kind)
    /\ list' = [list EXCEPT ![c] = l]
    /\ IF (\A m \in Elements(l) : Valid(m)) \/ (kind = "store_all" /\ backend = "surreal")
       THEN Goto(c, kind)
       ELSE Return(c, "invalid", {})
    /\ UNCHANGED target

\* Mutant of Put: the second look is left out.
PutWithoutLooking(c) ==
    /\ table' = {r \in table : r.id # list[c][1].id} \cup {RowOf(list[c][1], c)}
    /\ Return(c, "ok", Elements(list[c]))

\* memory, under the write lock: the key is looked up again.
Put(c) ==
    /\ Insert(c, News(list[c], {}))
    /\ Return(c, "ok", News(list[c], {}))

\* Mutant of Upsert: what is there stays.
InsertOrIgnore(c, m) == Insert(c, News(<<m>>, {}))

\* SurrealDB, by record key: what is there is replaced.
Upsert(c, m) == table' = {r \in table : r.id # m.id} \cup {RowOf(m, c)}

\* The first access of store_mapping.
Store(c) ==
    /\ At(c, "store")
    /\ \/ /\ backend = "memory"
          /\ IF Taken(list[c][1].id) THEN Return(c, "ok", {}) ELSE Goto(c, "put")
          /\ UNCHANGED table
       \/ /\ backend = "seaorm"
          /\ Insert(c, News(list[c], {}))
          /\ Goto(c, "fetch")
       \/ /\ backend = "surreal"
          /\ Upsert(c, list[c][1])
          /\ Return(c, "ok", Elements(list[c]))
    /\ UNCHANGED <<sel, count>>

PutOne(c) == At(c, "put") /\ Put(c) /\ UNCHANGED <<sel, count>>

\* SeaORM: the row of that id is fetched, whoever inserted it.
Fetch(c) ==
    /\ At(c, "fetch")
    /\ Answer(c, {r \in table : r.id = list[c][1].id})
    /\ UNCHANGED <<table, sel, count>>

\* The first access of store_mappings: memory stores them all under one lock,
\* SeaORM selects those that are there, SurrealDB stores one of them.
StoreAll(c) ==
    /\ At(c, "store_all")
    /\ \/ /\ backend = "memory"
          /\ Put(c)
          /\ UNCHANGED <<sel, count>>
       \/ /\ backend = "seaorm"
          /\ sel' = [sel EXCEPT ![c] = {r \in table : \E m \in Elements(list[c]) : m.id = r.id}]
          /\ IF \A m \in Elements(list[c]) : Taken(m.id)
             THEN Return(c, "ok", {}) ELSE Goto(c, "insert_all")
          /\ UNCHANGED <<table, count>>
       \/ /\ backend = "surreal"
          /\ count[c] < Len(list[c])
          /\ LET m == list[c][count[c] + 1] IN
             IF Valid(m)
             THEN /\ Upsert(c, m)
                  /\ count' = [count EXCEPT ![c] = @ + 1]
                  /\ Goto(c, "store_all")
             ELSE Return(c, "err", {}) /\ UNCHANGED <<table, count>>
          /\ UNCHANGED sel
       \/ /\ backend = "surreal"
          /\ count[c] = Len(list[c])
          /\ Return(c, "ok", Elements(list[c]))
          /\ UNCHANGED <<table, sel, count>>

\* SeaORM: what was not there is inserted, and answered whether or not another
\* call has inserted it since.
InsertAll(c) ==
    LET seen == {r.id : r \in sel[c]} IN
    /\ At(c, "insert_all")
    /\ Insert(c, News(list[c], seen))
    /\ Return(c, "ok", {m \in Elements(list[c]) : m.id \notin seen})
    /\ UNCHANGED <<sel, count>>

-----------------------------------------------------------------------------
(* remove_mapping_by_id, remove_mapping_by_string and remove_mappings_by_ids *)

RemoveStart(c, kind, t) ==
    /\ kind \in {"remove", "remove_all"}
    /\ t.kind = "ids" => kind = "remove_all" \/ Cardinality(t.ids) = 1
    /\ t.kind = "name" => kind = "remove"
    /\ Start(c, kind)
    /\ target' = [target EXCEPT ![c] = t]
    /\ Goto(c, "remove")
    /\ UNCHANGED list

\* Mutant of SelectsFirst: the statement of SurrealDB is two as well.
SelectsFirstInEveryDatabase(c) == backend # "memory" /\ ~(isolated /\ op[c] = "remove")

\* SeaORM selects in a statement of its own; a serializable transaction makes
\* one step of it and the DELETE.
SelectsFirst(c) == backend = "seaorm" /\ ~(isolated /\ op[c] = "remove")

\* Mutant of Delete: the rows are answered and stay.
Peek(rows) == UNCHANGED table

Delete(rows) == table' = table \ rows

Remove(c) ==
    /\ At(c, "remove")
    /\ \/ /\ ~SelectsFirst(c)
          /\ Delete(Hits(c))
          /\ Answer(c, Hits(c))
          /\ UNCHANGED sel
       \/ /\ SelectsFirst(c)
          /\ sel' = [sel EXCEPT ![c] = Hits(c)]
          /\ IF Hits(c) = {} THEN Answer(c, {}) ELSE Goto(c, "drop")
          /\ UNCHANGED table
    /\ UNCHANGED count

\* DELETE by primary key (and COMMIT); that no row is left is not an error.
Drop(c) ==
    /\ At(c, "drop")
    /\ Delete(sel[c])
    /\ Answer(c, sel[c])
    /\ UNCHANGED <<sel, count>>

-----------------------------------------------------------------------------
(* query_mapping_by_id, query_mapping_by_string and query_mappings_by_ids *)

QueryStart(c, t) ==
    /\ Start(c, "query")
    /\ target' = [target EXCEPT ![c] = t]
    /\ Goto(c, "query")
    /\ UNCHANGED list

Query(c) ==
    /\ At(c, "query")
    /\ Answer(c, Hits(c))
    /\ UNCHANGED <<table, sel, count>>

-----------------------------------------------------------------------------
\* An access fails and has done nothing, or the caller drops the future of a
\* call that waits, for a database or for a lock.
Abandon(c) ==
    /\ pc[c] \notin {"idle", "done"}
    /\ Return(c, "err", {})
    /\ UNCHANGED <<backend, isolated, table, args, sel, count>>

Init ==
    /\ backend \in Backends
    /\ isolated \in BOOLEAN
    /\ isolated => backend = "seaorm"
    /\ table = {RowOf([name |-> n, id |-> Hash[n]], Seed) : n \in SeedNames}
    /\ pc = [c \in Calls |-> "idle"]
    /\ op = [c \in Calls |-> "none"]
    /\ list = [c \in Calls |-> <<>>]
    /\ target = [c \in Calls |-> NoTarget]
    /\ sel = [c \in Calls |-> {}]
    /\ count = [c \in Calls |-> 0]
    /\ told = [c \in Calls |-> {}]
    /\ res = [c \in Calls |-> "none"]
    /\ before = [c \in Calls |-> {}]

StartCall(c) ==
    \/ \E kind \in Ops, l \in Lists : StoreStart(c, kind, l)
    \/ \E kind \in Ops, t \in Targets : RemoveStart(c, kind, t)
    \/ \E t \in Targets : QueryStart(c, t)

Step(c) ==
    \/ Store(c) \/ PutOne(c) \/ Fetch(c) \/ StoreAll(c) \/ InsertAll(c)
    \/ Remove(c) \/ Drop(c) \/ Query(c)

Next == \E c \in Calls : StartCall(c) \/ Step(c) \/ Abandon(c)

Spec == Init /\ [][Next]_vars

-----------------------------------------------------------------------------
(* Properties *)

Answered(c, kinds, m) == op[c] \in kinds /\ res[c] = "ok" /\ m \in told[c]
Stores(c)  == op[c] \in {"store", "store_all"}
Removes(c) == op[c] \in {"remove", "remove_all"}

IsSeed(m)  == m.name \in SeedNames /\ Valid(m)
Once(b)    == IF b THEN 1 ELSE 0

\* The calls told that they stored m, and those told that they removed it.
Storers(m)  == {c \in Calls : Answered(c, {"store", "store_all"}, m)}
Removers(m) == {c \in Calls : Answered(c, {"remove", "remove_all"}, m)}

(***************************************************************************)
(* An id leads to one name, the name it is the id of, whatever is stored,  *)
(* in whatever order and by whichever backend: what is read back converts  *)
(* (the TryFrom of a row builds a mapping that validates) and a name found *)
(* for an id of a permission set is one that grants it.                    *)
(***************************************************************************)
OneToOne ==
    \A r \in table : Valid(r) /\ \A s \in table : s.id = r.id => s = r

(***************************************************************************)
(* In memory the answers add up: however stores, removals and dropped      *)
(* calls interleave, every mapping told stored is registered or was told   *)
(* removed, once: no store is told a success it shares, or one that a      *)
(* later store undid (store_mapping looks again under the write lock).     *)
(***************************************************************************)
LockedIsBalanced ==
    backend = "memory" =>
    \A m \in Mapping :
        Once(IsSeed(m)) + Cardinality(Storers(m))
            = Once(\E r \in table : MappingOf(r) = m) + Cardinality(Removers(m))

\* The removals that see and delete in one step: those of memory and SurrealDB,
\* and the one in a serializable transaction.
Atomic(c) == backend \in {"memory", "surreal"} \/ (isolated /\ op[c] = "remove")

(***************************************************************************)
(* Of the removals that see and delete at once, no two are told the same   *)
(* mapping, unless it was stored between them ("make the read-then-delete  *)
(* atomic and avoid races"): each that is told a mapping uses up the seed  *)
(* or a mapping some call was given to store.                              *)
(***************************************************************************)
RemovedOnce ==
    \A m \in Mapping :
        Cardinality({c \in Removers(m) : Atomic(c)})
            <= Once(IsSeed(m)) + Cardinality({p \in Calls \X (1..MaxLen) :
                                   p[2] \in DOMAIN list[p[1]] /\ list[p[1]][p[2]] = m})

(***************************************************************************)
(* What a store was told is there is found: a query that starts after it,  *)
(* by id or by name, tells the mapping, if no removal of it and no store   *)
(* of another name with its id ran since the store began.                  *)
(***************************************************************************)
StoredIsFound ==
    \A q, s \in Calls : \A m \in told[s] :
        /\ op[q] = "query" /\ res[q] = "ok" /\ Covers(target[q], m)
        /\ Stores(s) /\ s \in before[q]
        /\ \A d \in Calls \ before[s] :
              /\ Removes(d) => ~Covers(target[d], m)
              /\ Stores(d) => \A n \in Elements(list[d]) : n.id = m.id => n = m
        => m \in told[q]

(***************************************************************************)
(* What was removed is gone: a query that starts after a removal returned  *)
(* Ok does not tell a mapping it was asked to remove, if no call stores it *)
(* since the removal began, in whichever steps the backend removes.        *)
(***************************************************************************)
RemovedIsGone ==
    \A q, r \in Calls : \A m \in told[q] :
        /\ op[q] = "query"
        /\ Removes(r) /\ res[r] = "ok" /\ r \in before[q]
        /\ Covers(target[r], m)
        => \E d \in Calls \ before[r] : Stores(d) /\ m \in Elements(list[d])
=============================================================================
