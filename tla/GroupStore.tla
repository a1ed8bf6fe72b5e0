----------------------------- MODULE GroupStore -----------------------------
(***************************************************************************)
(* The group repositories.  The backends look and write in different ways: *)
(*   memory    store_group looks under the read lock and inserts under the *)
(*             write lock without looking again; the rest takes one lock   *)
(*   seaorm    store_group is one INSERT, whose unique violation is told   *)
(*             from other errors by the words of its message; delete_group *)
(*             and update_group SELECT, then write by primary key          *)
(*   mysql     the same, with a message that lacks those words             *)
(*   surreal   store_group SELECTs, then INSERTs a record of that key; the *)
(*             rest is one statement                                       *)
(***************************************************************************)
EXTENDS FiniteSets

CONSTANTS
    Calls,          \* the calls of a behaviour; each runs once
    Ids,
    Payloads,
    Unserializable, \* the payloads serde_json fails to write
    Requests,       \* what the calls are asked
    Seeds,          \* the groups a behaviour may start with
    Backends,
    Seed,
    NoRequest

Ops == {"store", "delete", "update", "query", "query_all"}

Group   == [id : Ids, data : Payloads]
Request == [op : Ops, id : Ids, data : Payloads]

\* A row; "by" is the call that inserted it: with the group's id, its primary key.
Row == [id : Ids, data : Payloads, by : Calls \cup {Seed}]

Sql == {"seaorm", "mysql"}

ASSUME GroupAssumption ==
    /\ Unserializable \subseteq Payloads
    /\ Requests \subseteq Request
    /\ Seeds \subseteq Group
    /\ \A g, h \in Seeds : g.id = h.id => g = h
    /\ Backends \subseteq {"memory", "surreal"} \cup Sql
    /\ Seed \notin Calls
    /\ NoRequest \notin Request

VARIABLES
    backend,    \* the implementation; never changes
    table,      \* the rows stored
    pc,         \* where each call stands: the access it is about to make
    req,        \* what it was asked
    sel,        \* the rows it has selected
    told,       \* the groups it has answered; those of a store are what it added
    res,        \* how it ended
    before      \* history: the calls that had returned when it started

vars == <<backend, table, pc, req, sel, told, res, before>>

Labels == Ops \cup {"idle", "put", "drop", "rewrite", "done"}

TypeOK ==
    /\ backend \in Backends
    /\ table \subseteq Row
    /\ pc \in [Calls -> Labels]
    /\ req \in [Calls -> Request \cup {NoRequest}]
    /\ sel \in [Calls -> SUBSET Row]
    /\ told \in [Calls -> SUBSET Group]
    /\ res \in [Calls -> {"none", "ok", "err"}]
    /\ before \in [Calls -> SUBSET Calls]

-----------------------------------------------------------------------------
(* Rows and groups *)

\* Mutant of GroupOf: the primary key stays in what is answered.
WholeRow(r) == r

GroupOf(r) == [id |-> r.id, data |-> r.data]
RowFor(c)  == [id |-> req[c].id, data |-> req[c].data, by |-> c]

GroupsOf(rows) == {GroupOf(r) : r \in rows}

\* ActiveModel::from writes an empty text for a payload that does not
\* serialize, and into_payload fails on it: such a row is there, and is not
\* read back.  The memory repository keeps the value itself.
Readable(rows) == backend \in Sql => \A r \in rows : r.data \notin Unserializable

Hits(c) == {r \in table : r.id = req[c].id}

-----------------------------------------------------------------------------
(* Building blocks of a call's steps *)

At(c, label) == pc[c] = label /\ UNCHANGED <<backend, req, before>>

Goto(c, label) == pc' = [pc EXCEPT ![c] = label] /\ UNCHANGED <<told, res>>

Err(c) ==
    /\ pc' = [pc EXCEPT ![c] = "done"]
    /\ res' = [res EXCEPT ![c] = "err"]
    /\ UNCHANGED told

\* The answer of a database may be lost, the work being done.
Return(c, rows) ==
    \/ /\ pc' = [pc EXCEPT ![c] = "done"]
       /\ res' = [res EXCEPT ![c] = "ok"]
       /\ told' = [told EXCEPT ![c] = GroupsOf(rows)]
    \/ backend # "memory" /\ Err(c)

\* Rows are answered once all of them convert.
Answer(c, rows) == IF Readable(rows) THEN Return(c, rows) ELSE Err(c)

Insert(c) == table' = table \cup {RowFor(c)}

Replace(c) == table' = (table \ Hits(c)) \cup {RowFor(c)}

\* UPDATE by primary key: the row keeps it.
Rewrite(c, rows) ==
    table' = (table \ rows) \cup {[r EXCEPT !.data = req[c].data] : r \in rows}

Start(c, r) ==
    /\ pc[c] = "idle"
    /\ req' = [req EXCEPT ![c] = r]
    /\ before' = [before EXCEPT ![c] = {d \in Calls : pc[d] = "done"}]
    /\ Goto(c, r.op)
    /\ UNCHANGED <<backend, table, sel>>

-----------------------------------------------------------------------------
(* store_group *)

\* Mutant of Occupied: nobody looks.
NothingIsSeen(c) == FALSE

Occupied(c) == Hits(c) # {}

\* The first access: the INSERT of SeaORM, the look of the others.
Store(c) ==
    /\ At(c, "store")
    /\ \/ /\ backend \in {"memory", "surreal"}
          /\ IF Occupied(c) THEN Return(c, {}) ELSE Goto(c, "put")
          /\ UNCHANGED table
       \/ /\ backend \in Sql
          /\ Hits(c) = {}
          /\ Insert(c)
          /\ Return(c, {RowFor(c)})
       \/ /\ backend \in Sql
          /\ Hits(c) # {}
          /\ IF backend = "seaorm" THEN Return(c, {}) ELSE Err(c)
          /\ UNCHANGED table
    /\ UNCHANGED sel

\* HashMap::insert replaces what is there by now; the INSERT of SurrealDB fails
\* on it, and a content that does not serialize is not sent.
Put(c) ==
    /\ At(c, "put")
    /\ IF backend = "memory" THEN Replace(c) /\ Return(c, {RowFor(c)})
       ELSE IF Hits(c) # {} \/ req[c].data \in Unserializable
            THEN Err(c) /\ UNCHANGED table
            ELSE Insert(c) /\ Return(c, {RowFor(c)})
    /\ UNCHANGED sel

-----------------------------------------------------------------------------
(* delete_group *)

Delete(c) ==
    /\ At(c, "delete")
    /\ \/ /\ backend \notin Sql
          /\ table' = table \ Hits(c)
          /\ Answer(c, Hits(c))
          /\ UNCHANGED sel
       \/ /\ backend \in Sql
          /\ sel' = [sel EXCEPT ![c] = Hits(c)]
          /\ IF Hits(c) = {} THEN Answer(c, {}) ELSE Goto(c, "drop")
          /\ UNCHANGED table

SameKey(rows) == {r \in table : \E s \in rows : s.by = r.by /\ s.id = r.id}

\* DELETE by primary key: that no row is left is not an error, and what is
\* answered is the row as it was selected.
Drop(c) ==
    /\ At(c, "drop")
    /\ table' = table \ SameKey(sel[c])
    /\ Answer(c, sel[c])
    /\ UNCHANGED sel

-----------------------------------------------------------------------------
(* update_group *)

Update(c) ==
    /\ At(c, "update")
    /\ \/ /\ backend \notin Sql
          /\ Hits(c) # {}
          /\ IF backend = "surreal" /\ req[c].data \in Unserializable
             THEN Err(c) /\ UNCHANGED table
             ELSE Rewrite(c, Hits(c)) /\ Return(c, {RowFor(c)})
          /\ UNCHANGED sel
       \/ /\ backend \notin Sql
          /\ Hits(c) = {}
          /\ IF backend = "surreal" /\ req[c].data \in Unserializable
             THEN Err(c) ELSE Return(c, {})
          /\ UNCHANGED <<table, sel>>
       \/ /\ backend \in Sql
          /\ sel' = [sel EXCEPT ![c] = Hits(c)]
          /\ IF Hits(c) = {} THEN Return(c, {}) ELSE Goto(c, "rewrite")
          /\ UNCHANGED table

\* Mutant of Change: ActiveModel::save, a missing row is inserted.
InsertOrUpdate(c) ==
    /\ table' = (table \ Hits(c)) \cup {RowFor(c)}
    /\ Answer(c, {RowFor(c)})

\* ActiveModel::update: that no row has this key any more is an error.  The row
\* is answered as it is read back, after the UPDATE.
Change(c) ==
    IF SameKey(sel[c]) = {} THEN Err(c) /\ UNCHANGED table
    ELSE Rewrite(c, SameKey(sel[c])) /\ Answer(c, {RowFor(c)})

ChangeSelected(c) == At(c, "rewrite") /\ Change(c) /\ UNCHANGED sel

-----------------------------------------------------------------------------
(* query_group_by_id and query_all_groups *)

\* Mutant of Query: a row that does not convert is left out of the answer.
QuerySkipsUnreadable(c) ==
    /\ At(c, "query")
    /\ Return(c, {r \in Hits(c) : Readable({r})})
    /\ UNCHANGED <<table, sel>>

Query(c) == At(c, "query") /\ Answer(c, Hits(c)) /\ UNCHANGED <<table, sel>>

QueryAll(c) == At(c, "query_all") /\ Answer(c, table) /\ UNCHANGED <<table, sel>>

-----------------------------------------------------------------------------
\* An access fails and has done nothing (one of SurrealDB may be the use_ns_db
\* every call begins with), or the caller drops the future of a call that
\* waits, for a database or for a lock.
Abandon(c) ==
    /\ pc[c] \notin {"idle", "done"}
    /\ Err(c)
    /\ UNCHANGED <<backend, table, req, sel, before>>

Init ==
    /\ backend \in Backends
    /\ table \in {{[id |-> g.id, data |-> g.data, by |-> Seed] : g \in S} : S \in {{}, Seeds}}
    /\ pc = [c \in Calls |-> "idle"]
    /\ req = [c \in Calls |-> NoRequest]
    /\ sel = [c \in Calls |-> {}]
    /\ told = [c \in Calls |-> {}]
    /\ res = [c \in Calls |-> "none"]
    /\ before = [c \in Calls |-> {}]

Step(c) ==
    \/ Store(c) \/ Put(c) \/ Delete(c) \/ Drop(c) \/ Update(c) \/ ChangeSelected(c)
    \/ Query(c) \/ QueryAll(c)

Next ==
    \E c \in Calls : (\E r \in Requests : Start(c, r)) \/ Step(c) \/ Abandon(c)

Spec == Init /\ [][Next]_vars

-----------------------------------------------------------------------------
(* Properties *)

Added(c)  == req[c].op = "store" /\ res[c] = "ok" /\ told[c] # {}
Changed(c) == req[c].op = "update" /\ res[c] = "ok" /\ told[c] # {}

\* The calls that were running or still to come when call d started, of the
\* given kinds and for the given group.
Since(d, kinds, i) ==
    {c \in Calls \ (before[d] \cup {d}) :
        req[c] # NoRequest /\ req[c].op \in kinds /\ req[c].id = i}

Reads(q) == req[q] # NoRequest /\ req[q].op \in {"query", "query_all"} /\ res[q] = "ok"

(***************************************************************************)
(* What was deleted stays gone: a query that starts after a delete_group   *)
(* returned Ok, with a group or without, finds the group only if some      *)
(* store_group of it ran since the delete began; an update_group that had  *)
(* selected the row does not bring it back, nor does one that starts late. *)
(***************************************************************************)
DeletedStaysGone ==
    \A q, d \in Calls :
        /\ Reads(q)
        /\ d \in before[q] /\ req[d].op = "delete" /\ res[d] = "ok"
        /\ \E g \in told[q] : g.id = req[d].id
        => Since(d, {"store"}, req[d].id) # {}

\* The calls that may rightly undo what call w wrote: an update or a delete that
\* ran since w began, and a store that ran along with it, for one that starts
\* after w has returned finds the group there.
Undoers(w) ==
    Since(w, {"update", "delete"}, req[w].id)
        \cup {c \in Since(w, {"store"}, req[w].id) : w \notin before[c]}

(***************************************************************************)
(* What was written is read: a query that starts after a store_group       *)
(* answered true, or an update_group the group, answers what was written,  *)
(* if no other call may have changed it: a store_group that finds a group  *)
(* leaves it alone ("no change"), in whichever steps the backend looks.    *)
(***************************************************************************)
AckedWriteSticks ==
    \A q, w \in Calls :
        /\ Reads(q)
        /\ w \in before[q] /\ (Added(w) \/ Changed(w))
        /\ req[q].op = "query" => req[q].id = req[w].id
        /\ Undoers(w) = {}
        => GroupOf(req[w]) \in told[q]

-----------------------------------------------------------------------------
(* The contract of the trait *)

\* Where the code goes by what it saw in an access of its own: the store of the
\* memory repository and the delete of SeaORM.
Lenient ==
    IF backend = "memory" THEN {"store"} ELSE IF backend \in Sql THEN {"delete"} ELSE {}

Noted(c) ==
    IF (pc[c] = "put" /\ backend = "memory") \/ pc[c] = "drop"
    THEN {GroupsOf(sel[c])} ELSE {}

Contract == INSTANCE GroupContract WITH
    lenient <- Lenient,
    groups  <- GroupsOf(table),
    noted   <- [c \in Calls |-> Noted(c)]

(***************************************************************************)
(* The repositories keep what the trait says of them: each call answers as *)
(* if it had run alone, at one moment between its start and its answer,    *)
(* and one that answers Err has done all or nothing, except that a store   *)
(* of the memory repository may replace a group stored while it ran and    *)
(* a delete of SeaORM may answer a group that is no longer what it removes *)
(* (a delete, an update or a store ran along with it).                     *)
(***************************************************************************)
KeepsContract == Contract!Spec
=============================================================================
