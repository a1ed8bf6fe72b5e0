---------------------------- MODULE GroupContract ----------------------------
(***************************************************************************)
(* What the trait GroupRepository promises: every call that answers Ok has *)
(* done what it was asked in one step, at some moment between its start    *)
(* and its answer, and one that answers Err has done it or nothing.        *)
(*                                                                         *)
(* "lenient" names the operations that are weaker than that: a call of one *)
(* of them may first look, and go by what it saw when it acts.             *)
(***************************************************************************)
CONSTANTS Calls, Requests, NoRequest

VARIABLES
    lenient,    \* the operations that look first; never changes
    groups,     \* the groups stored
    req,        \* what each call was asked
    noted,      \* what a call has seen of its group by looking first, if it has
    told,       \* the groups a call answers; those of a store are what it added
    res         \* how it ended

vars == <<lenient, groups, req, noted, told, res>>

GroupOf(r) == [id |-> r.id, data |-> r.data]

Held(i) == {g \in groups : g.id = i}
Rest(i) == {g \in groups : g.id # i}
With(r) == Rest(r.id) \cup {GroupOf(r)}

Ask(c, r) ==
    /\ req[c] = NoRequest
    /\ req' = [req EXCEPT ![c] = r]
    /\ UNCHANGED <<lenient, groups, noted, told, res>>

\* Only a call that was asked and has not answered does anything.
Runs(c) == req[c] # NoRequest /\ res[c] = "none" /\ UNCHANGED <<lenient, req>>

Look(c) ==
    /\ Runs(c)
    /\ req[c].op \in lenient
    /\ noted' = [noted EXCEPT ![c] = {Held(req[c].id)}]
    /\ UNCHANGED <<groups, told, res>>

Tell(c, result, answer) ==
    /\ res' = [res EXCEPT ![c] = result]
    /\ told' = [told EXCEPT ![c] = answer]
    /\ noted' = [noted EXCEPT ![c] = {}]

\* A store adds a group that is not there, or was not when it looked.
MayAdd(c) == Held(req[c].id) = {} \/ {} \in noted[c]

Store(c) ==
    /\ Runs(c)
    /\ req[c].op = "store"
    /\ \/ MayAdd(c) /\ groups' = With(req[c]) /\ Tell(c, "ok", {GroupOf(req[c])})
       \/ Held(req[c].id) # {} /\ Tell(c, "ok", {}) /\ UNCHANGED groups

\* A delete that looked answers what it saw, and may find the group gone or
\* replaced.
Delete(c) ==
    /\ Runs(c)
    /\ req[c].op = "delete"
    /\ \/ groups' = Rest(req[c].id) /\ Tell(c, "ok", Held(req[c].id))
       \/ /\ groups' \in {groups, Rest(req[c].id)}
          /\ \E seen \in noted[c] : Tell(c, "ok", seen)

Update(c) ==
    /\ Runs(c)
    /\ req[c].op = "update"
    /\ \/ /\ Held(req[c].id) # {}
          /\ groups' = With(req[c])
          /\ Tell(c, "ok", {GroupOf(req[c])})
       \/ Held(req[c].id) = {} /\ Tell(c, "ok", {}) /\ UNCHANGED groups

Query(c) ==
    /\ Runs(c)
    /\ \/ req[c].op = "query" /\ Tell(c, "ok", Held(req[c].id))
       \/ req[c].op = "query_all" /\ Tell(c, "ok", groups)
    /\ UNCHANGED groups

Fail(c) ==
    /\ Runs(c)
    /\ \/ UNCHANGED groups
       \/ req[c].op = "store" /\ MayAdd(c) /\ groups' = With(req[c])
       \/ req[c].op = "delete" /\ groups' = Rest(req[c].id)
       \/ req[c].op = "update" /\ Held(req[c].id) # {} /\ groups' = With(req[c])
    /\ Tell(c, "err", {})

Init ==
    /\ lenient \subseteq {"store", "delete"}
    /\ \A g, h \in groups : g.id = h.id => g = h
    /\ req = [c \in Calls |-> NoRequest]
    /\ noted = [c \in Calls |-> {}]
    /\ told = [c \in Calls |-> {}]
    /\ res = [c \in Calls |-> "none"]

Next ==
    \E c \in Calls :
        \/ \E r \in Requests : Ask(c, r)
        \/ Look(c) \/ Store(c) \/ Delete(c) \/ Update(c) \/ Query(c) \/ Fail(c)

Spec == Init /\ [][Next]_vars
=============================================================================
