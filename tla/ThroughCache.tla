---------------------------- MODULE ThroughCache ----------------------------
(***************************************************************************)
(* Dictionaries, perspectives and lexical entries behind the cache of      *)
(* cache/through/cache.py.  A mutation takes its object from Redis, or     *)
(* from the database with a fill of Redis; checks the mark of that copy;   *)
(* assigns; flushes the columns that changed; writes the whole copy to     *)
(* Redis; and its transaction commits or is rolled back only after that.   *)
(* One action is one access to Redis or to the database.  Requests for     *)
(* different objects come in any order; so do those for one object of the  *)
(* set Crowded, for others only fills come together, and requests that     *)
(* take the row from the database.                                         *)
(***************************************************************************)
CONSTANTS
    Dictionary, Perspective, Entry,
    Parent,         \* Parent[p]: the dictionary of a perspective
    Value,          \* of a column that is assigned: a state, a parent, a gist
    Key,            \* keys of additional_metadata
    Hooked,         \* those that a dictionary hands to its perspectives (location, authors...)
    Crowded,        \* objects whose requests overlap in any way
    Request,        \* processes that serve requests
    Absent

Object == Dictionary \cup Perspective \cup Entry
Row == [mark : BOOLEAN, value : Value, meta : SUBSET Key]

ASSUME KindAssumption ==
    /\ Dictionary \cap Perspective = {} /\ Dictionary \cap Entry = {} /\ Perspective \cap Entry = {}
    /\ Parent \in [Perspective -> Dictionary]
ASSUME AbsentAssumption == Absent \notin Row \cup Object

VARIABLES
    row,            \* the committed rows
    cache,          \* the pickled objects in Redis
    pc, op, obj,    \* what each request is doing, to which object
    copy,           \* its object in the session
    changed,        \* the columns its UPDATE writes
    hook,           \* the metadata it writes to the perspectives of its dictionary
    dirty           \* objects whose copy in Redis was left by a request rolled back

vars == <<row, cache, pc, op, obj, copy, changed, hook, dirty>>

RowOp == {"delete_row", "undelete_row"}
ThroughOp(o) ==
    {"read"} \cup (IF o \in Entry THEN {} ELSE {"update", "status", "roles"})
             \cup (IF o \in Perspective THEN {} ELSE {"delete"})
             \cup (IF o \in Dictionary THEN {"undelete"} ELSE {})
Op == RowOp \cup {"read", "update", "status", "roles", "delete", "undelete"}
Column == {"mark", "value", "meta"}
NoHook == [p \in {} |-> {}]

TypeOK ==
    /\ row \in [Object -> Row]
    /\ cache \in [Object -> Row \cup {Absent}]
    /\ pc \in [Request -> {"idle", "miss", "fill", "held", "flush", "flushed", "put"}]
    /\ op \in [Request -> Op]
    /\ obj \in [Request -> Object \cup {Absent}]
    /\ copy \in [Request -> Row \cup {Absent}]
    /\ changed \in [Request -> SUBSET Column]
    /\ hook \in [Request -> UNION {[S -> SUBSET Key] : S \in SUBSET Perspective}]
    /\ dirty \subseteq Object

Init ==
    /\ row \in [Object -> {x \in Row : ~x.mark /\ x.meta = {}}]
    /\ cache = [o \in Object |-> Absent]
    /\ pc = [r \in Request |-> "idle"]
    /\ op = [r \in Request |-> "read"]
    /\ obj = [r \in Request |-> Absent]
    /\ copy = [r \in Request |-> Absent]
    /\ changed = [r \in Request |-> {}]
    /\ hook = [r \in Request |-> NoHook]
    /\ dirty = {}

-----------------------------------------------------------------------------
(* Nothing in the code keeps requests for one object apart: for an object that is not  *)
(* in Crowded it is an assumption, and the properties say so.                          *)
Together(p, q) == {p, q} = {"read"} \/ {p, q} \subseteq RowOp

MayBegin(r, p, o) ==
    /\ pc[r] = "idle"
    /\ o \in Crowded \/ \A s \in Request : pc[s] # "idle" /\ obj[s] = o => Together(p, op[s])

(* A slip: the kind of request and its object change places. *)
Begun_Swapped(r, p, o) ==
    /\ op' = [op EXCEPT ![r] = o]
    /\ obj' = [obj EXCEPT ![r] = p]
    /\ UNCHANGED <<row, cache, changed, hook, dirty>>

Begun(r, p, o) ==
    /\ op' = [op EXCEPT ![r] = p]
    /\ obj' = [obj EXCEPT ![r] = o]
    /\ UNCHANGED <<row, cache, changed, hook, dirty>>

(* The request is over, its session is gone. *)
Over(r) ==
    /\ pc' = [pc EXCEPT ![r] = "idle"]
    /\ op' = [op EXCEPT ![r] = "read"]
    /\ copy' = [copy EXCEPT ![r] = Absent]
    /\ changed' = [changed EXCEPT ![r] = {}]
    /\ hook' = [hook EXCEPT ![r] = NoHook]
    /\ obj' = [obj EXCEPT ![r] = Absent]

(* ThroughCache.get finds a copy; who only reads it has done. *)
Hit(r, p, o) ==
    /\ MayBegin(r, p, o) /\ p \in ThroughOp(o) \ {"read"}
    /\ cache[o] # Absent
    /\ copy' = [copy EXCEPT ![r] = cache[o]]
    /\ pc' = [pc EXCEPT ![r] = "held"]
    /\ Begun(r, p, o)

(* It finds none and asks the database next. *)
Miss(r, p, o) ==
    /\ MayBegin(r, p, o) /\ p \in ThroughOp(o)
    /\ cache[o] = Absent
    /\ pc' = [pc EXCEPT ![r] = "miss"]
    /\ UNCHANGED copy
    /\ Begun(r, p, o)

(* Mutations that take the row from the database. *)
TakeRow(r, p, o) ==
    /\ MayBegin(r, p, o) /\ p \in RowOp /\ o \notin Dictionary
    /\ copy' = [copy EXCEPT ![r] = row[o]]
    /\ pc' = [pc EXCEPT ![r] = "held"]
    /\ Begun(r, p, o)

Query(r) ==
    /\ pc[r] = "miss"
    /\ copy' = [copy EXCEPT ![r] = row[obj[r]]]
    /\ pc' = [pc EXCEPT ![r] = "fill"]
    /\ UNCHANGED <<row, cache, op, obj, changed, hook, dirty>>

Fill(r) ==
    /\ pc[r] = "fill"
    /\ cache' = [cache EXCEPT ![obj[r]] = copy[r]]
    /\ IF op[r] = "read"
       THEN Over(r)
       ELSE pc' = [pc EXCEPT ![r] = "held"] /\ UNCHANGED <<op, obj, copy, changed, hook>>
    /\ UNCHANGED <<row, dirty>>

-----------------------------------------------------------------------------
(* The check of the mark: a deleted object is only restored, a live one only the rest. *)
Accepted(r) == copy[r].mark = (op[r] \in {"undelete", "undelete_row"})

Refuse(r) ==
    /\ pc[r] = "held" /\ ~Accepted(r)
    /\ Over(r)
    /\ UNCHANGED <<row, cache, dirty>>

Assign(r, new, columns, metas) ==
    /\ pc[r] = "held" /\ Accepted(r)
    /\ copy' = [copy EXCEPT ![r] = new]
    /\ changed' = [changed EXCEPT ![r] = columns]
    /\ hook' = [hook EXCEPT ![r] = metas]
    /\ pc' = [pc EXCEPT ![r] = "flush"]
    /\ UNCHANGED <<row, cache, op, obj, dirty>>

(* An assignment of the value that was loaded is no change. *)
Assigned(r, v) == IF v = copy[r].value THEN {} ELSE {"value"}

(* A slip: metadata changed in place and not flagged as modified. *)
Flagged_InPlace(keys) == {}

(* update_metadata flags the whole column as modified. *)
Flagged(keys) == IF keys = {} THEN {} ELSE {"meta"}

(* The perspectives as they are in the database get the hooked keys, without a look at their cache. *)
Handed(r, keys) ==
    [p \in {q \in Perspective : Parent[q] = obj[r] /\ keys \cap Hooked # {}}
        |-> row[p].meta \cup (keys \cap Hooked)]

(* UpdateDictionary, UpdateDictionaryPerspective. *)
Update(r, v, keys) ==
    /\ op[r] = "update"
    /\ Assign(r, [copy[r] EXCEPT !.value = v, !.meta = @ \cup keys],
              Assigned(r, v) \cup Flagged(keys), Handed(r, keys))

(* UpdateDictionaryStatus, UpdatePerspectiveStatus. *)
Status(r, v) ==
    /\ op[r] = "status"
    /\ Assign(r, [copy[r] EXCEPT !.value = v], Assigned(r, v), NoHook)

(* Adding and removing roles changes memberships, and writes the object to the cache. *)
Roles(r) == op[r] = "roles" /\ Assign(r, copy[r], {}, NoHook)

(* del_object and undel_object. *)
Mark(r) ==
    /\ op[r] \in RowOp \cup {"delete", "undelete"}
    /\ Assign(r, [copy[r] EXCEPT !.mark = ~@], {"mark"}, NoHook)

-----------------------------------------------------------------------------
Touches(r) == (IF changed[r] = {} THEN {} ELSE {obj[r]}) \cup DOMAIN hook[r]

(* The UPDATEs; a row that another open transaction has updated is locked. *)
Flush(r) ==
    /\ pc[r] = "flush"
    /\ \A s \in Request \ {r} : pc[s] \in {"flushed", "put"} => Touches(s) \cap Touches(r) = {}
    /\ pc' = [pc EXCEPT ![r] = "flushed"]
    /\ UNCHANGED <<row, cache, op, obj, copy, changed, hook, dirty>>

(* A slip: del_object and undel_object leave the cache alone. *)
Put_NotMarks(r) ==
    /\ pc[r] = "flushed"
    /\ cache' = IF op[r] \in {"update", "status", "roles"} THEN [cache EXCEPT ![obj[r]] = copy[r]] ELSE cache
    /\ pc' = [pc EXCEPT ![r] = "put"]
    /\ UNCHANGED <<row, op, obj, copy, changed, hook, dirty>>

(* ThroughCache.set after its flush. *)
Put(r) ==
    /\ pc[r] = "flushed"
    /\ cache' = [cache EXCEPT ![obj[r]] = copy[r]]
    /\ pc' = [pc EXCEPT ![r] = "put"]
    /\ UNCHANGED <<row, op, obj, copy, changed, hook, dirty>>

Written(old, new, columns) ==
    [mark |-> IF "mark" \in columns THEN new.mark ELSE old.mark,
     value |-> IF "value" \in columns THEN new.value ELSE old.value,
     meta |-> IF "meta" \in columns THEN new.meta ELSE old.meta]

RowAfter(r, o) ==
    IF o = obj[r] THEN Written(row[o], copy[r], changed[r])
    ELSE IF o \in DOMAIN hook[r] THEN [row[o] EXCEPT !.meta = hook[r][o]]
    ELSE row[o]

Commit(r) ==
    /\ pc[r] = "put"
    /\ row' = [o \in Object |-> RowAfter(r, o)]
    /\ Over(r)
    /\ UNCHANGED <<cache, dirty>>

(* An error of the request, of one of its further mutations or of the commit. *)
Abort(r) ==
    /\ pc[r] # "idle"
    /\ dirty' = IF pc[r] = "put" THEN dirty \cup {obj[r]} ELSE dirty
    /\ Over(r)
    /\ UNCHANGED <<row, cache>>

Next ==
    \E r \in Request :
        \/ \E p \in Op, o \in Object : Hit(r, p, o) \/ Miss(r, p, o) \/ TakeRow(r, p, o)
        \/ Query(r) \/ Fill(r) \/ Refuse(r)
        \/ \E v \in Value, keys \in SUBSET Key : Update(r, v, keys)
        \/ \E v \in Value : Status(r, v)
        \/ Roles(r) \/ Mark(r)
        \/ Flush(r) \/ Put(r) \/ Commit(r) \/ Abort(r)

Spec == Init /\ [][Next]_vars

-----------------------------------------------------------------------------
(* Two copies of an object agree; nothing is promised for the metadata of  *)
(* a perspective, which its dictionary writes behind the cache.            *)
Agree(o, x, y) ==
    /\ x.mark = y.mark /\ x.value = y.value
    /\ o \notin Perspective => x.meta = y.meta

(* No request that writes the object is open. *)
AtRest(o) == \A r \in Request : obj[r] = o => pc[r] = "idle" \/ op[r] = "read"

(* While requests for one object come one after another (fills may overlap *)
(* with fills, and requests that take the row from the database with one   *)
(* another), what a request finds in the cache is the committed row, once  *)
(* no request for it is open and none was rolled back after it wrote the   *)
(* cache.                                                                  *)
CacheCoherent ==
    \A o \in Object \ (Crowded \cup dirty) :
        AtRest(o) /\ cache[o] # Absent => Agree(o, cache[o], row[o])

(* Under the same assumption, whatever requests for other objects do: what *)
(* the client is told of its object is what the committed row says, the    *)
(* columns taken from the cache included, but for the metadata of a        *)
(* perspective.  A column changed in place must be flagged, a cached one   *)
(* must not be older than the row.                                         *)
AnswersTrue ==
    [][\A r \in Request :
        Commit(r) /\ obj[r] \notin Crowded \cup dirty => Agree(obj[r], copy[r], row'[obj[r]])]_vars

(* ThroughCache.set "Inserts objects into database, then to cache": what   *)
(* is in the cache is in the database once the request is over.            *)
InsertedThenCached ==
    \A o \in Object \ Crowded :
        AtRest(o) /\ cache[o] # Absent => Agree(o, cache[o], row[o])

(* "Error: No such dictionary in the system": a dictionary that has been   *)
(* deleted, with no request for it open and none rolled back, is refused   *)
(* by the next update.                                                     *)
RefusedWhenDeleted ==
    \A o \in Dictionary \ dirty :
        (\A r \in Request : obj[r] # o) /\ row[o].mark /\ cache[o] # Absent => cache[o].mark
=============================================================================
