------------------------- MODULE ThroughCacheProofs -------------------------
(***************************************************************************)
(* What holds of the objects whose requests come one after another, for    *)
(* any number of objects, processes, values and metadata keys, and         *)
(* whatever the requests for the other objects do.                         *)
(***************************************************************************)
EXTENDS ThroughCache, TLAPS

Writing == {"flush", "flushed", "put"}

(* What a request holds, from what it has done so far. *)
Shaped(r) ==
    /\ pc[r] # "idle" => obj[r] \in Object
    /\ pc[r] \in {"fill", "held"} \cup Writing => copy[r] \in Row
    /\ pc[r] \in {"miss", "fill"} => op[r] \notin RowOp
    /\ pc[r] \in {"held"} \cup Writing => op[r] # "read"
    /\ pc[r] \in Writing /\ op[r] \in RowOp => changed[r] = {"mark"}
    /\ pc[r] \in Writing /\ op[r] \in {"update", "status", "roles"} => ~copy[r].mark /\ "mark" \notin changed[r]

(* Requests for an object that is not crowded keep to Together. *)
Alone ==
    \A r, s \in Request :
        r # s /\ pc[r] # "idle" /\ pc[s] # "idle" /\ obj[r] = obj[s] /\ obj[r] \notin Crowded
            => Together(op[r], op[s])

(* A row is updated by one open transaction at a time. *)
Locked ==
    \A r, s \in Request :
        r # s /\ pc[r] \in {"flushed", "put"} /\ pc[s] \in {"flushed", "put"}
            => Touches(r) \cap Touches(s) = {}

Calm == Object \ (Crowded \cup dirty)

(* The columns that a request took and leaves are those of the row; the    *)
(* mark of a row taken from the database may have changed since.           *)
Fresh(r) ==
    obj[r] \in Calm =>
        /\ pc[r] \in {"fill", "held"} =>
               /\ op[r] \notin RowOp => copy[r].mark = row[obj[r]].mark
               /\ copy[r].value = row[obj[r]].value
               /\ obj[r] \notin Perspective => copy[r].meta = row[obj[r]].meta
        /\ pc[r] \in Writing =>
               Agree(obj[r], copy[r], Written(row[obj[r]], copy[r], changed[r]))

(* The cache holds what the request that wrote it last will commit, or     *)
(* else the row.                                                           *)
Cached(o) ==
    /\ \A r \in Request : obj[r] = o /\ pc[r] = "put" => cache[o] = copy[r]
    /\ (\A r \in Request : obj[r] = o => pc[r] # "put") /\ cache[o] # Absent => Agree(o, cache[o], row[o])

Requests == \A r \in Request : Shaped(r) /\ Fresh(r)
Copies == \A o \in Calm : Cached(o)
Inv == TypeOK /\ Requests /\ Alone /\ Locked /\ Copies

(* Every action is of one request; the others stay as they are. *)
Same(s) ==
    /\ pc'[s] = pc[s] /\ op'[s] = op[s] /\ obj'[s] = obj[s]
    /\ copy'[s] = copy[s] /\ changed'[s] = changed[s] /\ hook'[s] = hook[s]

LEMMA InitInv == Init => Inv
  <1> SUFFICES ASSUME Init PROVE Inv
    OBVIOUS
  <1>1. TypeOK
    <2>1. NoHook \in [{} -> SUBSET Key] /\ {} \in SUBSET Perspective
      BY DEF NoHook
    <2>2. NoHook \in UNION {[S -> SUBSET Key] : S \in SUBSET Perspective}
      BY <2>1
    <2>3. hook \in [Request -> UNION {[S -> SUBSET Key] : S \in SUBSET Perspective}]
      BY <2>2 DEF Init
    <2> QED
      BY <2>3 DEF Init, TypeOK, Op
  <1>2. Requests /\ Alone /\ Locked /\ Copies
    BY AbsentAssumption DEF Init, Requests, Shaped, Fresh, Writing, Alone, Locked, Copies, Cached, Calm
  <1> QED
    BY <1>1, <1>2 DEF Inv

(* The object of a request that begins was free, or its requests go together. *)
LEMMA BeginStep ==
    ASSUME Inv, NEW r \in Request, NEW p \in Op, NEW o \in Object,
           Hit(r, p, o) \/ Miss(r, p, o) \/ TakeRow(r, p, o)
    PROVE  Inv'
  <1>1. /\ pc[r] = "idle" /\ row' = row /\ cache' = cache /\ dirty' = dirty
        /\ op'[r] = p /\ obj'[r] = o /\ changed' = changed /\ hook' = hook
        /\ \A s \in Request \ {r} : Same(s)
    BY DEF Hit, Miss, TakeRow, Begun, MayBegin, Same, Inv, TypeOK
  <1>2. o \in Crowded \/ \A s \in Request : pc[s] # "idle" /\ obj[s] = o => Together(p, op[s])
    BY DEF Hit, Miss, TakeRow, MayBegin
  <1>3. \/ pc'[r] = "held" /\ copy'[r] = cache[o] /\ cache[o] # Absent /\ p \notin RowOp /\ p # "read"
        \/ pc'[r] = "miss" /\ copy' = copy /\ p \notin RowOp
        \/ pc'[r] = "held" /\ copy'[r] = row[o] /\ p \in RowOp /\ p # "read"
    BY DEF Hit, Miss, TakeRow, ThroughOp, RowOp, Inv, TypeOK
  <1>4. TypeOK'
    <2>1. pc' \in [Request -> {"idle", "miss", "fill", "held", "flush", "flushed", "put"}] /\ copy' \in [Request -> Row \cup {Absent}]
      BY DEF Hit, Miss, TakeRow, Inv, TypeOK
    <2>2. op' \in [Request -> Op] /\ obj' \in [Request -> Object \cup {Absent}]
      BY DEF Hit, Miss, TakeRow, Begun, Inv, TypeOK
    <2> QED
      BY <1>1, <2>1, <2>2 DEF Inv, TypeOK
  <1>5. \A s \in Request : Shaped(s)'
    <2>1. ASSUME NEW s \in Request \ {r} PROVE Shaped(s)'
      BY <1>1 DEF Inv, Requests, Shaped, Same
    <2>2. Shaped(r)'
      BY <1>1, <1>3 DEF Shaped, Writing, Inv, TypeOK
    <2> QED
      BY <2>1, <2>2
  <1>6. Alone'
    <2> SUFFICES ASSUME NEW s \in Request, NEW t \in Request, s # t, pc'[s] # "idle", pc'[t] # "idle",
                        obj'[s] = obj'[t], obj'[s] \notin Crowded
                 PROVE  Together(op'[s], op'[t])
      BY DEF Alone, Together
    <2>1. CASE s = r
      BY <2>1, <1>1, <1>2 DEF Same
    <2>2. CASE t = r
      BY <2>2, <1>1, <1>2 DEF Same, Together
    <2>3. CASE s # r /\ t # r
      BY <2>3, <1>1 DEF Same, Inv, Alone
    <2> QED
      BY <2>1, <2>2, <2>3
  <1>7. Locked'
    <2>1. \A s \in Request \ {r} : Touches(s)' = Touches(s)
      BY <1>1 DEF Touches, Same
    <2>2. pc'[r] \notin {"flushed", "put"}
      BY <1>3
    <2> QED
      BY <2>1, <2>2, <1>1 DEF Locked, Same, Inv
  <1>8. \A s \in Request : Fresh(s)'
    <2>1. ASSUME NEW s \in Request \ {r} PROVE Fresh(s)'
      BY <1>1 DEF Inv, Requests, Fresh, Same, Calm, Agree, Written
    <2>2. ASSUME o \in Calm, cache[o] # Absent, p \notin RowOp, p # "read" PROVE Agree(o, cache[o], row[o])
      <3>1. \A s \in Request : obj[s] = o => pc[s] # "put"
        BY <2>2, <1>2 DEF Calm, Together, Inv, Requests, Shaped
      <3> QED
        BY <2>2, <3>1 DEF Inv, Copies, Cached
    <2>3. Fresh(r)'
      BY <1>1, <1>3, <2>2 DEF Fresh, Calm, Agree, Writing
    <2> QED
      BY <2>1, <2>3
  <1>9. Copies'
    BY <1>1, <1>3 DEF Copies, Cached, Calm, Same, Agree, Inv
  <1> QED
    BY <1>4, <1>5, <1>6, <1>7, <1>8, <1>9 DEF Inv, Requests

(* Over ends a request that was not writing, or whose writing is undone. *)
LEMMA OverSame ==
    ASSUME Inv, NEW r \in Request, pc[r] # "idle", Over(r)
    PROVE  /\ pc'[r] = "idle" /\ obj'[r] = Absent /\ \A s \in Request \ {r} : Same(s)
           /\ (row' \in [Object -> Row] /\ cache' \in [Object -> Row \cup {Absent}] /\ dirty' \subseteq Object => TypeOK')
           /\ \A s \in Request : Shaped(s)'
           /\ Alone' /\ Locked'
  <1>1. pc'[r] = "idle" /\ obj'[r] = Absent /\ \A s \in Request \ {r} : Same(s)
    BY DEF Over, Same, Inv, TypeOK
  <1>2. ASSUME row' \in [Object -> Row], cache' \in [Object -> Row \cup {Absent}], dirty' \subseteq Object
        PROVE  TypeOK'
    <2>1. NoHook \in [{} -> SUBSET Key] /\ {} \in SUBSET Perspective
      BY DEF NoHook
    <2>2. NoHook \in UNION {[S -> SUBSET Key] : S \in SUBSET Perspective}
      BY <2>1
    <2>3. hook' \in [Request -> UNION {[S -> SUBSET Key] : S \in SUBSET Perspective}]
      BY <2>2 DEF Over, Inv, TypeOK
    <2>4. /\ pc' \in [Request -> {"idle", "miss", "fill", "held", "flush", "flushed", "put"}]
          /\ op' \in [Request -> Op] /\ changed' \in [Request -> SUBSET Column]
      BY DEF Over, Inv, TypeOK, Op
    <2>5. obj' \in [Request -> Object \cup {Absent}] /\ copy' \in [Request -> Row \cup {Absent}]
      BY DEF Over, Inv, TypeOK
    <2> QED
      BY <1>2, <2>3, <2>4, <2>5 DEF TypeOK
  <1>3. \A s \in Request : Shaped(s)'
    <2>1. ASSUME NEW s \in Request \ {r} PROVE Shaped(s)'
      BY <1>1 DEF Inv, Requests, Shaped, Same
    <2>2. Shaped(r)'
      BY <1>1 DEF Shaped, Writing
    <2> QED
      BY <2>1, <2>2
  <1>4. Alone'
    BY <1>1 DEF Alone, Same, Inv
  <1>5. Locked'
    <2>1. \A s \in Request \ {r} : Touches(s)' = Touches(s)
      BY <1>1 DEF Touches, Same
    <2> QED
      BY <2>1, <1>1 DEF Locked, Same, Inv
  <1> QED
    BY <1>1, <1>2, <1>3, <1>4, <1>5

LEMMA RefuseStep == ASSUME Inv, NEW r \in Request, Refuse(r) PROVE Inv'
  <1>1. pc[r] = "held" /\ Over(r) /\ row' = row /\ cache' = cache /\ dirty' = dirty
    BY DEF Refuse
  <1>2. /\ pc'[r] = "idle" /\ obj'[r] = Absent /\ \A s \in Request \ {r} : Same(s)
        /\ TypeOK' /\ \A s \in Request : Shaped(s)'
        /\ Alone' /\ Locked'
    BY <1>1, OverSame DEF Inv, TypeOK
  <1>3. \A s \in Request : Fresh(s)'
    <2>1. ASSUME NEW s \in Request \ {r} PROVE Fresh(s)'
      BY <1>1, <1>2 DEF Inv, Requests, Fresh, Same, Calm, Agree, Written
    <2>2. Fresh(r)'
      BY <1>2, AbsentAssumption DEF Fresh, Calm
    <2> QED
      BY <2>1, <2>2
  <1>4. Copies'
    BY <1>1, <1>2, AbsentAssumption DEF Copies, Cached, Calm, Same, Agree, Inv
  <1> QED
    BY <1>2, <1>3, <1>4 DEF Inv, Requests

LEMMA AbortStep == ASSUME Inv, NEW r \in Request, Abort(r) PROVE Inv'
  <1>1. /\ pc[r] # "idle" /\ Over(r) /\ row' = row /\ cache' = cache
        /\ dirty' = IF pc[r] = "put" THEN dirty \cup {obj[r]} ELSE dirty
    BY DEF Abort
  <1>2. obj[r] \in Object /\ dirty' \subseteq Object /\ Calm' \subseteq Calm /\ (pc[r] = "put" => obj[r] \notin Calm')
    BY <1>1 DEF Inv, Requests, Shaped, TypeOK, Calm
  <1>3. /\ pc'[r] = "idle" /\ obj'[r] = Absent /\ \A s \in Request \ {r} : Same(s)
        /\ TypeOK' /\ \A s \in Request : Shaped(s)'
        /\ Alone' /\ Locked'
    BY <1>1, <1>2, OverSame DEF Inv, TypeOK
  <1>4. \A s \in Request : Fresh(s)'
    <2>1. ASSUME NEW s \in Request \ {r} PROVE Fresh(s)'
      BY <1>1, <1>2, <1>3 DEF Inv, Requests, Fresh, Same, Agree, Written
    <2>2. Fresh(r)'
      BY <1>3, AbsentAssumption DEF Fresh, Calm
    <2> QED
      BY <2>1, <2>2
  <1>5. Copies'
    <2> SUFFICES ASSUME NEW o \in Calm' PROVE Cached(o)'
      BY DEF Copies
    <2>1. Cached(o)
      BY <1>2 DEF Inv, Copies
    <2>2. obj[r] = o => pc[r] # "put"
      BY <1>2
    <2> QED
      BY <1>1, <1>3, <2>1, <2>2, AbsentAssumption DEF Cached, Same, Agree
  <1> QED
    BY <1>3, <1>4, <1>5 DEF Inv, Requests

LEMMA QueryStep == ASSUME Inv, NEW r \in Request, Query(r) PROVE Inv'
  <1>1. /\ pc[r] = "miss" /\ pc'[r] = "fill" /\ copy'[r] = row[obj[r]] /\ op' = op /\ obj' = obj
        /\ row' = row /\ cache' = cache /\ dirty' = dirty /\ changed' = changed /\ hook' = hook
        /\ \A s \in Request \ {r} : Same(s)
    BY DEF Query, Same, Inv, TypeOK
  <1>2. obj[r] \in Object /\ row[obj[r]] \in Row /\ op[r] \notin RowOp
    BY <1>1 DEF Inv, Requests, Shaped, TypeOK
  <1>3. TypeOK'
    <2>1. pc' \in [Request -> {"idle", "miss", "fill", "held", "flush", "flushed", "put"}] /\ copy' \in [Request -> Row \cup {Absent}]
      BY <1>2 DEF Query, Inv, TypeOK
    <2> QED
      BY <1>1, <2>1 DEF Inv, TypeOK
  <1>4. \A s \in Request : Shaped(s)'
    <2>1. ASSUME NEW s \in Request \ {r} PROVE Shaped(s)'
      BY <1>1 DEF Inv, Requests, Shaped, Same
    <2>2. Shaped(r)'
      BY <1>1, <1>2 DEF Shaped, Writing
    <2> QED
      BY <2>1, <2>2
  <1>5. Alone'
    BY <1>1 DEF Alone, Same, Inv
  <1>6. Locked'
    <2>1. \A s \in Request \ {r} : Touches(s)' = Touches(s)
      BY <1>1 DEF Touches, Same
    <2> QED
      BY <2>1, <1>1 DEF Locked, Same, Inv
  <1>7. \A s \in Request : Fresh(s)'
    <2>1. ASSUME NEW s \in Request \ {r} PROVE Fresh(s)'
      BY <1>1 DEF Inv, Requests, Fresh, Same, Calm, Agree, Written
    <2>2. Fresh(r)'
      BY <1>1 DEF Fresh, Calm, Writing
    <2> QED
      BY <2>1, <2>2
  <1>8. Copies'
    BY <1>1 DEF Copies, Cached, Calm, Same, Agree, Inv
  <1> QED
    BY <1>3, <1>4, <1>5, <1>6, <1>7, <1>8 DEF Inv, Requests

(* While a request fills the cache nobody writes its object. *)
LEMMA FillStep == ASSUME Inv, NEW r \in Request, Fill(r) PROVE Inv'
  <1>1. /\ pc[r] = "fill" /\ row' = row /\ dirty' = dirty /\ cache' = [cache EXCEPT ![obj[r]] = copy[r]]
        /\ obj[r] \in Object /\ copy[r] \in Row /\ op[r] \notin RowOp
        /\ cache' \in [Object -> Row \cup {Absent}]
    BY DEF Fill, Inv, Requests, Shaped, TypeOK
  <1>2. /\ TypeOK' /\ \A s \in Request : Shaped(s)'
        /\ Alone' /\ Locked' /\ \A s \in Request \ {r} : Same(s)
        /\ \/ pc'[r] = "idle" /\ obj'[r] = Absent
           \/ pc'[r] = "held" /\ copy'[r] = copy[r] /\ obj'[r] = obj[r] /\ op'[r] = op[r]
    <2>1. CASE op[r] = "read"
      <3>1. Over(r)
        BY <2>1 DEF Fill
      <3>2. row' \in [Object -> Row] /\ dirty' \subseteq Object
        BY <1>1 DEF Inv, TypeOK
      <3>3. pc[r] # "idle" /\ cache' \in [Object -> Row \cup {Absent}]
        BY <1>1
      <3>4. TypeOK' /\ pc'[r] = "idle" /\ obj'[r] = Absent /\ \A s \in Request \ {r} : Same(s)
        BY <3>1, <3>2, <3>3, OverSame
      <3>5. (\A s \in Request : Shaped(s)') /\ Alone' /\ Locked'
        BY <3>1, <3>3, OverSame
      <3> QED
        BY <3>4, <3>5
    <2>2. CASE op[r] # "read"
      <3>1. /\ pc' = [pc EXCEPT ![r] = "held"] /\ op' = op /\ obj' = obj /\ copy' = copy
            /\ changed' = changed /\ hook' = hook
        BY <2>2 DEF Fill
      <3>2. pc'[r] = "held" /\ \A s \in Request \ {r} : Same(s)
        BY <3>1 DEF Same, Inv, TypeOK
      <3>3. TypeOK'
        BY <3>1, <1>1 DEF Inv, TypeOK
      <3>4. ASSUME NEW s \in Request \ {r} PROVE Shaped(s)'
        BY <3>2 DEF Inv, Requests, Shaped, Same
      <3>5. Shaped(r)'
        BY <3>1, <3>2, <1>1, <2>2 DEF Shaped, Writing
      <3>6. Alone'
        BY <3>1, <3>2, <1>1 DEF Alone, Same, Inv
      <3>7. Locked'
        <4>1. \A s \in Request \ {r} : Touches(s)' = Touches(s)
          BY <3>2 DEF Touches, Same
        <4> QED
          BY <4>1, <3>2 DEF Locked, Same, Inv
      <3> QED
        BY <3>1, <3>2, <3>3, <3>4, <3>5, <3>6, <3>7
    <2> QED
      BY <2>1, <2>2
  <1>3. \A s \in Request : Fresh(s)'
    <2>1. ASSUME NEW s \in Request \ {r} PROVE Fresh(s)'
      BY <1>1, <1>2 DEF Inv, Requests, Fresh, Same, Calm, Agree, Written
    <2>2. Fresh(r)'
      BY <1>1, <1>2 DEF Inv, Requests, Fresh, Calm, Writing
    <2> QED
      BY <2>1, <2>2
  <1>4. ASSUME NEW o \in Calm PROVE Cached(o)'
    <2>1. CASE o = obj[r]
      <3>1. ASSUME NEW s \in Request \ {r}, obj[s] = o PROVE pc[s] # "put"
        BY <3>1, <2>1, <1>1 DEF Calm, Inv, Alone, Together, Requests, Shaped, Writing
      <3>2. Agree(o, copy[r], row[o])
        BY <2>1, <1>1 DEF Inv, Requests, Fresh, Agree
      <3>3. cache'[o] = copy[r]
        BY <2>1, <1>1 DEF Inv, TypeOK
      <3>4. \A s \in Request : obj'[s] = o => pc'[s] # "put"
        BY <3>1, <1>2 DEF Same
      <3> QED
        BY <3>2, <3>3, <3>4, <1>1 DEF Cached, Agree
    <2>2. CASE o # obj[r]
      <3>1. cache'[o] = cache[o]
        BY <2>2, <1>1 DEF Inv, TypeOK
      <3>2. \A s \in Request : pc'[s] = "put" => s # r /\ Same(s)
        BY <1>2
      <3>3. Cached(o)
        BY DEF Inv, Copies
      <3>4. \A s \in Request : obj[s] = o /\ pc[s] = "put" => s # r
        BY <1>1
      <3> QED
        BY <3>1, <3>2, <3>3, <3>4, <1>1, <1>2 DEF Cached, Agree, Same
    <2> QED
      BY <2>1, <2>2
  <1> QED
    BY <1>1, <1>2, <1>3, <1>4 DEF Inv, Requests, Copies, Calm

(* Assign: the columns of the new copy that are not to be written are as they were. *)
LEMMA AssignStep ==
    ASSUME Inv, NEW r \in Request, NEW new \in Row, NEW columns \in SUBSET Column,
           NEW metas \in UNION {[S -> SUBSET Key] : S \in SUBSET Perspective},
           Assign(r, new, columns, metas),
           op[r] # "read",
           op[r] \in RowOp => columns = {"mark"},
           op[r] \in {"update", "status", "roles"} => ~new.mark /\ "mark" \notin columns,
           "mark" \notin columns => new.mark = copy[r].mark /\ op[r] \notin RowOp,
           "value" \notin columns => new.value = copy[r].value,
           "meta" \notin columns => new.meta = copy[r].meta
    PROVE  Inv'
  <1>1. /\ pc[r] = "held" /\ pc'[r] = "flush" /\ copy'[r] = new /\ changed'[r] = columns
        /\ op' = op /\ obj' = obj /\ row' = row /\ cache' = cache /\ dirty' = dirty
        /\ \A s \in Request \ {r} : Same(s)
    BY DEF Assign, Same, Inv, TypeOK
  <1>2. TypeOK'
    <2>1. pc' \in [Request -> {"idle", "miss", "fill", "held", "flush", "flushed", "put"}] /\ copy' \in [Request -> Row \cup {Absent}]
      BY DEF Assign, Inv, TypeOK
    <2>2. changed' \in [Request -> SUBSET Column] /\ hook' \in [Request -> UNION {[S -> SUBSET Key] : S \in SUBSET Perspective}]
      BY DEF Assign, Inv, TypeOK
    <2> QED
      BY <1>1, <2>1, <2>2 DEF Inv, TypeOK
  <1>3. \A s \in Request : Shaped(s)'
    <2>1. ASSUME NEW s \in Request \ {r} PROVE Shaped(s)'
      BY <1>1 DEF Inv, Requests, Shaped, Same
    <2>2. Shaped(r)'
      BY <1>1 DEF Inv, Requests, Shaped, Writing
    <2> QED
      BY <2>1, <2>2
  <1>4. Alone'
    BY <1>1 DEF Alone, Same, Inv
  <1>5. Locked'
    <2>1. \A s \in Request \ {r} : Touches(s)' = Touches(s)
      BY <1>1 DEF Touches, Same
    <2> QED
      BY <2>1, <1>1 DEF Locked, Same, Inv
  <1>6. \A s \in Request : Fresh(s)'
    <2>1. ASSUME NEW s \in Request \ {r} PROVE Fresh(s)'
      BY <1>1 DEF Inv, Requests, Fresh, Same, Calm, Agree, Written
    <2>2. ASSUME obj[r] \in Calm PROVE Agree(obj[r], new, Written(row[obj[r]], new, columns))
      <3>1. /\ op[r] \notin RowOp => copy[r].mark = row[obj[r]].mark
            /\ copy[r].value = row[obj[r]].value
            /\ obj[r] \notin Perspective => copy[r].meta = row[obj[r]].meta
        BY <1>1, <2>2 DEF Inv, Requests, Fresh
      <3> QED
        BY <3>1 DEF Agree, Written
    <2>3. Fresh(r)'
      BY <1>1, <2>2 DEF Fresh, Calm
    <2> QED
      BY <2>1, <2>3
  <1>7. Copies'
    BY <1>1 DEF Copies, Cached, Calm, Same, Agree, Inv
  <1> QED
    BY <1>2, <1>3, <1>4, <1>5, <1>6, <1>7 DEF Inv, Requests

LEMMA WriteStep ==
    ASSUME Inv, NEW r \in Request,
           \/ \E v \in Value, keys \in SUBSET Key : Update(r, v, keys)
           \/ \E v \in Value : Status(r, v)
           \/ Roles(r) \/ Mark(r)
    PROVE  Inv'
  <1>1. NoHook \in UNION {[S -> SUBSET Key] : S \in SUBSET Perspective}
    <2>1. NoHook \in [{} -> SUBSET Key] /\ {} \in SUBSET Perspective
      BY DEF NoHook
    <2> QED
      BY <2>1
  <1>2. ASSUME pc[r] = "held"
        PROVE  copy[r] \in Row /\ (op[r] # "read")
    BY <1>2 DEF Inv, Requests, Shaped
  <1>3. ASSUME NEW v \in Value, NEW keys \in SUBSET Key, Update(r, v, keys) PROVE Inv'
    <2> DEFINE new == [copy[r] EXCEPT !.value = v, !.meta = @ \cup keys]
               columns == Assigned(r, v) \cup Flagged(keys)
               metas == Handed(r, keys)
    <2>1. op[r] = "update" /\ Assign(r, new, columns, metas) /\ pc[r] = "held" /\ Accepted(r)
      BY <1>3 DEF Update, Assign
    <2>2. copy[r] \in Row /\ ~copy[r].mark
      BY <2>1, <1>2 DEF Accepted, Row
    <2>3. /\ new \in Row /\ new.mark = copy[r].mark /\ new.value = v /\ new.meta = copy[r].meta \cup keys
      BY <2>2 DEF Row
    <2>4. columns \in SUBSET Column /\ "mark" \notin columns
          /\ ("value" \notin columns => v = copy[r].value) /\ ("meta" \notin columns => keys = {})
      BY DEF Assigned, Flagged, Column
    <2>5. metas \in UNION {[S -> SUBSET Key] : S \in SUBSET Perspective}
      <3> DEFINE S == {q \in Perspective : Parent[q] = obj[r] /\ keys \cap Hooked # {}}
      <3>1. S \in SUBSET Perspective
        OBVIOUS
      <3>2. \A q \in S : row[q].meta \cup (keys \cap Hooked) \in SUBSET Key
        BY DEF Inv, TypeOK, Row, Object
      <3>3. metas \in [S -> SUBSET Key]
        BY <3>2 DEF Handed
      <3> QED
        BY <3>1, <3>3
    <2> HIDE DEF new, columns, metas
    <2>6. new.meta = copy[r].meta \/ "meta" \in columns
      BY <2>3, <2>4
    <2> QED
      BY <2>1, <2>2, <2>3, <2>4, <2>5, <2>6, AssignStep DEF RowOp
  <1>4. ASSUME NEW v \in Value, Status(r, v) PROVE Inv'
    <2> DEFINE new == [copy[r] EXCEPT !.value = v]
               columns == Assigned(r, v)
    <2>1. op[r] = "status" /\ Assign(r, new, columns, NoHook) /\ pc[r] = "held" /\ Accepted(r)
      BY <1>4 DEF Status, Assign
    <2>2. copy[r] \in Row /\ ~copy[r].mark
      BY <2>1, <1>2 DEF Accepted, Row
    <2>3. new \in Row /\ new.mark = copy[r].mark /\ new.value = v /\ new.meta = copy[r].meta
      BY <2>2 DEF Row
    <2>4. columns \in SUBSET Column /\ "mark" \notin columns /\ ("value" \notin columns => v = copy[r].value)
      BY DEF Assigned, Column
    <2> HIDE DEF new, columns
    <2> QED
      BY <2>1, <2>2, <2>3, <2>4, <1>1, AssignStep DEF RowOp
  <1>5. ASSUME Roles(r) PROVE Inv'
    <2>1. op[r] = "roles" /\ Assign(r, copy[r], {}, NoHook) /\ pc[r] = "held" /\ Accepted(r)
      BY <1>5 DEF Roles, Assign
    <2>2. copy[r] \in Row /\ ~copy[r].mark
      BY <2>1, <1>2 DEF Accepted, Row
    <2> QED
      BY <2>1, <2>2, <1>1, AssignStep DEF RowOp
  <1>6. ASSUME Mark(r) PROVE Inv'
    <2> DEFINE new == [copy[r] EXCEPT !.mark = ~@]
    <2>1. /\ op[r] \in RowOp \cup {"delete", "undelete"} /\ Assign(r, new, {"mark"}, NoHook) /\ pc[r] = "held"
      BY <1>6 DEF Mark, Assign
    <2>2. copy[r] \in Row
      BY <2>1, <1>2
    <2>3. new \in Row /\ new.value = copy[r].value /\ new.meta = copy[r].meta
      BY <2>2 DEF Row
    <2>4. {"mark"} \in SUBSET Column /\ op[r] # "read" /\ op[r] \notin {"update", "status", "roles"}
      BY <2>1 DEF Column, RowOp
    <2> HIDE DEF new
    <2> QED
      BY <2>1, <2>3, <2>4, <1>1, AssignStep
  <1> QED
    BY <1>3, <1>4, <1>5, <1>6

LEMMA FlushStep == ASSUME Inv, NEW r \in Request, Flush(r) PROVE Inv'
  <1>1. /\ pc[r] = "flush" /\ pc'[r] = "flushed" /\ row' = row /\ cache' = cache /\ dirty' = dirty
        /\ op' = op /\ obj' = obj /\ copy' = copy /\ changed' = changed /\ hook' = hook
        /\ \A s \in Request \ {r} : Same(s)
    BY DEF Flush, Same, Inv, TypeOK
  <1>2. TypeOK'
    <2>1. pc' \in [Request -> {"idle", "miss", "fill", "held", "flush", "flushed", "put"}]
      BY DEF Flush, Inv, TypeOK
    <2> QED
      BY <1>1, <2>1 DEF Inv, TypeOK
  <1>3. \A s \in Request : Shaped(s)'
    <2>1. ASSUME NEW s \in Request \ {r} PROVE Shaped(s)'
      BY <1>1 DEF Inv, Requests, Shaped, Same
    <2>2. Shaped(r)'
      BY <1>1 DEF Inv, Requests, Shaped, Writing
    <2> QED
      BY <2>1, <2>2
  <1>4. Alone'
    BY <1>1 DEF Alone, Same, Inv
  <1>5. Locked'
    <2>1. \A s \in Request : Touches(s)' = Touches(s)
      BY <1>1 DEF Touches
    <2>2. \A s \in Request \ {r} : pc[s] \in {"flushed", "put"} =>
              Touches(s) \cap Touches(r) = {} /\ Touches(r) \cap Touches(s) = {}
      BY DEF Flush
    <2> QED
      BY <2>1, <2>2, <1>1 DEF Locked, Same, Inv
  <1>6. \A s \in Request : Fresh(s)'
    <2>1. ASSUME NEW s \in Request \ {r} PROVE Fresh(s)'
      BY <1>1 DEF Inv, Requests, Fresh, Same, Calm, Agree, Written
    <2>2. Fresh(r)'
      BY <1>1 DEF Inv, Requests, Fresh, Calm, Writing, Agree, Written
    <2> QED
      BY <2>1, <2>2
  <1>7. Copies'
    BY <1>1 DEF Copies, Cached, Calm, Same, Agree, Inv
  <1> QED
    BY <1>2, <1>3, <1>4, <1>5, <1>6, <1>7 DEF Inv, Requests

(* Of the requests for a calm object only one is between its flush and its end: the others *)
(* that may be open want the lock of the row that it has.                                  *)
LEMMA OneAtATime ==
    ASSUME Inv, NEW r \in Request, NEW s \in Request, r # s, obj[r] = obj[s], obj[r] \in Calm,
           pc[r] \in {"flushed", "put"}
    PROVE  pc[s] \notin {"flushed", "put"}
  <1> SUFFICES ASSUME pc[s] \in {"flushed", "put"} PROVE FALSE
    OBVIOUS
  <1>1. Together(op[r], op[s]) /\ op[r] # "read"
    BY DEF Inv, Alone, Calm, Requests, Shaped, Writing
  <1>2. changed[r] = {"mark"} /\ changed[s] = {"mark"}
    BY <1>1 DEF Together, Inv, Requests, Shaped, Writing
  <1>3. obj[r] \in Touches(r) /\ obj[r] \in Touches(s)
    BY <1>2 DEF Touches
  <1> QED
    BY <1>3 DEF Inv, Locked

LEMMA PutStep == ASSUME Inv, NEW r \in Request, Put(r) PROVE Inv'
  <1>1. /\ pc[r] = "flushed" /\ pc'[r] = "put" /\ row' = row /\ dirty' = dirty
        /\ op' = op /\ obj' = obj /\ copy' = copy /\ changed' = changed /\ hook' = hook
        /\ \A s \in Request \ {r} : Same(s)
        /\ obj[r] \in Object /\ copy[r] \in Row
    BY DEF Put, Same, Inv, TypeOK, Requests, Shaped, Writing
  <1>2. cache' = [cache EXCEPT ![obj[r]] = copy[r]]
    BY DEF Put
  <1>3. TypeOK'
    <2>1. /\ pc' \in [Request -> {"idle", "miss", "fill", "held", "flush", "flushed", "put"}]
          /\ cache' \in [Object -> Row \cup {Absent}]
      BY <1>1 DEF Put, Inv, TypeOK
    <2> QED
      BY <1>1, <2>1 DEF Inv, TypeOK
  <1>4. \A s \in Request : Shaped(s)'
    <2>1. ASSUME NEW s \in Request \ {r} PROVE Shaped(s)'
      BY <1>1 DEF Inv, Requests, Shaped, Same
    <2>2. Shaped(r)'
      BY <1>1 DEF Inv, Requests, Shaped, Writing
    <2> QED
      BY <2>1, <2>2
  <1>5. Alone'
    BY <1>1 DEF Alone, Same, Inv
  <1>6. Locked'
    <2>1. \A s \in Request : Touches(s)' = Touches(s)
      BY <1>1 DEF Touches
    <2> QED
      BY <2>1, <1>1 DEF Locked, Same, Inv
  <1>7. \A s \in Request : Fresh(s)'
    <2>1. ASSUME NEW s \in Request \ {r} PROVE Fresh(s)'
      BY <1>1 DEF Inv, Requests, Fresh, Same, Calm, Agree, Written
    <2>2. Fresh(r)'
      BY <1>1 DEF Inv, Requests, Fresh, Calm, Writing, Agree, Written
    <2> QED
      BY <2>1, <2>2
  <1>8. ASSUME NEW o \in Calm PROVE Cached(o)'
    <2>1. Cached(o)
      BY DEF Inv, Copies
    <2>2. CASE o = obj[r]
      <3>1. cache'[o] = copy[r]
        BY <2>2, <1>1, <1>2 DEF Inv, TypeOK
      <3>2. \A s \in Request : obj'[s] = o /\ pc'[s] = "put" => s = r
        BY <2>2, <1>1, OneAtATime DEF Same
      <3> QED
        BY <2>2, <3>1, <3>2, <1>1 DEF Cached
    <2>3. CASE o # obj[r]
      <3>1. cache'[o] = cache[o]
        BY <2>3, <1>1, <1>2 DEF Inv, TypeOK
      <3> QED
        BY <2>1, <2>3, <3>1, <1>1 DEF Cached, Agree, Same
    <2> QED
      BY <2>2, <2>3
  <1> QED
    BY <1>1, <1>3, <1>4, <1>5, <1>6, <1>7, <1>8 DEF Inv, Requests, Copies, Calm

(* A commit leaves of the row of its object what the copy says; of other   *)
(* rows it writes the metadata of perspectives.                            *)
LEMMA CommitRows ==
    ASSUME Inv, NEW r \in Request, Commit(r)
    PROVE  /\ row' \in [Object -> Row] /\ obj[r] \in Object
           /\ row'[obj[r]] = Written(row[obj[r]], copy[r], changed[r])
           /\ \A o \in Object \ {obj[r]} :
                  /\ row'[o].mark = row[o].mark /\ row'[o].value = row[o].value
                  /\ o \notin Perspective => row'[o].meta = row[o].meta
  <1>1. pc[r] = "put" /\ row' = [o \in Object |-> RowAfter(r, o)] /\ obj[r] \in Object /\ copy[r] \in Row
    BY DEF Commit, Inv, Requests, Shaped, Writing
  <1>2. PICK S \in SUBSET Perspective : hook[r] \in [S -> SUBSET Key]
    BY DEF Inv, TypeOK
  <1>3. \A o \in Object : row[o] \in Row
    BY DEF Inv, TypeOK
  <1>4. ASSUME NEW o \in Object
        PROVE  /\ RowAfter(r, o) \in Row
               /\ o # obj[r] => /\ RowAfter(r, o).mark = row[o].mark /\ RowAfter(r, o).value = row[o].value
                                /\ o \notin Perspective => RowAfter(r, o).meta = row[o].meta
    <2>1. CASE o = obj[r]
      BY <2>1, <1>1, <1>3 DEF RowAfter, Written, Row
    <2>2. CASE o # obj[r] /\ o \in DOMAIN hook[r]
      BY <2>2, <1>2, <1>3 DEF RowAfter, Row
    <2>3. CASE o # obj[r] /\ o \notin DOMAIN hook[r]
      BY <2>3, <1>3 DEF RowAfter
    <2> QED
      BY <2>1, <2>2, <2>3
  <1>5. row'[obj[r]] = Written(row[obj[r]], copy[r], changed[r])
    BY <1>1 DEF RowAfter
  <1> QED
    BY <1>1, <1>4, <1>5

LEMMA CommitStep == ASSUME Inv, NEW r \in Request, Commit(r) PROVE Inv'
  <1>1. pc[r] = "put" /\ Over(r) /\ cache' = cache /\ dirty' = dirty /\ dirty' \subseteq Object
        /\ cache' \in [Object -> Row \cup {Absent}]
    BY DEF Commit, Inv, TypeOK
  <1>2. /\ pc'[r] = "idle" /\ obj'[r] = Absent /\ \A s \in Request \ {r} : Same(s)
        /\ TypeOK' /\ \A s \in Request : Shaped(s)'
        /\ Alone' /\ Locked'
    BY <1>1, CommitRows, OverSame
  <1>3. ASSUME obj[r] \in Calm PROVE Agree(obj[r], copy[r], row'[obj[r]])
    BY <1>1, <1>3, CommitRows DEF Inv, Requests, Fresh, Writing
  <1>4. \A s \in Request : Fresh(s)'
    <2>1. ASSUME NEW s \in Request \ {r}, obj[s] \in Calm, obj[s] = obj[r], pc[s] # "idle" PROVE Fresh(s)'
      <3>1. op[s] \in RowOp /\ op[r] \in RowOp
        BY <2>1, <1>1 DEF Inv, Alone, Calm, Together, Requests, Shaped, Writing
      <3>2. changed[r] = {"mark"}
        BY <3>1, <1>1 DEF Inv, Requests, Shaped, Writing
      <3>3. row'[obj[s]].value = row[obj[s]].value /\ row'[obj[s]].meta = row[obj[s]].meta
        <4>1. row'[obj[r]] = Written(row[obj[r]], copy[r], {"mark"})
          BY <3>2, CommitRows
        <4>2. row'[obj[r]].value = row[obj[r]].value /\ row'[obj[r]].meta = row[obj[r]].meta
          BY <4>1 DEF Written
        <4> QED
          BY <2>1, <4>2
      <3>4. pc[s] \in Writing => changed[s] = {"mark"}
        BY <3>1 DEF Inv, Requests, Shaped
      <3>5. Fresh(s) /\ Same(s)
        BY <1>2 DEF Inv, Requests
      <3> QED
        BY <3>1, <3>3, <3>4, <3>5, <1>1 DEF Fresh, Same, Calm, Agree, Written
    <2>2. ASSUME NEW s \in Request \ {r}, obj[s] \in Calm, obj[s] # obj[r] PROVE Fresh(s)'
      <3>1. /\ row'[obj[s]].mark = row[obj[s]].mark /\ row'[obj[s]].value = row[obj[s]].value
            /\ obj[s] \notin Perspective => row'[obj[s]].meta = row[obj[s]].meta
        BY <2>2, CommitRows DEF Calm
      <3>2. Fresh(s) /\ Same(s)
        BY <1>2 DEF Inv, Requests
      <3> QED
        BY <3>1, <3>2, <1>1 DEF Fresh, Same, Calm, Agree, Written
    <2>3. ASSUME NEW s \in Request \ {r}, obj[s] \notin Calm \/ pc[s] = "idle" PROVE Fresh(s)'
      BY <2>3, <1>1, <1>2 DEF Fresh, Same, Calm, Writing
    <2>4. Fresh(r)'
      BY <1>2, AbsentAssumption DEF Fresh, Calm
    <2> QED
      BY <2>1, <2>2, <2>3, <2>4
  <1>5. ASSUME NEW o \in Calm PROVE Cached(o)'
    <2>1. Cached(o)
      BY DEF Inv, Copies
    <2>2. CASE o = obj[r]
      <3>1. cache[o] = copy[r]
        BY <2>1, <2>2, <1>1 DEF Cached
      <3>2. \A s \in Request : obj'[s] = o => pc'[s] # "put"
        BY <2>2, <1>1, <1>2, OneAtATime, AbsentAssumption DEF Same
      <3> QED
        BY <3>1, <3>2, <2>2, <1>1, <1>3 DEF Cached
    <2>3. CASE o # obj[r]
      <3>1. /\ row'[o].mark = row[o].mark /\ row'[o].value = row[o].value
            /\ o \notin Perspective => row'[o].meta = row[o].meta
        BY <2>3, CommitRows DEF Calm
      <3>2. o \in Object
        BY DEF Calm
      <3> QED
        BY <2>1, <2>3, <3>1, <3>2, <1>1, <1>2, AbsentAssumption DEF Cached, Agree, Same
    <2> QED
      BY <2>2, <2>3
  <1> QED
    BY <1>1, <1>2, <1>4, <1>5 DEF Inv, Requests, Copies, Calm

LEMMA Inductive == Inv /\ [Next]_vars => Inv'
  <1> SUFFICES ASSUME Inv, [Next]_vars PROVE Inv'
    OBVIOUS
  <1>1. CASE UNCHANGED vars
    BY <1>1 DEF vars, Inv, TypeOK, Requests, Shaped, Fresh, Alone, Locked, Touches, Copies, Cached, Calm, Agree, Written
  <1>2. CASE Next
    <2>1. PICK r \in Request :
             \/ \E p \in Op, o \in Object : Hit(r, p, o) \/ Miss(r, p, o) \/ TakeRow(r, p, o)
             \/ Query(r) \/ Fill(r) \/ Refuse(r)
             \/ \E v \in Value, keys \in SUBSET Key : Update(r, v, keys)
             \/ \E v \in Value : Status(r, v)
             \/ Roles(r) \/ Mark(r)
             \/ Flush(r) \/ Put(r) \/ Commit(r) \/ Abort(r)
      BY <1>2 DEF Next
    <2> QED
      BY <2>1, BeginStep, QueryStep, FillStep, RefuseStep, WriteStep, FlushStep, PutStep, CommitStep, AbortStep
  <1> QED
    BY <1>1, <1>2

LEMMA InvHolds == Spec => []Inv
  BY InitInv, Inductive, PTL DEF Spec

(* Every reachable state of rows, cache and requests is of its type. *)
THEOREM TypeCorrect == Spec => []TypeOK
  <1>1. Inv => TypeOK
    BY DEF Inv
  <1> QED
    BY <1>1, InvHolds, PTL

(* Of each object whose requests come one after another (but for fills with fills, and     *)
(* takers of the row with one another), and of which none was rolled back after its write  *)
(* to the cache, what the cache holds at rest is the committed row, for any number of      *)
(* objects and requests and however those for other objects overlap.                       *)
THEOREM SerialCacheCoherent == Spec => []CacheCoherent
  <1>1. Inv => CacheCoherent
    <2> SUFFICES ASSUME Inv, NEW o \in Calm, AtRest(o), cache[o] # Absent PROVE Agree(o, cache[o], row[o])
      BY DEF CacheCoherent, Calm
    <2>1. \A r \in Request : obj[r] = o => pc[r] # "put"
      BY DEF AtRest, Inv, Requests, Shaped, Writing
    <2> QED
      BY <2>1 DEF Inv, Copies, Cached
  <1> QED
    BY <1>1, InvHolds, PTL

(* Of the same objects: what a mutation answers of its object is what its commit leaves in *)
(* the row, but for the metadata of a perspective.                                         *)
THEOREM SerialAnswersTrue == Spec => AnswersTrue
  <1>1. Inv /\ [Next]_vars =>
            [\A r \in Request :
                Commit(r) /\ obj[r] \notin Crowded \cup dirty => Agree(obj[r], copy[r], row'[obj[r]])]_vars
    <2> SUFFICES ASSUME Inv, NEW r \in Request, Commit(r), obj[r] \notin Crowded \cup dirty
                 PROVE  Agree(obj[r], copy[r], row'[obj[r]])
      OBVIOUS
    <2>1. pc[r] = "put" /\ obj[r] \in Calm
      BY CommitRows DEF Commit, Calm
    <2> QED
      BY <2>1, CommitRows DEF Inv, Requests, Fresh, Writing
  <1> QED
    BY <1>1, InvHolds, PTL DEF Spec, AnswersTrue
=============================================================================
