-------------------------- MODULE TaskStatusProofs --------------------------
(***************************************************************************)
(* The properties of TaskStatus, proved for any number of tasks, users and *)
(* requests: that recorded tasks are listed (however the commands of       *)
(* put_to_cache and delete interleave, for a user who runs one task), what *)
(* dummies leave, and that deletions are final.                            *)
(***************************************************************************)
EXTENDS TaskStatus, TLAPS

ProcType == [pc : {"start", "idle", "ended"} \cup Busy, key : Key, seen : SUBSET Key]

(* What each kind of process may hold. *)
FitsKind(p, c, k) ==
    /\ p \in Task => c \in {"idle", "put_read", "put_write", "ended"} /\ k = p
    /\ p \in Worker => /\ c \in {"start", "idle", "put_read", "put_write"} /\ k \in {p, Runs[p]}
                       /\ c = "start" => k = p
    /\ p \in Deleter => /\ c \in {"start", "put_read", "put_write"} => k = p
                        /\ k \in Task \cup {p} /\ c # "idle"

(* What each process holds has its type, whatever it has read. *)
Typed ==
    /\ progress \in [Key -> (0 .. Last) \cup {Missing}]
    /\ current_tasks \in [User \cup {Zero} -> SUBSET Key]
    /\ next \in [Task -> 0 .. Last + 1]
    /\ proc \in [Key -> ProcType]
    /\ \A p \in Key : FitsKind(p, proc[p].pc, proc[p].key)
    /\ overlap \in BOOLEAN

(* A record is listed, or about to be listed by a process, or about to be removed *)
(* by a request that has just unlisted it.                                        *)
Accounted(k) ==
    \/ k \in current_tasks[UserOf(k)]
    \/ \E p \in Key : proc[p].pc \in {"put_read", "put_write"} /\ proc[p].key = k
    \/ \E d \in Deleter : proc[d].pc = "del_rem" /\ proc[d].key = k

(* It is so of the only task of a user in every interleaving. *)
ListedOrMoving == \A t \in Task : OnlyTask(t) /\ progress[t] # Missing => Accounted(t)

ListedInv == Typed /\ ListedOrMoving

(* A worker starts when the request of its task has ended.  One that reports on a *)
(* dummy is one whose task had no record, and nobody writes that record again.    *)
LostInv ==
    \A w \in Worker :
        /\ proc[w].pc # "start" => proc[Runs[w]].pc = "ended"
        /\ proc[w].pc # "start" /\ proc[w].key = w => progress[Runs[w]] = Missing
        /\ progress[w] # Missing => proc[w].pc # "start" /\ proc[w].key = w

(***************************************************************************)
(* Without overlap: one process is busy and what it has read is current,   *)
(* every list holds keys of its own user that have records, every record   *)
(* is accounted for, and the record of a deletion's dummy belongs to it.   *)
(***************************************************************************)
OneBusy == \A p, q \in Key : proc[p].pc \in Busy /\ proc[q].pc \in Busy => p = q
SeenIsCurrent ==
    \A p \in Key : proc[p].pc \in {"put_write", "del_write"}
                   => proc[p].seen = current_tasks[UserOf(proc[p].key)]
OwnLists == \A u \in User \cup {Zero} : \A k \in current_tasks[u] : UserOf(k) = u
PutsAreRecorded ==
    \A p \in Key : proc[p].pc \in {"put_read", "put_write"} => progress[proc[p].key] # Missing
ListedAreRecorded == \A k \in Key : k \in current_tasks[UserOf(k)] => progress[k] # Missing
RemovedAreUnlisted ==
    \A d \in Deleter : proc[d].pc = "del_rem"
                       => proc[d].key \notin current_tasks[UserOf(proc[d].key)]
AllAccounted == \A k \in Key : progress[k] # Missing => Accounted(k)
DummiesBelong ==
    \A d \in Deleter : progress[d] # Missing => proc[d].pc \in Busy /\ proc[d].key = d
SerialFacts ==
    /\ OneBusy /\ SeenIsCurrent /\ OwnLists /\ PutsAreRecorded
    /\ ListedAreRecorded /\ RemovedAreUnlisted /\ AllAccounted /\ DummiesBelong
SerialInv == ~overlap => SerialFacts

LEMMA UserOfType == \A k \in Key : UserOf(k) \in User \cup {Zero}
  BY TaskAssumption DEF Key, UserOf

LEMMA TypedInit == Init => Typed
<1> SUFFICES ASSUME Init PROVE Typed
  OBVIOUS
<1> USE TaskAssumption, LastAssumption DEF Init, Key, Busy
<1>1. \A k \in Key : /\ proc[k].pc = IF k \in Task THEN "idle" ELSE "start"
                     /\ proc[k].key = k
  OBVIOUS
<1>2. proc \in [Key -> ProcType]
  BY DEF ProcType
<1>3. \A k \in Key : FitsKind(k, proc[k].pc, proc[k].key)
  BY <1>1 DEF FitsKind
<1>5. /\ progress \in [Key -> (0 .. Last) \cup {Missing}]
      /\ current_tasks \in [User \cup {Zero} -> SUBSET Key]
      /\ next \in [Task -> 0 .. Last + 1]
      /\ overlap \in BOOLEAN
  OBVIOUS
<1> QED
  BY <1>2, <1>3, <1>5 DEF Typed

(* What the step lemmas need of the types. *)
LEMMA Pointwise ==
  ASSUME Typed
  PROVE  /\ \A u \in User \cup {Zero} : current_tasks[u] \subseteq Key
         /\ \A k \in Key : proc[k].key \in Key /\ UserOf(k) \in User \cup {Zero}
         /\ \A p \in Reporter : p \in Key /\ p \notin Deleter /\ TaskOf(p) \in Task
<1> USE TaskAssumption DEF Key
<1>1. \A u \in User \cup {Zero} : current_tasks[u] \subseteq Key
  BY DEF Typed
<1>2. \A k \in Key : proc[k].key \in Key /\ UserOf(k) \in User \cup {Zero}
  BY UserOfType DEF Typed, ProcType
<1>3. \A p \in Reporter : p \in Key /\ p \notin Deleter /\ TaskOf(p) \in Task
  BY DEF Reporter, TaskOf
<1> QED
  BY <1>1, <1>2, <1>3

LEMMA TaskKind ==
  ASSUME Typed, NEW t \in Task
  PROVE  /\ proc[t].pc \in {"idle", "put_read", "put_write", "ended"}
         /\ proc[t].key = t /\ next[t] \in 0 .. Last + 1
  BY DEF Typed, FitsKind, Key

LEMMA WorkerKind ==
  ASSUME Typed, NEW w \in Worker
  PROVE  /\ proc[w].pc \in {"start", "idle", "put_read", "put_write"}
         /\ proc[w].key \in {w, Runs[w]} /\ Runs[w] \in Task
         /\ proc[w].pc = "start" => proc[w].key = w
<1>1. FitsKind(w, proc[w].pc, proc[w].key)
  BY DEF Typed, Key
<1> QED
  BY <1>1, TaskAssumption DEF FitsKind

LEMMA DeleterKind ==
  ASSUME Typed, NEW d \in Deleter
  PROVE  /\ proc[d].key \in Task \cup {d} /\ proc[d].pc # "idle"
         /\ proc[d].pc \in {"start", "put_read", "put_write"} => proc[d].key = d
<1>1. FitsKind(d, proc[d].pc, proc[d].key)
  BY DEF Typed, Key
<1> QED
  BY <1>1 DEF FitsKind

(* What a step does to the process that takes it; no other process changes. *)
Moves(p, pc, key, seen) ==
    /\ \A q \in Key : q # p => proc'[q] = proc[q]
    /\ proc'[p].pc = pc /\ proc'[p].key = key /\ proc'[p].seen = seen

LEMMA Effects ==
  ASSUME Typed
  PROVE  /\ \A p \in Reporter : Set(p) => Moves(p, "put_read", proc[p].key, proc[p].seen)
         /\ \A t \in Task : Delay(t) => Moves(t, "ended", t, proc[t].seen)
         /\ \A p \in Key : PutRead(p) =>
                Moves(p, "put_write", proc[p].key, current_tasks[UserOf(proc[p].key)])
         /\ \A p \in Key : PutWrite(p) =>
                Moves(p, IF p \in Reporter THEN "idle" ELSE "del_read", proc[p].key, proc[p].seen)
         /\ \A p \in Worker \cup Deleter : \A t \in Task : GetFromCache(p, t) =>
                IF progress[t] # Missing
                THEN Moves(p, IF p \in Worker THEN "idle" ELSE "del_read", t, proc[p].seen)
                ELSE Moves(p, "put_read", p, proc[p].seen)
         /\ \A d \in Deleter : DelRead(d) =>
                IF proc[d].key \in current_tasks[UserOf(proc[d].key)]
                THEN Moves(d, "del_write", proc[d].key, current_tasks[UserOf(proc[d].key)])
                ELSE Moves(d, "ended", proc[d].key, proc[d].seen)
         /\ \A d \in Deleter : DelWrite(d) => Moves(d, "del_rem", proc[d].key, proc[d].seen)
         /\ \A d \in Deleter : DelRem(d) => Moves(d, "ended", proc[d].key, proc[d].seen)
<1> USE Pointwise, TaskKind, WorkerKind, DeleterKind, TaskAssumption DEF Typed, ProcType, Moves, Key
<1>1. \A p \in Reporter : Set(p) => Moves(p, "put_read", proc[p].key, proc[p].seen)
  BY DEF Set, Reporter
<1>8. \A t \in Task : Delay(t) => Moves(t, "ended", t, proc[t].seen)
  BY DEF Delay
<1>2. \A p \in Key : PutRead(p) =>
         Moves(p, "put_write", proc[p].key, current_tasks[UserOf(proc[p].key)])
  BY DEF PutRead
<1>3. \A p \in Key : PutWrite(p) =>
         Moves(p, IF p \in Reporter THEN "idle" ELSE "del_read", proc[p].key, proc[p].seen)
  BY DEF PutWrite
<1>4. \A p \in Worker \cup Deleter : \A t \in Task : GetFromCache(p, t) =>
         IF progress[t] # Missing
         THEN Moves(p, IF p \in Worker THEN "idle" ELSE "del_read", t, proc[p].seen)
         ELSE Moves(p, "put_read", p, proc[p].seen)
  <2> SUFFICES ASSUME NEW p \in Worker \cup Deleter, NEW t \in Task, GetFromCache(p, t)
               PROVE  IF progress[t] # Missing
                      THEN Moves(p, IF p \in Worker THEN "idle" ELSE "del_read", t, proc[p].seen)
                      ELSE Moves(p, "put_read", p, proc[p].seen)
    OBVIOUS
  <2>1. proc[p].pc = "start" /\ p \in Key
    BY DEF GetFromCache, MayLookUp
  <2>2. CASE progress[t] # Missing
    BY <2>1, <2>2 DEF GetFromCache
  <2>3. CASE progress[t] = Missing
    <3>1. proc[p].key = p
      BY <2>1
    <3> QED
      BY <2>1, <2>3, <3>1 DEF GetFromCache
  <2> QED
    BY <2>2, <2>3
<1>5. \A d \in Deleter : DelRead(d) =>
         IF proc[d].key \in current_tasks[UserOf(proc[d].key)]
         THEN Moves(d, "del_write", proc[d].key, current_tasks[UserOf(proc[d].key)])
         ELSE Moves(d, "ended", proc[d].key, proc[d].seen)
  BY DEF DelRead
<1>6. \A d \in Deleter : DelWrite(d) => Moves(d, "del_rem", proc[d].key, proc[d].seen)
  BY DEF DelWrite
<1>7. \A d \in Deleter : DelRem(d) => Moves(d, "ended", proc[d].key, proc[d].seen)
  BY DEF DelRem
<1> QED
  BY <1>1, <1>2, <1>3, <1>4, <1>5, <1>6, <1>7, <1>8

LEMMA ProcTyped ==
  ASSUME Typed, NEW p \in Key, NEW c \in {"start", "idle", "ended"} \cup Busy, NEW k \in Key
  PROVE  /\ [proc EXCEPT ![p].pc = c] \in [Key -> ProcType]
         /\ [proc EXCEPT ![p].pc = c, ![p].key = k] \in [Key -> ProcType]
<1>1. proc \in [Key -> ProcType]
  BY DEF Typed, ProcType
<1>2. proc[p] \in ProcType
  BY <1>1
<1>3. /\ [proc[p] EXCEPT !.pc = c] \in ProcType
      /\ [proc[p] EXCEPT !.pc = c, !.key = k] \in ProcType
  BY <1>2 DEF ProcType
<1>4. /\ [proc EXCEPT ![p].pc = c] = [proc EXCEPT ![p] = [proc[p] EXCEPT !.pc = c]]
      /\ [proc EXCEPT ![p].pc = c, ![p].key = k]
            = [proc EXCEPT ![p] = [proc[p] EXCEPT !.pc = c, !.key = k]]
  BY <1>1
<1> DEFINE one == [proc[p] EXCEPT !.pc = c]
           two == [proc[p] EXCEPT !.pc = c, !.key = k]
<1> HIDE DEF one, two
<1>5. one \in ProcType => [proc EXCEPT ![p] = one] \in [Key -> ProcType]
  BY <1>1
<1>6. two \in ProcType => [proc EXCEPT ![p] = two] \in [Key -> ProcType]
  BY <1>1
<1> QED
  BY <1>3, <1>4, <1>5, <1>6 DEF one, two

LEMMA SeenTyped ==
  ASSUME Typed, NEW p \in Key, NEW c \in {"start", "idle", "ended"} \cup Busy, NEW k \in Key
  PROVE  [proc EXCEPT ![p].pc = c, ![p].seen = current_tasks[UserOf(k)]] \in [Key -> ProcType]
<1> DEFINE listed == current_tasks[UserOf(k)]
<1>1. listed \in SUBSET Key
  BY UserOfType DEF Typed
<1> HIDE DEF listed
<1>2. proc \in [Key -> ProcType] /\ proc[p] \in ProcType
  BY DEF Typed, ProcType
<1> DEFINE new == [proc[p] EXCEPT !.pc = c, !.seen = listed]
<1>3. new \in ProcType
  BY <1>1, <1>2 DEF ProcType
<1>4. [proc EXCEPT ![p].pc = c, ![p].seen = listed] = [proc EXCEPT ![p] = new]
  BY <1>2
<1> HIDE DEF new
<1>5. [proc EXCEPT ![p] = new] \in [Key -> ProcType]
  BY <1>2, <1>3
<1> QED
  BY <1>4, <1>5 DEF listed

(* A step keeps the types if it keeps those of the data and moves its process *)
(* to a place of its kind.                                                    *)
LEMMA MovesTyped ==
  ASSUME Typed, NEW p \in Key, NEW c, NEW k, NEW seen,
         Moves(p, c, k, seen), FitsKind(p, c, k), proc' \in [Key -> ProcType],
         progress' \in [Key -> (0 .. Last) \cup {Missing}],
         current_tasks' \in [User \cup {Zero} -> SUBSET Key],
         next' \in [Task -> 0 .. Last + 1], overlap' = overlap
  PROVE  Typed'
<1> USE TaskAssumption DEF Key
<1>1. \A q \in Key : FitsKind(q, proc'[q].pc, proc'[q].key)
  <2>1. \A q \in Key : q # p => proc'[q] = proc[q]
    BY DEF Moves
  <2>2. FitsKind(p, proc'[p].pc, proc'[p].key)
    BY DEF Moves
  <2> QED
    BY <2>1, <2>2 DEF Typed
<1> QED
  BY <1>1 DEF Typed

LEMMA OverlapKept == [Next]_vars => overlap' = overlap
  BY DEF Next, vars, Set, Delay, PutRead, PutWrite, GetFromCache, DelRead, DelWrite, DelRem

LEMMA TypedStep == ASSUME Typed, [Next]_vars PROVE Typed'
<1> USE Pointwise, TaskKind, WorkerKind, DeleterKind, Effects, TaskAssumption, LastAssumption DEF Key, Busy
<1>0. /\ progress \in [Key -> (0 .. Last) \cup {Missing}] /\ next \in [Task -> 0 .. Last + 1]
      /\ current_tasks \in [User \cup {Zero} -> SUBSET Key] /\ overlap' = overlap
  BY OverlapKept DEF Typed
<1>1. CASE UNCHANGED vars
  BY <1>1 DEF vars, Typed
<1>2. ASSUME NEW p \in Reporter, Set(p) PROVE Typed'
  <2>1. /\ progress' = [progress EXCEPT ![proc[p].key] = next[TaskOf(p)]]
        /\ next' = [next EXCEPT ![TaskOf(p)] = @ + 1]
        /\ proc' = [proc EXCEPT ![p].pc = "put_read"]
        /\ current_tasks' = current_tasks /\ proc[p].pc = "idle" /\ next[TaskOf(p)] <= Last
    BY <1>2 DEF Set
  <2>2. next[TaskOf(p)] \in 0 .. Last /\ next[TaskOf(p)] + 1 \in 0 .. Last + 1
    BY <1>0, <2>1
  <2>3. progress' \in [Key -> (0 .. Last) \cup {Missing}] /\ next' \in [Task -> 0 .. Last + 1]
    BY <1>0, <2>1, <2>2
  <2>4. proc' \in [Key -> ProcType]
    BY <2>1, ProcTyped
  <2>5. Moves(p, "put_read", proc[p].key, proc[p].seen)
    BY <1>2
  <2>6. FitsKind(p, "put_read", proc[p].key)
    BY <2>1 DEF FitsKind
  <2> QED
    BY <1>0, <2>1, <2>3, <2>4, <2>5, <2>6, MovesTyped
<1>3. ASSUME NEW t \in Task, Delay(t) PROVE Typed'
  <2>1. /\ proc' = [proc EXCEPT ![t].pc = "ended"]
        /\ UNCHANGED <<progress, current_tasks, next>>
    BY <1>3 DEF Delay
  <2>2. proc' \in [Key -> ProcType]
    BY <2>1, ProcTyped
  <2>3. Moves(t, "ended", t, proc[t].seen) /\ FitsKind(t, "ended", t)
    BY <1>3 DEF FitsKind
  <2> QED
    BY <1>0, <2>1, <2>2, <2>3, MovesTyped
<1>4. ASSUME NEW p \in Key, PutRead(p) PROVE Typed'
  <2>1. UNCHANGED <<progress, current_tasks, next>> /\ proc[p].pc = "put_read"
    BY <1>4 DEF PutRead
  <2>2. proc' \in [Key -> ProcType]
    <3>1. proc' = [proc EXCEPT ![p].pc = "put_write",
                               ![p].seen = current_tasks[UserOf(proc[p].key)]]
      BY <1>4 DEF PutRead
    <3>2. proc[p].key \in Key /\ "put_write" \in {"start", "idle", "ended"} \cup Busy
      OBVIOUS
    <3> QED
      BY <3>1, <3>2, SeenTyped, Zenon
  <2>3. /\ Moves(p, "put_write", proc[p].key, current_tasks[UserOf(proc[p].key)])
        /\ FitsKind(p, "put_write", proc[p].key)
    BY <1>4, <2>1 DEF FitsKind
  <2> QED
    BY <1>0, <2>1, <2>2, <2>3, MovesTyped
<1>5. ASSUME NEW p \in Key, PutWrite(p) PROVE Typed'
  <2>1. /\ UNCHANGED <<progress, next>> /\ proc[p].pc = "put_write"
        /\ proc' = [proc EXCEPT ![p].pc = IF p \in Reporter THEN "idle" ELSE "del_read"]
        /\ current_tasks' = [current_tasks EXCEPT
                                ![UserOf(proc[p].key)] = proc[p].seen \cup {proc[p].key}]
    BY <1>5 DEF PutWrite
  <2>2. proc' \in [Key -> ProcType]
    BY <2>1, ProcTyped
  <2>3. proc[p].seen \subseteq Key
    BY DEF Typed, ProcType
  <2>4. current_tasks' \in [User \cup {Zero} -> SUBSET Key]
    BY <1>0, <2>1, <2>3
  <2>5. /\ Moves(p, IF p \in Reporter THEN "idle" ELSE "del_read", proc[p].key, proc[p].seen)
        /\ FitsKind(p, IF p \in Reporter THEN "idle" ELSE "del_read", proc[p].key)
    BY <1>5, <2>1 DEF FitsKind, Reporter
  <2> QED
    BY <1>0, <2>1, <2>2, <2>4, <2>5, MovesTyped
<1>6. ASSUME NEW p \in Worker \cup Deleter, NEW t \in Task, GetFromCache(p, t) PROVE Typed'
  <2>0. /\ p \in Key /\ p \notin Task /\ proc[p].pc = "start" /\ proc[p].key = p
        /\ p \in Worker => Runs[p] = t
        /\ UNCHANGED <<current_tasks, next>>
    BY <1>6 DEF GetFromCache, MayLookUp
  <2>1. CASE progress[t] # Missing
    <3>1. /\ proc' = [proc EXCEPT ![p].pc = IF p \in Worker THEN "idle" ELSE "del_read", ![p].key = t]
          /\ progress' = progress
      BY <1>6, <2>1 DEF GetFromCache
    <3>2. proc' \in [Key -> ProcType]
      <4>1. CASE p \in Worker
        BY <2>0, <3>1, <4>1, ProcTyped
      <4>2. CASE p \notin Worker
        BY <2>0, <3>1, <4>2, ProcTyped
      <4> QED
        BY <4>1, <4>2
    <3> DEFINE pc == IF p \in Worker THEN "idle" ELSE "del_read"
    <3>3. Moves(p, pc, t, proc[p].seen) /\ FitsKind(p, pc, t)
      BY <1>6, <2>0, <2>1 DEF FitsKind
    <3> HIDE DEF pc
    <3> QED
      BY <1>0, <2>0, <3>1, <3>2, <3>3, MovesTyped
  <2>2. CASE progress[t] = Missing
    <3>1. /\ proc' = [proc EXCEPT ![p].pc = "put_read"]
          /\ progress' = [progress EXCEPT ![p] = 0]
      BY <1>6, <2>2 DEF GetFromCache
    <3>2. proc' \in [Key -> ProcType]
      BY <2>0, <3>1, ProcTyped
    <3>3. Moves(p, "put_read", p, proc[p].seen) /\ FitsKind(p, "put_read", p)
      BY <1>6, <2>0, <2>2 DEF FitsKind
    <3>4. progress' \in [Key -> (0 .. Last) \cup {Missing}]
      BY <1>0, <2>0, <3>1
    <3> QED
      BY <1>0, <2>0, <3>2, <3>3, <3>4, MovesTyped
  <2> QED
    BY <2>1, <2>2
<1>7. ASSUME NEW d \in Deleter, DelRead(d) PROVE Typed'
  <2>1. UNCHANGED <<progress, current_tasks, next>> /\ proc[d].pc = "del_read"
    BY <1>7 DEF DelRead
  <2>2. CASE proc[d].key \in current_tasks[UserOf(proc[d].key)]
    <3>1. proc' \in [Key -> ProcType]
      <4>1. proc' = [proc EXCEPT ![d].pc = "del_write",
                                 ![d].seen = current_tasks[UserOf(proc[d].key)]]
        <5> DEFINE u == UserOf(proc[d].key)
        <5>1. proc[d].key \in current_tasks[u]
          BY <2>2
        <5> HIDE DEF u
        <5> QED
          BY <1>7, <5>1 DEF DelRead, u
      <4>2. d \in Key /\ proc[d].key \in Key /\ "del_write" \in {"start", "idle", "ended"} \cup Busy
        OBVIOUS
      <4> HIDE DEF Key, Busy
      <4> QED
        BY <4>1, <4>2, SeenTyped, Zenon
    <3>2. /\ Moves(d, "del_write", proc[d].key, current_tasks[UserOf(proc[d].key)])
          /\ FitsKind(d, "del_write", proc[d].key)
      BY <1>7, <2>2 DEF FitsKind
    <3> QED
      BY <1>0, <2>1, <3>1, <3>2, MovesTyped
  <2>3. CASE proc[d].key \notin current_tasks[UserOf(proc[d].key)]
    <3>1. proc' \in [Key -> ProcType]
      <4>1. proc' = [proc EXCEPT ![d].pc = "ended"]
        BY <1>7, <2>3 DEF DelRead
      <4> QED
        BY <4>1, ProcTyped
    <3>2. Moves(d, "ended", proc[d].key, proc[d].seen) /\ FitsKind(d, "ended", proc[d].key)
      BY <1>7, <2>3 DEF FitsKind
    <3> QED
      BY <1>0, <2>1, <3>1, <3>2, MovesTyped
  <2> QED
    BY <2>2, <2>3
<1>8. ASSUME NEW d \in Deleter, DelWrite(d) PROVE Typed'
  <2>1. /\ UNCHANGED <<progress, next>> /\ proc' = [proc EXCEPT ![d].pc = "del_rem"]
        /\ current_tasks' = [current_tasks EXCEPT
                                ![UserOf(proc[d].key)] = proc[d].seen \ {proc[d].key}]
    BY <1>8 DEF DelWrite
  <2>2. proc' \in [Key -> ProcType]
    BY <2>1, ProcTyped
  <2>3. proc[d].seen \subseteq Key
    BY DEF Typed, ProcType
  <2>4. current_tasks' \in [User \cup {Zero} -> SUBSET Key]
    BY <1>0, <2>1, <2>3
  <2>5. Moves(d, "del_rem", proc[d].key, proc[d].seen) /\ FitsKind(d, "del_rem", proc[d].key)
    BY <1>8 DEF FitsKind
  <2> QED
    BY <1>0, <2>1, <2>2, <2>4, <2>5, MovesTyped
<1>9. ASSUME NEW d \in Deleter, DelRem(d) PROVE Typed'
  <2>1. /\ UNCHANGED <<current_tasks, next>> /\ proc' = [proc EXCEPT ![d].pc = "ended"]
        /\ progress' = [progress EXCEPT ![proc[d].key] = Missing]
    BY <1>9 DEF DelRem
  <2>2. proc' \in [Key -> ProcType]
    BY <2>1, ProcTyped
  <2>3. progress' \in [Key -> (0 .. Last) \cup {Missing}]
    BY <1>0, <2>1
  <2>4. Moves(d, "ended", proc[d].key, proc[d].seen) /\ FitsKind(d, "ended", proc[d].key)
    BY <1>9 DEF FitsKind
  <2> QED
    BY <1>0, <2>1, <2>2, <2>3, <2>4, MovesTyped
<1> QED
  BY <1>1, <1>2, <1>3, <1>4, <1>5, <1>6, <1>7, <1>8, <1>9 DEF Next

LEMMA MovingStep ==
  ASSUME ListedInv, [Next]_vars PROVE ListedOrMoving'
<1> USE Effects, Pointwise, TaskKind, WorkerKind, DeleterKind, TaskAssumption DEF ListedInv, Key, Busy
<1> SUFFICES ASSUME NEW t \in Task, OnlyTask(t), progress'[t] # Missing
             PROVE  Accounted(t)'
  BY DEF ListedOrMoving, OnlyTask
<1>0. progress[t] # Missing => Accounted(t)
  BY DEF ListedOrMoving
<1>1. CASE UNCHANGED vars
  BY <1>0, <1>1 DEF vars, Accounted, UserOf
<1>2. ASSUME NEW p \in Reporter, Set(p) PROVE Accounted(t)'
  <2>1. Moves(p, "put_read", proc[p].key, proc[p].seen) /\ current_tasks' = current_tasks
    BY <1>2 DEF Set
  <2>2. p \in Key /\ proc[p].pc \notin Busy
    BY <1>2 DEF Set, Reporter
  <2>3. proc[p].key # t => progress'[t] = progress[t]
    BY <1>2 DEF Set, Typed
  <2>4. CASE proc[p].key = t
    BY <2>1, <2>2, <2>4 DEF Moves, Accounted
  <2>5. CASE proc[p].key # t
    BY <1>0, <2>1, <2>2, <2>3, <2>5 DEF Moves, Accounted, UserOf, Reporter
  <2> QED
    BY <2>4, <2>5
<1>9. ASSUME NEW s \in Task, Delay(s) PROVE Accounted(t)'
  <2>1. Moves(s, "ended", s, proc[s].seen) /\ UNCHANGED <<progress, current_tasks>>
    BY <1>9 DEF Delay
  <2>2. proc[s].pc = "idle"
    BY <1>9 DEF Delay
  <2> QED
    BY <1>0, <2>1, <2>2 DEF Moves, Accounted, UserOf
<1>3. ASSUME NEW p \in Key, PutRead(p) PROVE Accounted(t)'
  <2>1. /\ Moves(p, "put_write", proc[p].key, current_tasks[UserOf(proc[p].key)])
        /\ UNCHANGED <<progress, current_tasks>> /\ proc[p].pc = "put_read"
    BY <1>3 DEF PutRead
  <2> QED
    BY <1>0, <2>1 DEF Moves, Accounted, UserOf
<1>4. ASSUME NEW p \in Key, PutWrite(p) PROVE Accounted(t)'
  <2>1. /\ Moves(p, IF p \in Reporter THEN "idle" ELSE "del_read", proc[p].key, proc[p].seen)
        /\ progress' = progress /\ proc[p].pc = "put_write"
    BY <1>4 DEF PutWrite
  <2>2. current_tasks' = [current_tasks EXCEPT
                            ![UserOf(proc[p].key)] = proc[p].seen \cup {proc[p].key}]
    BY <1>4 DEF PutWrite
  <2>3. CASE proc[p].key = t
    BY <2>2, <2>3, TaskAssumption DEF Accounted, UserOf, Typed
  <2>4. CASE proc[p].key # t
    <3>1. UserOf(proc[p].key) # Owner[t]
      BY <2>4 DEF UserOf, OnlyTask
    <3>2. current_tasks'[Owner[t]] = current_tasks[Owner[t]]
      BY <2>2, <3>1 DEF Typed
    <3> QED
      BY <1>0, <2>1, <2>4, <3>2 DEF Moves, Accounted, UserOf
  <2> QED
    BY <2>3, <2>4
<1>5. ASSUME NEW p \in Worker \cup Deleter, NEW s \in Task, GetFromCache(p, s) PROVE Accounted(t)'
  <2>1. /\ \A q \in Key : q # p => proc'[q] = proc[q]
        /\ proc[p].pc = "start" /\ current_tasks' = current_tasks /\ p # t /\ p \in Key
    BY <1>5 DEF GetFromCache, MayLookUp, Moves
  <2>2. progress'[t] = progress[t]
    BY <1>5, <2>1 DEF GetFromCache, Typed
  <2> QED
    BY <1>0, <2>1, <2>2 DEF Accounted, UserOf
<1>6. ASSUME NEW d \in Deleter, DelRead(d) PROVE Accounted(t)'
  <2>1. /\ \A q \in Key : q # d => proc'[q] = proc[q]
        /\ proc[d].pc = "del_read" /\ UNCHANGED <<progress, current_tasks>>
    BY <1>6 DEF DelRead, Moves
  <2> QED
    BY <1>0, <2>1 DEF Accounted, UserOf
<1>7. ASSUME NEW d \in Deleter, DelWrite(d) PROVE Accounted(t)'
  <2>1. /\ Moves(d, "del_rem", proc[d].key, proc[d].seen)
        /\ progress' = progress /\ proc[d].pc = "del_write"
    BY <1>7 DEF DelWrite
  <2>2. current_tasks' = [current_tasks EXCEPT
                            ![UserOf(proc[d].key)] = proc[d].seen \ {proc[d].key}]
    BY <1>7 DEF DelWrite
  <2>3. CASE proc[d].key = t
    BY <2>1, <2>3 DEF Moves, Accounted
  <2>4. CASE proc[d].key # t
    <3>1. UserOf(proc[d].key) # Owner[t]
      BY <2>4 DEF UserOf, OnlyTask
    <3>2. current_tasks'[Owner[t]] = current_tasks[Owner[t]]
      BY <2>2, <3>1 DEF Typed
    <3> QED
      BY <1>0, <2>1, <3>2 DEF Moves, Accounted, UserOf
  <2> QED
    BY <2>3, <2>4
<1>8. ASSUME NEW d \in Deleter, DelRem(d) PROVE Accounted(t)'
  <2>1. /\ Moves(d, "ended", proc[d].key, proc[d].seen)
        /\ current_tasks' = current_tasks /\ proc[d].pc = "del_rem"
    BY <1>8 DEF DelRem
  <2>2. proc[d].key # t /\ progress'[t] = progress[t]
    BY <1>8 DEF DelRem, Typed
  <2> QED
    BY <1>0, <2>1, <2>2 DEF Moves, Accounted, UserOf
<1> QED
  BY <1>1, <1>2, <1>3, <1>4, <1>5, <1>6, <1>7, <1>8, <1>9 DEF Next

LEMMA LostStep == ASSUME Typed, LostInv, [Next]_vars PROVE LostInv'
<1> USE Effects, Pointwise, TaskKind, WorkerKind, DeleterKind, TaskAssumption DEF Key
<1> SUFFICES ASSUME NEW w \in Worker
             PROVE  /\ proc'[w].pc # "start" => proc'[Runs[w]].pc = "ended"
                    /\ proc'[w].pc # "start" /\ proc'[w].key = w => progress'[Runs[w]] = Missing
                    /\ progress'[w] # Missing => proc'[w].pc # "start" /\ proc'[w].key = w
  BY DEF LostInv
<1>0. /\ proc[w].pc # "start" => proc[Runs[w]].pc = "ended"
      /\ proc[w].pc # "start" /\ proc[w].key = w => progress[Runs[w]] = Missing
      /\ progress[w] # Missing => proc[w].pc # "start" /\ proc[w].key = w
  BY DEF LostInv
<1>1. CASE UNCHANGED vars
  BY <1>0, <1>1 DEF vars
<1>2. ASSUME NEW p \in Reporter, Set(p) PROVE LostInv'
  <2>1. /\ Moves(p, "put_read", proc[p].key, proc[p].seen)
        /\ proc[p].pc = "idle" /\ p \in Key
    BY <1>2 DEF Set, Reporter
  <2>2. \A k \in Key : k # proc[p].key => progress'[k] = progress[k]
    BY <1>2 DEF Set, Typed
  <2> SUFFICES ASSUME NEW v \in Worker
               PROVE  /\ proc'[v].pc # "start" => proc'[Runs[v]].pc = "ended"
                      /\ proc'[v].pc # "start" /\ proc'[v].key = v => progress'[Runs[v]] = Missing
                      /\ progress'[v] # Missing => proc'[v].pc # "start" /\ proc'[v].key = v
    BY DEF LostInv
  <2>3. /\ proc[v].pc # "start" => proc[Runs[v]].pc = "ended"
        /\ proc[v].pc # "start" /\ proc[v].key = v => progress[Runs[v]] = Missing
        /\ progress[v] # Missing => proc[v].pc # "start" /\ proc[v].key = v
    BY DEF LostInv
  <2>4. proc[v].pc # "start" => p # Runs[v]
    BY <2>1, <2>3
  <2>5. proc'[v].key = proc[v].key /\ (proc'[v].pc # "start" <=> proc[v].pc # "start")
    BY <2>1 DEF Moves
  <2>6. proc[v].pc # "start" /\ proc[v].key = v => proc[p].key # Runs[v]
    BY <2>1, <2>4 DEF Reporter
  <2>7. proc[p].key = v => p = v
    BY DEF Reporter
  <2> QED
    BY <2>1, <2>2, <2>3, <2>4, <2>5, <2>6, <2>7 DEF Moves
<1>9. ASSUME NEW s \in Task, Delay(s) PROVE LostInv'
  <2>1. Moves(s, "ended", s, proc[s].seen) /\ progress' = progress
    BY <1>9 DEF Delay
  <2> QED
    BY <2>1 DEF Moves, LostInv
<1>3. ASSUME NEW p \in Key, PutRead(p) PROVE LostInv'
  <2>1. /\ Moves(p, "put_write", proc[p].key, current_tasks[UserOf(proc[p].key)])
        /\ progress' = progress /\ proc[p].pc = "put_read"
    BY <1>3 DEF PutRead
  <2> QED
    BY <2>1 DEF Moves, LostInv
<1>4. ASSUME NEW p \in Key, PutWrite(p) PROVE LostInv'
  <2>1. /\ Moves(p, IF p \in Reporter THEN "idle" ELSE "del_read", proc[p].key, proc[p].seen)
        /\ progress' = progress /\ proc[p].pc = "put_write"
    BY <1>4 DEF PutWrite
  <2> QED
    BY <2>1 DEF Moves, LostInv
<1>5. ASSUME NEW p \in Worker \cup Deleter, NEW s \in Task, GetFromCache(p, s) PROVE LostInv'
  <2>1. /\ IF progress[s] # Missing
           THEN Moves(p, IF p \in Worker THEN "idle" ELSE "del_read", s, proc[p].seen)
           ELSE Moves(p, "put_read", p, proc[p].seen)
        /\ p \in Worker => Runs[p] = s /\ proc[s].pc = "ended"
    BY <1>5 DEF GetFromCache, MayLookUp
  <2>2. \A k \in Key : progress'[k] = IF progress[s] = Missing /\ k = p THEN 0 ELSE progress[k]
    BY <1>5 DEF GetFromCache, Typed
  <2> QED
    BY <2>1, <2>2 DEF Moves, LostInv
<1>6. ASSUME NEW d \in Deleter, DelRead(d) \/ DelWrite(d) \/ DelRem(d) PROVE LostInv'
  <2>1. \A q \in Key : q # d => proc'[q] = proc[q]
    BY <1>6 DEF Moves
  <2>2. \A k \in Key : progress'[k] = progress[k] \/ (k = proc[d].key /\ progress'[k] = Missing)
    BY <1>6 DEF DelRead, DelWrite, DelRem, Typed
  <2> QED
    BY <2>1, <2>2 DEF LostInv
<1> QED
  BY <1>1, <1>2, <1>3, <1>4, <1>5, <1>6, <1>9 DEF Next, LostInv

LEMMA SerialInit == Init => SerialInv
<1> SUFFICES ASSUME Init PROVE SerialFacts
  BY DEF SerialInv
<1>1. \A k \in Key : progress[k] = Missing /\ proc[k].pc \notin Busy
  BY DEF Init, Busy
<1>2. \A u \in User \cup {Zero} : current_tasks[u] = {}
  BY DEF Init
<1> QED
  BY <1>1, <1>2, UserOfType
     DEF SerialFacts, OneBusy, SeenIsCurrent, OwnLists, PutsAreRecorded, ListedAreRecorded,
         RemovedAreUnlisted, AllAccounted, DummiesBelong, Key, Busy

LEMMA SerialStep ==
  ASSUME Typed, SerialInv, [Next]_vars PROVE SerialInv'
<1> SUFFICES ASSUME ~overlap' PROVE SerialFacts'
  BY DEF SerialInv
<1>0. ~overlap /\ SerialFacts
  BY OverlapKept DEF SerialInv
<1> USE Pointwise, TaskKind, WorkerKind, DeleterKind, TaskAssumption DEF SerialFacts, Key, Busy
<1>1. CASE UNCHANGED vars
  BY <1>0, <1>1 DEF vars, UserOf, Accounted, OneBusy, SeenIsCurrent, OwnLists, PutsAreRecorded, ListedAreRecorded, RemovedAreUnlisted, AllAccounted, DummiesBelong
<1>9. ASSUME NEW t \in Task, Delay(t) PROVE SerialFacts'
  <2>1. Moves(t, "ended", t, proc[t].seen)
    BY <1>9, Effects
  <2>2. progress' = progress /\ current_tasks' = current_tasks /\ proc[t].pc = "idle"
    BY <1>9 DEF Delay
  <2>5. OneBusy'
    BY <1>0, <2>1, <2>2 DEF Moves, OneBusy
  <2>6. SeenIsCurrent' /\ OwnLists' /\ PutsAreRecorded'
    BY <1>0, <2>1, <2>2 DEF Moves, SeenIsCurrent, OwnLists, PutsAreRecorded, UserOf
  <2>7. ListedAreRecorded' /\ RemovedAreUnlisted'
    BY <1>0, <2>1, <2>2 DEF Moves, ListedAreRecorded, RemovedAreUnlisted, UserOf
  <2>8. AllAccounted'
    BY <1>0, <2>1, <2>2 DEF Moves, AllAccounted, Accounted, UserOf
  <2>9. DummiesBelong'
    BY <1>0, <2>1, <2>2 DEF Moves, DummiesBelong
  <2> QED
    BY <2>5, <2>6, <2>7, <2>8, <2>9
<1>2. ASSUME NEW p \in Reporter, Set(p) PROVE SerialFacts'
  <2>1. Moves(p, "put_read", proc[p].key, proc[p].seen)
    BY <1>2, Effects
  <2>2. \A k \in Key : progress'[k] = IF k = proc[p].key THEN next[TaskOf(p)] ELSE progress[k]
    BY <1>2 DEF Set, Typed
  <2>3. current_tasks' = current_tasks
    BY <1>2 DEF Set
  <2>4. next[TaskOf(p)] # Missing /\ \A q \in Key : proc[q].pc \notin Busy
    BY <1>0, <1>2, LastAssumption DEF Set, MayBegin
  <2>5. OneBusy'
    BY <1>0, <2>1, <2>2, <2>3, <2>4 DEF Moves, OneBusy
  <2>6. SeenIsCurrent'
    BY <1>0, <2>1, <2>2, <2>3, <2>4 DEF Moves, SeenIsCurrent, UserOf
  <2>7. OwnLists'
    BY <1>0, <2>1, <2>2, <2>3, <2>4 DEF Moves, OwnLists, UserOf
  <2>8. PutsAreRecorded'
    BY <1>0, <2>1, <2>2, <2>3, <2>4 DEF Moves, PutsAreRecorded
  <2>9. ListedAreRecorded'
    BY <1>0, <2>1, <2>2, <2>3, <2>4 DEF Moves, ListedAreRecorded, PutsAreRecorded, RemovedAreUnlisted, UserOf
  <2>10. RemovedAreUnlisted'
    BY <1>0, <2>1, <2>2, <2>3, <2>4 DEF Moves, RemovedAreUnlisted, UserOf
  <2>11. AllAccounted'
    BY <1>0, <2>1, <2>2, <2>3, <2>4 DEF Moves, AllAccounted, Accounted, PutsAreRecorded, UserOf
  <2>12. DummiesBelong'
    BY <1>0, <2>1, <2>2, <2>3, <2>4 DEF Moves, DummiesBelong, Reporter
  <2> QED
    BY <2>5, <2>6, <2>7, <2>8, <2>9, <2>10, <2>11, <2>12
<1>3. ASSUME NEW p \in Key, PutRead(p) PROVE SerialFacts'
  <2>1. Moves(p, "put_write", proc[p].key, current_tasks[UserOf(proc[p].key)])
    BY <1>3, Effects
  <2>2. progress' = progress /\ current_tasks' = current_tasks
    BY <1>3 DEF PutRead
  <2>3. proc[p].pc = "put_read" /\ \A q \in Key : q # p => proc[q].pc \notin Busy
    BY <1>0, <1>3 DEF PutRead, OneBusy
  <2>4. OneBusy'
    BY <1>0, <2>1, <2>2, <2>3 DEF Moves, OneBusy
  <2>5. SeenIsCurrent'
    BY <1>0, <2>1, <2>2, <2>3 DEF Moves, SeenIsCurrent, UserOf
  <2>6. OwnLists'
    BY <1>0, <2>1, <2>2, <2>3 DEF Moves, OwnLists, UserOf
  <2>7. PutsAreRecorded'
    BY <1>0, <2>1, <2>2, <2>3 DEF Moves, PutsAreRecorded
  <2>8. ListedAreRecorded'
    BY <1>0, <2>1, <2>2, <2>3 DEF Moves, ListedAreRecorded, PutsAreRecorded, RemovedAreUnlisted, UserOf
  <2>9. RemovedAreUnlisted'
    BY <1>0, <2>1, <2>2, <2>3 DEF Moves, RemovedAreUnlisted, UserOf
  <2>10. AllAccounted'
    BY <1>0, <2>1, <2>2, <2>3 DEF Moves, AllAccounted, Accounted, PutsAreRecorded, UserOf
  <2>11. DummiesBelong'
    BY <1>0, <2>1, <2>2, <2>3 DEF Moves, DummiesBelong, AllAccounted, Accounted
  <2> QED
    BY <2>4, <2>5, <2>6, <2>7, <2>8, <2>9, <2>10, <2>11
<1>4. ASSUME NEW p \in Key, PutWrite(p) PROVE SerialFacts'
  <2>1. Moves(p, IF p \in Reporter THEN "idle" ELSE "del_read", proc[p].key, proc[p].seen)
    BY <1>4, Effects
  <2>2. proc[p].pc = "put_write" /\ \A q \in Key : q # p => proc[q].pc \notin Busy
    BY <1>0, <1>4 DEF PutWrite, OneBusy
  <2>3. progress' = progress
    BY <1>4 DEF PutWrite
  <2>4. \A u \in User \cup {Zero} : \A k : k \in current_tasks'[u] <=>
             k \in current_tasks[u] \/ (u = UserOf(proc[p].key) /\ k = proc[p].key)
    <3>1. proc[p].seen = current_tasks[UserOf(proc[p].key)]
      BY <1>0, <2>2 DEF SeenIsCurrent
    <3>2. current_tasks' = [current_tasks EXCEPT ![UserOf(proc[p].key)] = proc[p].seen \cup {proc[p].key}]
      BY <1>4, <2>2 DEF PutWrite
    <3>3. current_tasks \in [User \cup {Zero} -> SUBSET Key]
      BY DEF Typed
    <3> QED
      BY <3>1, <3>2, <3>3
  <2>5. OneBusy'
    BY <1>0, <2>1, <2>2, <2>3, <2>4 DEF Moves, OneBusy
  <2>6. SeenIsCurrent'
    BY <1>0, <2>1, <2>2, <2>3, <2>4 DEF Moves, SeenIsCurrent, UserOf
  <2>7. OwnLists'
    BY <1>0, <2>1, <2>2, <2>3, <2>4 DEF Moves, OwnLists, UserOf
  <2>8. PutsAreRecorded'
    BY <1>0, <2>1, <2>2, <2>3, <2>4 DEF Moves, PutsAreRecorded
  <2>9. ListedAreRecorded'
    BY <1>0, <2>1, <2>2, <2>3, <2>4 DEF Moves, ListedAreRecorded, PutsAreRecorded, RemovedAreUnlisted, UserOf
  <2>10. RemovedAreUnlisted'
    BY <1>0, <2>1, <2>2, <2>3, <2>4 DEF Moves, RemovedAreUnlisted, UserOf
  <2>11. AllAccounted'
    BY <1>0, <2>1, <2>2, <2>3, <2>4 DEF Moves, AllAccounted, Accounted, PutsAreRecorded, UserOf
  <2>12. DummiesBelong'
    BY <1>0, <2>1, <2>2, <2>3, <2>4 DEF Moves, DummiesBelong, Reporter
  <2> QED
    BY <2>5, <2>6, <2>7, <2>8, <2>9, <2>10, <2>11, <2>12
<1>5. ASSUME NEW p \in Worker \cup Deleter, NEW t \in Task, GetFromCache(p, t) PROVE SerialFacts'
  <2>1. IF progress[t] # Missing
        THEN Moves(p, IF p \in Worker THEN "idle" ELSE "del_read", t, proc[p].seen)
        ELSE Moves(p, "put_read", p, proc[p].seen)
    BY <1>5, Effects
  <2>2. \A k \in Key : progress'[k] = IF progress[t] = Missing /\ k = p THEN 0 ELSE progress[k]
    BY <1>5 DEF GetFromCache, Typed
  <2>3. current_tasks' = current_tasks /\ proc[p].pc = "start" /\ p \in Key
    BY <1>5 DEF GetFromCache, MayLookUp
  <2>4. Missing # 0 /\ \A q \in Key : proc[q].pc \notin Busy
    BY <1>0, <1>5, LastAssumption DEF GetFromCache, MayLookUp, MayBegin
  <2>5. OneBusy'
    BY <1>0, <2>1, <2>2, <2>3, <2>4 DEF Moves, OneBusy
  <2>6. SeenIsCurrent'
    BY <1>0, <2>1, <2>2, <2>3, <2>4 DEF Moves, SeenIsCurrent, UserOf
  <2>7. OwnLists'
    BY <1>0, <2>1, <2>2, <2>3, <2>4 DEF Moves, OwnLists, UserOf
  <2>8. PutsAreRecorded'
    BY <1>0, <2>1, <2>2, <2>3, <2>4 DEF Moves, PutsAreRecorded
  <2>9. ListedAreRecorded'
    BY <1>0, <2>1, <2>2, <2>3, <2>4 DEF Moves, ListedAreRecorded, PutsAreRecorded, RemovedAreUnlisted, UserOf
  <2>10. RemovedAreUnlisted'
    BY <1>0, <2>1, <2>2, <2>3, <2>4 DEF Moves, RemovedAreUnlisted, UserOf
  <2>11. AllAccounted'
    BY <1>0, <2>1, <2>2, <2>3, <2>4 DEF Moves, AllAccounted, Accounted, PutsAreRecorded, UserOf
  <2>12. DummiesBelong'
    BY <1>0, <2>1, <2>2, <2>3, <2>4 DEF Moves, DummiesBelong, AllAccounted, Accounted
  <2> QED
    BY <2>5, <2>6, <2>7, <2>8, <2>9, <2>10, <2>11, <2>12
<1>6. ASSUME NEW d \in Deleter, DelRead(d) PROVE SerialFacts'
  <2>1. IF proc[d].key \in current_tasks[UserOf(proc[d].key)]
        THEN Moves(d, "del_write", proc[d].key, current_tasks[UserOf(proc[d].key)])
        ELSE Moves(d, "ended", proc[d].key, proc[d].seen)
    BY <1>6, Effects
  <2>2. progress' = progress /\ current_tasks' = current_tasks
    BY <1>6 DEF DelRead
  <2>3. proc[d].pc = "del_read" /\ \A q \in Key : q # d => proc[q].pc \notin Busy
    BY <1>0, <1>6 DEF DelRead, OneBusy
  <2>4. OneBusy'
    BY <1>0, <2>1, <2>2, <2>3 DEF Moves, OneBusy
  <2>5. SeenIsCurrent'
    BY <1>0, <2>1, <2>2, <2>3 DEF Moves, SeenIsCurrent, UserOf
  <2>6. OwnLists'
    BY <1>0, <2>1, <2>2, <2>3 DEF Moves, OwnLists, UserOf
  <2>7. PutsAreRecorded'
    BY <1>0, <2>1, <2>2, <2>3 DEF Moves, PutsAreRecorded
  <2>8. ListedAreRecorded'
    BY <1>0, <2>1, <2>2, <2>3 DEF Moves, ListedAreRecorded, PutsAreRecorded, RemovedAreUnlisted, UserOf
  <2>9. RemovedAreUnlisted'
    BY <1>0, <2>1, <2>2, <2>3 DEF Moves, RemovedAreUnlisted, UserOf
  <2>10. AllAccounted'
    BY <1>0, <2>1, <2>2, <2>3 DEF Moves, AllAccounted, Accounted, PutsAreRecorded, UserOf
  <2>11. DummiesBelong'
    BY <1>0, <2>1, <2>2, <2>3 DEF Moves, DummiesBelong, AllAccounted, Accounted
  <2> QED
    BY <2>4, <2>5, <2>6, <2>7, <2>8, <2>9, <2>10, <2>11
<1>7. ASSUME NEW d \in Deleter, DelWrite(d) PROVE SerialFacts'
  <2>1. Moves(d, "del_rem", proc[d].key, proc[d].seen)
    BY <1>7, Effects
  <2>2. proc[d].pc = "del_write" /\ \A q \in Key : q # d => proc[q].pc \notin Busy
    BY <1>0, <1>7 DEF DelWrite, OneBusy
  <2>3. progress' = progress
    BY <1>7 DEF DelWrite
  <2>4. \A u \in User \cup {Zero} : \A k : k \in current_tasks'[u] <=>
             k \in current_tasks[u] /\ ~(u = UserOf(proc[d].key) /\ k = proc[d].key)
    <3>1. proc[d].seen = current_tasks[UserOf(proc[d].key)]
      BY <1>0, <2>2 DEF SeenIsCurrent
    <3>2. current_tasks' = [current_tasks EXCEPT ![UserOf(proc[d].key)] = proc[d].seen \ {proc[d].key}]
      BY <1>7 DEF DelWrite
    <3>3. current_tasks \in [User \cup {Zero} -> SUBSET Key]
      BY DEF Typed
    <3> QED
      BY <3>1, <3>2, <3>3
  <2>5. OneBusy'
    BY <1>0, <2>1, <2>2, <2>3, <2>4 DEF Moves, OneBusy
  <2>6. SeenIsCurrent'
    BY <1>0, <2>1, <2>2, <2>3, <2>4 DEF Moves, SeenIsCurrent, UserOf
  <2>7. OwnLists'
    BY <1>0, <2>1, <2>2, <2>3, <2>4 DEF Moves, OwnLists, UserOf
  <2>8. PutsAreRecorded'
    BY <1>0, <2>1, <2>2, <2>3, <2>4 DEF Moves, PutsAreRecorded
  <2>9. ListedAreRecorded'
    BY <1>0, <2>1, <2>2, <2>3, <2>4 DEF Moves, ListedAreRecorded, PutsAreRecorded, RemovedAreUnlisted, UserOf
  <2>10. RemovedAreUnlisted'
    BY <1>0, <2>1, <2>2, <2>3, <2>4 DEF Moves, RemovedAreUnlisted, UserOf
  <2>11. AllAccounted'
    BY <1>0, <2>1, <2>2, <2>3, <2>4 DEF Moves, AllAccounted, Accounted, PutsAreRecorded, UserOf
  <2>12. DummiesBelong'
    BY <1>0, <2>1, <2>2, <2>3, <2>4 DEF Moves, DummiesBelong, AllAccounted, Accounted
  <2> QED
    BY <2>5, <2>6, <2>7, <2>8, <2>9, <2>10, <2>11, <2>12
<1>8. ASSUME NEW d \in Deleter, DelRem(d) PROVE SerialFacts'
  <2>1. Moves(d, "ended", proc[d].key, proc[d].seen)
    BY <1>8, Effects
  <2>2. proc[d].pc = "del_rem" /\ \A q \in Key : q # d => proc[q].pc \notin Busy
    BY <1>0, <1>8 DEF DelRem, OneBusy
  <2>3. \A k \in Key : progress'[k] = IF k = proc[d].key THEN Missing ELSE progress[k]
    BY <1>8 DEF DelRem, Typed
  <2>4. current_tasks' = current_tasks
    BY <1>8 DEF DelRem
  <2>5. OneBusy'
    BY <1>0, <2>1, <2>2, <2>3, <2>4 DEF Moves, OneBusy
  <2>6. SeenIsCurrent'
    BY <1>0, <2>1, <2>2, <2>3, <2>4 DEF Moves, SeenIsCurrent, UserOf
  <2>7. OwnLists'
    BY <1>0, <2>1, <2>2, <2>3, <2>4 DEF Moves, OwnLists, UserOf
  <2>8. PutsAreRecorded'
    BY <1>0, <2>1, <2>2, <2>3, <2>4 DEF Moves, PutsAreRecorded
  <2>9. ListedAreRecorded'
    BY <1>0, <2>1, <2>2, <2>3, <2>4 DEF Moves, ListedAreRecorded, PutsAreRecorded, RemovedAreUnlisted, UserOf
  <2>10. RemovedAreUnlisted'
    BY <1>0, <2>1, <2>2, <2>3, <2>4 DEF Moves, RemovedAreUnlisted, UserOf
  <2>11. AllAccounted'
    BY <1>0, <2>1, <2>2, <2>3, <2>4 DEF Moves, AllAccounted, Accounted, PutsAreRecorded, UserOf
  <2>12. DummiesBelong'
    BY <1>0, <2>1, <2>2, <2>3, <2>4 DEF Moves, DummiesBelong, AllAccounted, Accounted
  <2> QED
    BY <2>5, <2>6, <2>7, <2>8, <2>9, <2>10, <2>11, <2>12
<1> QED
  BY <1>1, <1>2, <1>3, <1>4, <1>5, <1>6, <1>7, <1>8, <1>9 DEF Next

TaskInv == ListedInv /\ LostInv /\ SerialInv

LEMMA TaskInvariant == Spec => []TaskInv
<1>1. Init => TaskInv
  <2>1. Init => \A k \in Key : progress[k] = Missing /\ (k \notin Task => proc[k].pc = "start")
    BY DEF Init
  <2>2. Init => ListedOrMoving /\ LostInv
    BY <2>1, TaskAssumption DEF ListedOrMoving, LostInv, Key
  <2> QED
    BY <2>2, TypedInit, SerialInit DEF TaskInv, ListedInv
<1>2. TaskInv /\ [Next]_vars => TaskInv'
  BY TypedStep, MovingStep, LostStep, SerialStep DEF TaskInv, ListedInv
<1> QED
  BY <1>1, <1>2, PTL DEF Spec

(***************************************************************************)
(* Between operations a recorded task is listed, so it is shown and can be *)
(* deleted: without overlap for every user, and in every order of the      *)
(* Redis commands for the task of a user who runs one.                     *)
(***************************************************************************)
THEOREM RecordsAreListed == Spec => []RecordListed
<1>1. TaskInv => RecordListed
  <2> USE TaskAssumption DEF Key
  <2> SUFFICES ASSUME TaskInv, AtRest, NEW t \in Task,
                      overlap => OnlyTask(t), progress[t] # Missing
               PROVE  t \in current_tasks[Owner[t]]
    BY DEF RecordListed
  <2>1. Accounted(t)
    BY DEF TaskInv, ListedInv, ListedOrMoving, SerialInv, SerialFacts, AllAccounted
  <2> QED
    BY <2>1 DEF Accounted, AtRest, Busy, UserOf
<1> QED
  BY <1>1, TaskInvariant, PTL

(***************************************************************************)
(* What operations that do not overlap leave of dummies: nothing of those  *)
(* that deletions register, and under user 0 exactly the dummies of the    *)
(* workers whose task was deleted before they looked it up, each reported  *)
(* on instead of a task that has no record and is not listed.              *)
(***************************************************************************)
THEOREM DummiesOfWorkersStay == Spec => []DummiesAreLost
<1>1. TaskInv => DummiesAreLost
  <2> USE TaskAssumption DEF Key
  <2> SUFFICES ASSUME TaskInv, AtRest, ~overlap
               PROVE  /\ \A d \in Deleter : progress[d] = Missing
                      /\ current_tasks[Zero] = {w \in Worker : progress[w] # Missing}
                      /\ \A w \in current_tasks[Zero] :
                             proc[w].key = w /\ progress[Runs[w]] = Missing
                      /\ \A t \in Task : t \in current_tasks[Owner[t]] => progress[t] # Missing
    BY DEF DummiesAreLost
  <2>1. Typed /\ LostInv /\ SerialFacts
    BY DEF TaskInv, ListedInv, SerialInv
  <2>2. \A d \in Deleter : progress[d] = Missing
    BY <2>1 DEF SerialFacts, DummiesBelong, AtRest
  <2>3. \A k \in current_tasks[Zero] : k \in Worker /\ progress[k] # Missing
    <3> SUFFICES ASSUME NEW k \in current_tasks[Zero] PROVE k \in Worker /\ progress[k] # Missing
      OBVIOUS
    <3>1. UserOf(k) = Zero /\ k \in Key
      BY <2>1, Pointwise, TaskKind, WorkerKind, DeleterKind DEF SerialFacts, OwnLists
    <3>2. k \notin Task
      BY <3>1 DEF UserOf
    <3> QED
      BY <2>1, <2>2, <3>1, <3>2 DEF SerialFacts, ListedAreRecorded
  <2>4. \A w \in Worker : progress[w] # Missing => w \in current_tasks[Zero]
    <3> SUFFICES ASSUME NEW w \in Worker, progress[w] # Missing PROVE w \in current_tasks[Zero]
      OBVIOUS
    <3>1. Accounted(w) /\ UserOf(w) = Zero
      BY <2>1 DEF SerialFacts, AllAccounted, UserOf
    <3> QED
      BY <3>1 DEF Accounted, AtRest, Busy
  <2>5. \A w \in Worker : progress[w] # Missing => proc[w].key = w /\ progress[Runs[w]] = Missing
    BY <2>1 DEF LostInv
  <2>6. \A t \in Task : t \in current_tasks[Owner[t]] => progress[t] # Missing
    BY <2>1 DEF SerialFacts, ListedAreRecorded, UserOf
  <2> QED
    BY <2>2, <2>3, <2>4, <2>5, <2>6
<1> QED
  BY <1>1, TaskInvariant, PTL

(***************************************************************************)
(* A request to delete a task ends only in a state in which its user does  *)
(* not see it, in every order of the Redis commands.                       *)
(***************************************************************************)
THEOREM DeletionShows == Spec => DeletedIsGone
<1>1. ASSUME Typed, [Next]_vars, NEW d \in Deleter, NEW t \in Task,
             proc[d].pc \in Busy, proc'[d].pc = "ended", proc[d].key = t
      PROVE  t \notin get_user_tasks(Owner[t])'
  <2> USE <1>1, Pointwise, TaskKind, WorkerKind, DeleterKind, TaskAssumption DEF Key, Busy
  <2>0. DelRead(d) \/ DelRem(d)
    <3>1. ASSUME NEW p \in Reporter, Set(p) PROVE FALSE
      BY <3>1, Effects DEF Moves, Reporter
    <3>8. ASSUME NEW s \in Task, Delay(s) PROVE FALSE
      BY <3>8, Effects DEF Moves
    <3>2. ASSUME NEW p \in Key, PutRead(p) PROVE FALSE
      BY <3>2, Effects DEF Moves
    <3>3. ASSUME NEW p \in Key, PutWrite(p) PROVE FALSE
      BY <3>3, Effects DEF Moves
    <3>4. ASSUME NEW e \in Worker \cup Deleter, NEW s \in Task, GetFromCache(e, s) PROVE FALSE
      <4>1. \/ Moves(e, IF e \in Worker THEN "idle" ELSE "del_read", s, proc[e].seen)
            \/ Moves(e, "put_read", e, proc[e].seen)
        BY <3>4, Effects
      <4> QED
        BY <4>1 DEF Moves
    <3>5. ASSUME NEW e \in Deleter, DelWrite(e) PROVE FALSE
      BY <3>5, Effects DEF Moves
    <3>6. ASSUME NEW e \in Deleter, e # d, DelRead(e) \/ DelRem(e) PROVE FALSE
      BY <3>6, Effects DEF Moves
    <3>7. CASE UNCHANGED vars
      BY <3>7 DEF vars
    <3> QED
      BY <3>1, <3>2, <3>3, <3>4, <3>5, <3>6, <3>7, <3>8 DEF Next
  <2>2. CASE DelRead(d)
    BY <2>2 DEF DelRead, UserOf, get_user_tasks, Typed, ProcType
  <2>3. CASE DelRem(d)
    BY <2>3 DEF DelRem, get_user_tasks, Typed
  <2> QED
    BY <2>0, <2>2, <2>3
<1>2. Typed /\ [Next]_vars => [\A d \in Deleter, t \in Task :
        proc[d].pc \in Busy /\ proc'[d].pc = "ended" /\ proc[d].key = t
            => t \notin get_user_tasks(Owner[t])']_vars
  BY <1>1
<1>3. TaskInv => Typed
  BY DEF TaskInv, ListedInv
<1> QED
  BY <1>2, <1>3, TaskInvariant, PTL DEF Spec, DeletedIsGone

(***************************************************************************)
(* The record of a task that has reported for the last time does not come  *)
(* back once it is gone.                                                   *)
(***************************************************************************)
THEOREM EndedDoesNotReturn == Spec => EndedStaysDeleted
<1>1. ASSUME Typed, [Next]_vars, NEW t \in Task, next[t] > Last, progress[t] = Missing
      PROVE  progress'[t] = Missing
  <2> USE <1>1, Pointwise, TaskKind, WorkerKind, DeleterKind, TaskAssumption, LastAssumption DEF Typed, Key
  <2>1. ASSUME NEW p \in Reporter, Set(p) PROVE progress'[t] = Missing
    <3>1. TaskOf(p) # t
      BY <2>1 DEF Set
    <3>2. proc[p].key # t
      BY <3>1 DEF TaskOf, Reporter
    <3> QED
      BY <2>1, <3>2 DEF Set
  <2>2. ASSUME NEW p \in Worker \cup Deleter, NEW s \in Task, GetFromCache(p, s)
        PROVE  progress'[t] = Missing
    BY <2>2 DEF GetFromCache
  <2>3. ASSUME NEW d \in Deleter, DelRem(d) PROVE progress'[t] = Missing
    BY <2>3 DEF DelRem
  <2> QED
    BY <2>1, <2>2, <2>3 DEF Next, vars, Delay, PutRead, PutWrite, DelRead, DelWrite
<1>2. Typed /\ [Next]_vars => [\A t \in Task :
        next[t] > Last /\ progress[t] = Missing => progress'[t] = Missing]_vars
  BY <1>1
<1>3. TaskInv => Typed
  BY DEF TaskInv, ListedInv
<1> QED
  BY <1>2, <1>3, TaskInvariant, PTL DEF Spec, EndedStaysDeleted

(* Type correctness, with overlapping operations or without. *)
THEOREM TasksTyped == Spec => []TypeOK
<1>1. Typed => TypeOK
  BY Pointwise, TaskKind, WorkerKind, DeleterKind DEF Typed, ProcType, TypeOK
<1> QED
  BY <1>1, TypedInit, TypedStep, PTL DEF Spec
=============================================================================
