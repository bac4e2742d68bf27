----------------------------- MODULE TaskStatus -----------------------------
(***************************************************************************)
(* The registry of background tasks in Redis (cache/caching.py): a record  *)
(* for each task and, for each user, a set of task keys, written by the    *)
(* request that creates the task, by the worker the request may hand it    *)
(* over to (TaskStatus.set) and by requests that delete it (DeleteTask,    *)
(* delete_task).  Each Redis command is atomic, a sequence of them is not: *)
(* one action is one command.  A worker and a deletion begin with a        *)
(* look-up of the task.  One that finds no record registers a dummy task   *)
(* of user 0 and goes on with that: the worker reports on it, the deletion *)
(* deletes it.                                                             *)
(***************************************************************************)
EXTENDS Naturals

CONSTANTS
    Task,           \* tasks, each named as the request that creates it
    Worker,         \* processes that tasks are handed over to
    Runs,           \* Runs[w]: the task handed over to worker w
    Deleter,        \* requests to delete a task
    User,
    Zero,           \* user 0, the owner of dummy tasks
    Owner,          \* Owner[t]: the user who started the task
    Missing,        \* no record
    Last            \* the progress at which a task ends

ASSUME TaskAssumption ==
    /\ Task \cap Deleter = {} /\ Task \cap Worker = {} /\ Worker \cap Deleter = {}
    /\ Owner \in [Task -> User] /\ Zero \notin User
    /\ Runs \in [Worker -> Task]
    /\ \A v, w \in Worker : Runs[v] = Runs[w] => v = w
ASSUME LastAssumption == Last \in Nat /\ Missing \notin 0 .. Last

VARIABLES
    progress,       \* the record of each task, or Missing
    current_tasks,  \* the key set of each user
    next,           \* the progress that is reported next of each task
    proc,           \* what each process has read and is about to do
    overlap         \* do operations overlap?  chosen once for a behaviour

vars == <<progress, current_tasks, next, proc, overlap>>

(* The keys of the tasks, and the key of the dummy of each process that looks a task up. *)
Key == Task \cup Worker \cup Deleter
Reporter == Task \cup Worker
TaskOf(p) == IF p \in Task THEN p ELSE Runs[p]
UserOf(k) == IF k \in Task THEN Owner[k] ELSE Zero
Busy == {"put_read", "put_write", "del_read", "del_write", "del_rem"}

TypeOK ==
    /\ progress \in [Key -> (0 .. Last) \cup {Missing}]
    /\ current_tasks \in [User \cup {Zero} -> SUBSET Key]
    /\ next \in [Task -> 0 .. Last + 1]
    /\ proc \in [Key -> [pc : {"start", "idle", "ended"} \cup Busy, key : Key, seen : SUBSET Key]]
    /\ \A t \in Task : proc[t].pc \in {"idle", "put_read", "put_write", "ended"} /\ proc[t].key = t
    /\ \A w \in Worker : /\ proc[w].pc \in {"start", "idle", "put_read", "put_write"}
                         /\ proc[w].key \in {w, Runs[w]}
    /\ overlap \in BOOLEAN

Init ==
    /\ progress = [k \in Key |-> Missing]
    /\ current_tasks = [u \in User \cup {Zero} |-> {}]
    /\ next = [t \in Task |-> 0]
    /\ proc = [k \in Key |-> [pc |-> IF k \in Task THEN "idle" ELSE "start",
                              key |-> k, seen |-> {}]]
    /\ overlap \in BOOLEAN

MayBegin == overlap \/ \A q \in Key : proc[q].pc \notin Busy

-----------------------------------------------------------------------------
(* A slip: only the constructor lists the task, set(...) writes the record alone. *)
Set_ListedOnce(p) ==
    /\ MayBegin
    /\ proc[p].pc = "idle"
    /\ next[TaskOf(p)] <= Last
    /\ progress' = [progress EXCEPT ![proc[p].key] = next[TaskOf(p)]]
    /\ next' = [next EXCEPT ![TaskOf(p)] = @ + 1]
    /\ proc' = IF next[TaskOf(p)] = 0 THEN [proc EXCEPT ![p].pc = "put_read"] ELSE proc
    /\ UNCHANGED <<current_tasks, overlap>>

(* TaskStatus(...) and set(...): the request that creates the task, or its worker, *)
(* writes the record it holds, then lists it.                                      *)
Set(p) ==
    /\ MayBegin
    /\ proc[p].pc = "idle"
    /\ next[TaskOf(p)] <= Last
    /\ progress' = [progress EXCEPT ![proc[p].key] = next[TaskOf(p)]]
    /\ next' = [next EXCEPT ![TaskOf(p)] = @ + 1]
    /\ proc' = [proc EXCEPT ![p].pc = "put_read"]
    /\ UNCHANGED <<current_tasks, overlap>>

(* The request hands the created task over: task.delay(task_key, ...). *)
Delay(t) ==
    /\ proc[t].pc = "idle"
    /\ next[t] \in 1 .. Last
    /\ proc' = [proc EXCEPT ![t].pc = "ended"]
    /\ UNCHANGED <<progress, current_tasks, next, overlap>>

PutRead(p) ==
    /\ proc[p].pc = "put_read"
    /\ proc' = [proc EXCEPT ![p].pc = "put_write", ![p].seen = current_tasks[UserOf(proc[p].key)]]
    /\ UNCHANGED <<progress, current_tasks, next, overlap>>

(* A slip: a request that has listed its task goes on to delete it. *)
PutWrite_Deletes(p) ==
    /\ proc[p].pc = "put_write"
    /\ current_tasks' =
          [current_tasks EXCEPT ![UserOf(proc[p].key)] = proc[p].seen \cup {proc[p].key}]
    /\ proc' = [proc EXCEPT ![p].pc = "del_read"]
    /\ UNCHANGED <<progress, next, overlap>>

PutWrite(p) ==
    /\ proc[p].pc = "put_write"
    /\ current_tasks' =
          [current_tasks EXCEPT ![UserOf(proc[p].key)] = proc[p].seen \cup {proc[p].key}]
    /\ proc' = [proc EXCEPT ![p].pc = IF p \in Reporter THEN "idle" ELSE "del_read"]
    /\ UNCHANGED <<progress, next, overlap>>

(* A deletion looks up any task, a worker the one that was handed over to it. *)
MayLookUp(p, t) ==
    /\ MayBegin
    /\ proc[p].pc = "start"
    /\ p \in Worker => Runs[p] = t /\ proc[t].pc = "ended"

(* Slips: the dummy task of a deletion is registered and left there, or the dummy *)
(* takes the missing key.                                                         *)
GetFromCache_NotDeleted(p, t) ==
    /\ MayLookUp(p, t)
    /\ IF progress[t] # Missing
       THEN /\ proc' = [proc EXCEPT ![p].pc = IF p \in Worker THEN "idle" ELSE "del_read",
                                    ![p].key = t]
            /\ UNCHANGED progress
       ELSE /\ progress' = [progress EXCEPT ![p] = 0]
            /\ proc' = [proc EXCEPT ![p].pc = IF p \in Worker THEN "put_read" ELSE "ended"]
    /\ UNCHANGED <<current_tasks, next, overlap>>

GetFromCache_SameKey(p, t) ==
    /\ MayLookUp(p, t)
    /\ progress' = [progress EXCEPT ![t] = IF @ = Missing THEN 0 ELSE @]
    /\ proc' = [proc EXCEPT ![p].pc = IF p \in Worker THEN "idle" ELSE "del_read", ![p].key = t]
    /\ UNCHANGED <<current_tasks, next, overlap>>

GetFromCache(p, t) ==
    /\ MayLookUp(p, t)
    /\ IF progress[t] # Missing
       THEN /\ proc' = [proc EXCEPT ![p].pc = IF p \in Worker THEN "idle" ELSE "del_read",
                                    ![p].key = t]
            /\ UNCHANGED progress
       ELSE /\ progress' = [progress EXCEPT ![p] = 0]
            /\ proc' = [proc EXCEPT ![p].pc = "put_read"]
    /\ UNCHANGED <<current_tasks, next, overlap>>

(* A slip: the key is looked for among the tasks of user 0. *)
DelRead_Dummy(d) ==
    /\ proc[d].pc = "del_read"
    /\ IF proc[d].key \in current_tasks[Zero]
       THEN proc' = [proc EXCEPT ![d].pc = "del_write", ![d].seen = current_tasks[Zero]]
       ELSE proc' = [proc EXCEPT ![d].pc = "ended"]
    /\ UNCHANGED <<progress, current_tasks, next, overlap>>

(* delete() does nothing for a key that is not listed. *)
DelRead(d) ==
    /\ proc[d].pc = "del_read"
    /\ IF proc[d].key \in current_tasks[UserOf(proc[d].key)]
       THEN proc' = [proc EXCEPT ![d].pc = "del_write",
                                 ![d].seen = current_tasks[UserOf(proc[d].key)]]
       ELSE proc' = [proc EXCEPT ![d].pc = "ended"]
    /\ UNCHANGED <<progress, current_tasks, next, overlap>>

DelWrite(d) ==
    /\ proc[d].pc = "del_write"
    /\ current_tasks' =
          [current_tasks EXCEPT ![UserOf(proc[d].key)] = proc[d].seen \ {proc[d].key}]
    /\ proc' = [proc EXCEPT ![d].pc = "del_rem"]
    /\ UNCHANGED <<progress, next, overlap>>

DelRem(d) ==
    /\ proc[d].pc = "del_rem"
    /\ progress' = [progress EXCEPT ![proc[d].key] = Missing]
    /\ proc' = [proc EXCEPT ![d].pc = "ended"]
    /\ UNCHANGED <<current_tasks, next, overlap>>

Next ==
    \/ \E p \in Reporter : Set(p)
    \/ \E t \in Task : Delay(t)
    \/ \E p \in Key : PutRead(p) \/ PutWrite(p)
    \/ \E p \in Worker \cup Deleter, t \in Task : GetFromCache(p, t)
    \/ \E d \in Deleter : DelRead(d) \/ DelWrite(d) \/ DelRem(d)

Spec == Init /\ [][Next]_vars

-----------------------------------------------------------------------------
AtRest == \A p \in Key : proc[p].pc \notin Busy

(* No other task of the same user. *)
OnlyTask(t) == \A s \in Task : Owner[s] = Owner[t] => s = t

(***************************************************************************)
(* Between operations every recorded task is listed under its user, so it  *)
(* is shown and can be deleted.  It holds when operations do not overlap,  *)
(* and however they do for the task of a user who runs one: a put writes   *)
(* the record before the list, delete() the list before the record.  (Two  *)
(* tasks of a user can overwrite each other's listing.)                    *)
(***************************************************************************)
RecordListed ==
    AtRest => \A t \in Task :
        (overlap => OnlyTask(t)) /\ progress[t] # Missing => t \in current_tasks[Owner[t]]

(***************************************************************************)
(* What is left of dummies when operations do not overlap: a deletion of a *)
(* missing task leaves none.  The tasks of user 0, which no request can    *)
(* see or delete, are the dummies of workers whose task was deleted before *)
(* they looked it up; such a worker reports on its dummy for good, and     *)
(* its task is as deleted as its user saw it.  No task is listed without   *)
(* a record.                                                               *)
(***************************************************************************)
DummiesAreLost ==
    AtRest /\ ~overlap =>
        /\ \A d \in Deleter : progress[d] = Missing
        /\ current_tasks[Zero] = {w \in Worker : progress[w] # Missing}
        /\ \A w \in current_tasks[Zero] : proc[w].key = w /\ progress[Runs[w]] = Missing
        /\ \A t \in Task : t \in current_tasks[Owner[t]] => progress[t] # Missing

(***************************************************************************)
(* A task that has been reported on for the last time never comes back     *)
(* once its record is gone: a late write of an overlapping operation may   *)
(* list its key again, but whoever looks up the missing task registers a   *)
(* dummy of its own.                                                       *)
(***************************************************************************)
EndedStaysDeleted ==
    [][\A t \in Task :
        next[t] > Last /\ progress[t] = Missing => progress'[t] = Missing]_vars

(* What get_user_tasks shows: listed keys that have a record. *)
get_user_tasks(u) == {k \in current_tasks[u] : progress[k] # Missing}

(***************************************************************************)
(* A request to delete a task ends in a state in which its user does not   *)
(* see it, whatever the other requests and the workers did in between.     *)
(***************************************************************************)
DeletedIsGone ==
    [][\A d \in Deleter, t \in Task :
        proc[d].pc \in Busy /\ proc'[d].pc = "ended" /\ proc[d].key = t
            => t \notin get_user_tasks(Owner[t])']_vars
=============================================================================
