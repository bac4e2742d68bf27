---------------------------- MODULE CognateSearch ----------------------------
(***************************************************************************)
(* How the groups of linked entries of a perspective are gathered, three   *)
(* ways: find_all_tags and find_lexical_entries_by_tags (tag_data_std, and *)
(* ConnectLexicalEntries), the PL/pgSQL function linked_group              *)
(* (tag_data_plpgsql and the readers of GraphQL), and find_group_by_tags   *)
(* (tag_data_optimized).  Each is a worklist of tags over the same tables, *)
(* run from every tagged entry of the perspective that no group has yet.   *)
(* The tables do not change while a search runs; has[e] is the tags of e   *)
(* that pass the filter on accepted and published.                         *)
(***************************************************************************)
CONSTANTS LexicalEntry, Tag

VARIABLES
    has, deleted, method,   \* the tables and the way chosen
    todo,                   \* tagged live entries the outer loop has not taken
    group_list,             \* the groups found, each with the entry it started from
    pc,                     \* "outer", "a" or "b" (the halves of a round), "done"
    start, entries, tags,   \* the search under way
    list_a, list_b          \* its worklists (only linked_cycle uses list_b)

tables == <<has, deleted, method>>
vars == <<has, deleted, method, todo, group_list, pc, start, entries, tags, list_a, list_b>>

Methods == {"std", "plpgsql", "optimized"}
Live == LexicalEntry \ deleted

TypeOK ==
    /\ has \in [LexicalEntry -> SUBSET Tag]
    /\ deleted \in SUBSET LexicalEntry
    /\ method \in Methods
    /\ todo \in SUBSET Live
    /\ group_list \in SUBSET [start : Live, group : SUBSET LexicalEntry]
    /\ pc \in {"outer", "a", "b", "done"}
    /\ start \in LexicalEntry
    /\ entries \in SUBSET LexicalEntry
    /\ tags \in SUBSET Tag /\ list_a \in SUBSET Tag /\ list_b \in SUBSET Tag

Init ==
    /\ has \in [LexicalEntry -> SUBSET Tag]
    /\ deleted \in SUBSET LexicalEntry
    /\ method \in Methods
    /\ todo = {e \in Live : has[e] # {}}
    /\ group_list = {}
    /\ pc = "outer"
    /\ start \in LexicalEntry
    /\ entries = {} /\ tags = {} /\ list_a = {} /\ list_b = {}

-----------------------------------------------------------------------------
ByTags(list) == {e \in LexicalEntry : has[e] \cap list # {}}

TagsOfAll(some) == UNION {has[e] : e \in some}

entry_already_set == UNION {found.group : found \in group_list}

(* The outer loop skips an entry some group already has.  find_all_tags starts  *)
(* from the first tag of the entry, the other two from all its tags; the entry  *)
(* itself is in the temporary table from the beginning.                         *)
StartSearch(e) ==
    /\ pc = "outer"
    /\ e \in todo
    /\ todo' = todo \ {e}
    /\ IF e \in entry_already_set
       THEN UNCHANGED <<pc, start, entries, tags, list_a, list_b>>
       ELSE \E first \in IF method = "std" THEN {{g} : g \in has[e]} ELSE {has[e]} :
              /\ pc' = "a"
              /\ start' = e
              /\ entries' = {e}
              /\ tags' = first
              /\ list_a' = first
              /\ list_b' = {}
    /\ UNCHANGED <<has, deleted, method, group_list>>

FindAllTagsRound ==
    /\ pc = "a" /\ method = "std" /\ list_a # {}
    /\ LET new_tags == TagsOfAll(ByTags(list_a)) \ tags
       IN  tags' = tags \cup new_tags /\ list_a' = new_tags
    /\ UNCHANGED <<has, deleted, method, todo, group_list, pc, start, entries, list_b>>

(* Slips: deleted entries are not filtered out of the query that adds entries;    *)
(* the processed list is not truncated; the tags found are not listed.            *)
NewEntries_NoFilter(list) == ByTags(list) \ entries

(* The entries an INSERT ... ON CONFLICT DO NOTHING RETURNING adds. *)
NewEntries(list) == (ByTags(list) \cap Live) \ entries

LinkedCycleA_NoTruncate ==
    /\ pc = "a" /\ method = "plpgsql" /\ list_a # {}
    /\ LET new == NewEntries(list_a)
           found == TagsOfAll(new) \ tags
       IN  entries' = entries \cup new /\ tags' = tags \cup found /\ list_b' = list_b \cup found
    /\ pc' = "b"
    /\ UNCHANGED <<has, deleted, method, todo, group_list, start, list_a>>

LinkedCycleA_NotListed ==
    /\ pc = "a" /\ method = "plpgsql" /\ list_a # {}
    /\ LET new == NewEntries(list_a)
       IN  entries' = entries \cup new /\ tags' = tags \cup TagsOfAll(new)
    /\ list_a' = {}
    /\ pc' = "b"
    /\ UNCHANGED <<has, deleted, method, todo, group_list, start, list_b>>

(* A half of a round of linked_cycle: process one list, fill the other, truncate. *)
LinkedCycleA ==
    /\ pc = "a" /\ method = "plpgsql" /\ list_a # {}
    /\ LET new == NewEntries(list_a)
           found == TagsOfAll(new) \ tags
       IN  entries' = entries \cup new /\ tags' = tags \cup found /\ list_b' = list_b \cup found
    /\ list_a' = {}
    /\ pc' = "b"
    /\ UNCHANGED <<has, deleted, method, todo, group_list, start>>

LinkedCycleB ==
    /\ pc = "b"
    /\ LET new == NewEntries(list_b)
           found == TagsOfAll(new) \ tags
       IN  entries' = entries \cup new /\ tags' = tags \cup found /\ list_a' = list_a \cup found
    /\ list_b' = {}
    /\ pc' = "a"
    /\ UNCHANGED <<has, deleted, method, todo, group_list, start>>

FindGroupRound ==
    /\ pc = "a" /\ method = "optimized" /\ list_a # {}
    /\ LET new == NewEntries(list_a)
           found == TagsOfAll(new) \ tags
       IN  entries' = entries \cup new /\ tags' = tags \cup found /\ list_a' = found
    /\ UNCHANGED <<has, deleted, method, todo, group_list, pc, start, list_b>>

(* A slip: the tags are kept instead of the entries. *)
EndSearch_Tags ==
    /\ pc = "a" /\ list_a = {}
    /\ group_list' = group_list \cup {[start |-> start, group |-> tags]}
    /\ pc' = "outer"
    /\ UNCHANGED <<has, deleted, method, todo, start, entries, tags, list_a, list_b>>

EndSearch ==
    /\ pc = "a" /\ list_a = {}
    /\ group_list' = group_list \cup
          {[start |-> start, group |-> IF method = "std" THEN ByTags(tags) ELSE entries]}
    /\ pc' = "outer"
    /\ UNCHANGED <<has, deleted, method, todo, start, entries, tags, list_a, list_b>>

Finish ==
    /\ pc = "outer" /\ todo = {}
    /\ pc' = "done"
    /\ UNCHANGED <<has, deleted, method, todo, group_list, start, entries, tags, list_a, list_b>>

Next ==
    \/ \E e \in LexicalEntry : StartSearch(e)
    \/ FindAllTagsRound
    \/ LinkedCycleA
    \/ LinkedCycleB
    \/ FindGroupRound
    \/ EndSearch
    \/ Finish

Spec == Init /\ [][Next]_vars
FairSpec == Spec /\ WF_vars(Next)

-----------------------------------------------------------------------------
(* The reference: the entries of allowed that a chain of shared tags joins to e. *)
Component(e, allowed) ==
    {f \in allowed :
        \A s \in SUBSET allowed :
            (e \in s /\ \A x \in s, y \in allowed : has[x] \cap has[y] # {} => y \in s) => f \in s}

(***************************************************************************)
(* Every way finds exactly the entries joined to the one it started from:  *)
(* linked_group and find_group_by_tags among the entries that are not      *)
(* deleted, find_all_tags among all entries, deleted ones included, and    *)
(* whichever of the entry's tags comes first.                              *)
(***************************************************************************)
GroupsAreComponents ==
    \A found \in group_list :
        found.group = Component(found.start, IF method = "std" THEN LexicalEntry ELSE Live)

(***************************************************************************)
(* The outer loop, which skips the entries of the groups it has, splits    *)
(* the tagged entries: no entry is in two groups, none is left out.        *)
(***************************************************************************)
GroupsPartition ==
    /\ \A x, y \in group_list : x # y => x.group \cap y.group = {}
    /\ pc = "done" => {e \in Live : has[e] # {}} \subseteq entry_already_set

(***************************************************************************)
(* The searches end: each list is emptied once it is processed, and no tag *)
(* enters a list twice.                                                    *)
(***************************************************************************)
Terminates == <>(pc = "done")
=============================================================================
