------------------------- MODULE CognateSearchProofs -------------------------
(***************************************************************************)
(* Whatever the tables and whichever way is chosen, a search finds exactly *)
(* the entries joined to the one it starts from, and the groups of the     *)
(* outer loop divide the tagged entries.  The invariant of a search is     *)
(* that of a worklist: what it has is reached from the start, and what is  *)
(* not listed any more has been followed.                                  *)
(***************************************************************************)
EXTENDS CognateSearch, TLAPS

(* The entries a search of the chosen way may find. *)
Allowed == IF method = "std" THEN LexicalEntry ELSE Live

(* A set of entries that contains those that share a tag with one of its own. *)
Joined(s, allowed) == \A x \in s, y \in allowed : has[x] \cap has[y] # {} => y \in s

-----------------------------------------------------------------------------
(* The component of e is the least set that contains e and all that it is joined to. *)
LEMMA ComponentIsLeast ==
  ASSUME NEW allowed, NEW e \in allowed
  PROVE  /\ Component(e, allowed) \in SUBSET allowed
         /\ e \in Component(e, allowed)
         /\ Joined(Component(e, allowed), allowed)
         /\ \A s \in SUBSET allowed :
               e \in s /\ Joined(s, allowed) => Component(e, allowed) \subseteq s
<1> DEFINE C == Component(e, allowed)
<1>1. /\ C \in SUBSET allowed
      /\ e \in C
      /\ \A s \in SUBSET allowed : e \in s /\ Joined(s, allowed) => C \subseteq s
  BY DEF Component, Joined
<1>2. ASSUME NEW x \in C, NEW y \in allowed, has[x] \cap has[y] # {} PROVE y \in C
  <2>1. ASSUME NEW s \in SUBSET allowed, e \in s, Joined(s, allowed) PROVE y \in s
    BY <1>1, <1>2, <2>1 DEF Joined
  <2> QED
    BY <2>1 DEF Component, Joined
<1> QED
  BY <1>1, <1>2 DEF Joined

(* Two components that meet are one: what is outside of one is joined to none of it. *)
LEMMA ComponentsMeet ==
  ASSUME NEW allowed, NEW e \in allowed, NEW f \in allowed,
         Component(e, allowed) \cap Component(f, allowed) # {}
  PROVE  f \in Component(e, allowed)
<1> DEFINE C == Component(e, allowed)
           D == allowed \ C
<1> SUFFICES ASSUME f \notin C PROVE FALSE
  OBVIOUS
<1>1. Joined(C, allowed) /\ C \in SUBSET allowed
  BY ComponentIsLeast
<1>2. ASSUME NEW x \in D, NEW y \in allowed, has[x] \cap has[y] # {} PROVE y \in D
  <2>1. has[y] \cap has[x] # {}
    BY <1>2
  <2> QED
    BY <1>1, <2>1 DEF Joined
<1>3. D \in SUBSET allowed /\ f \in D /\ Joined(D, allowed)
  BY <1>2 DEF Joined
<1>4. Component(f, allowed) \subseteq D
  BY <1>3, ComponentIsLeast
<1> QED
  BY <1>4

-----------------------------------------------------------------------------
(* A search under way: it started from a tagged live entry that no group has. *)
Begun ==
    /\ start \in Live /\ has[start] # {} /\ start \notin entry_already_set
    /\ list_a \subseteq tags /\ list_b \subseteq tags
    /\ pc = "a" => list_b = {}
    /\ pc = "b" => list_a = {} /\ method = "plpgsql"

(* find_all_tags: the tags found are tags of the component, and the tags of an entry *)
(* that has a tag which is not listed any more are found.                            *)
TagSearch ==
    /\ has[start] \cap tags # {}
    /\ tags \subseteq TagsOfAll(Component(start, LexicalEntry))
    /\ \A e \in LexicalEntry : has[e] \cap (tags \ list_a) # {} => has[e] \subseteq tags

(* linked_group and find_group_by_tags: the entries found are of the component, their *)
(* tags are the tags found, and the live entries that have one which is not listed    *)
(* any more are found.                                                                *)
EntrySearch ==
    /\ start \in entries /\ entries \subseteq Component(start, Live)
    /\ tags = TagsOfAll(entries)
    /\ \A e \in Live : has[e] \cap (tags \ (list_a \cup list_b)) # {} => e \in entries

Searching ==
    pc \in {"a", "b"} => Begun /\ (IF method = "std" THEN TagSearch ELSE EntrySearch)

(* The entries the outer loop has still to look at, and those it has grouped. *)
Outer ==
    /\ \A e \in todo : has[e] # {}
    /\ \A e \in Live : has[e] # {} =>
          \/ e \in todo
          \/ e \in entry_already_set
          \/ pc \in {"a", "b"} /\ e = start
    /\ pc = "done" => todo = {}

SearchInv == TypeOK /\ GroupsAreComponents /\ GroupsPartition /\ Searching /\ Outer

-----------------------------------------------------------------------------
LEMMA TypeStep == SearchInv /\ [Next]_vars => TypeOK'
<1> SUFFICES ASSUME SearchInv, [Next]_vars PROVE TypeOK'
  OBVIOUS
<1>1. TypeOK /\ Searching
  BY DEF SearchInv
<1>2. \A some \in SUBSET LexicalEntry : TagsOfAll(some) \in SUBSET Tag
  BY <1>1 DEF TagsOfAll, TypeOK
<1>3. \A list : ByTags(list) \in SUBSET LexicalEntry /\ NewEntries(list) \in SUBSET LexicalEntry
  BY DEF ByTags, NewEntries
<1>4. CASE UNCHANGED vars
  BY <1>1, <1>4 DEF vars, TypeOK, Live
<1>5. ASSUME NEW e \in LexicalEntry, StartSearch(e) PROVE TypeOK'
  BY <1>1, <1>5 DEF StartSearch, TypeOK, Live
<1>6. CASE FindAllTagsRound
  BY <1>1, <1>2, <1>3, <1>6 DEF FindAllTagsRound, TypeOK, Live
<1>7. CASE LinkedCycleA
  BY <1>1, <1>2, <1>3, <1>7 DEF LinkedCycleA, TypeOK, Live
<1>8. CASE LinkedCycleB
  BY <1>1, <1>2, <1>3, <1>8 DEF LinkedCycleB, TypeOK, Live
<1>9. CASE FindGroupRound
  BY <1>1, <1>2, <1>3, <1>9 DEF FindGroupRound, TypeOK, Live
<1>10. CASE EndSearch
  <2>1. start \in Live
    BY <1>1, <1>10 DEF EndSearch, Searching, Begun
  <2>2. (IF method = "std" THEN ByTags(tags) ELSE entries) \in SUBSET LexicalEntry
    BY <1>1, <1>3 DEF TypeOK
  <2>3. group_list' \in SUBSET [start : Live, group : SUBSET LexicalEntry]
    BY <1>1, <1>10, <2>1, <2>2 DEF EndSearch, TypeOK
  <2> QED
    BY <1>1, <1>10, <2>3 DEF EndSearch, TypeOK, Live
<1>11. CASE Finish
  BY <1>1, <1>11 DEF Finish, TypeOK, Live
<1> QED
  BY <1>4, <1>5, <1>6, <1>7, <1>8, <1>9, <1>10, <1>11 DEF Next

(* What a step that grows no group leaves as it was. *)
LEMMA SameGroups ==
  ASSUME UNCHANGED <<has, deleted, method, group_list>>
  PROVE  /\ Live' = Live /\ Allowed' = Allowed /\ entry_already_set' = entry_already_set
         /\ \A e, allowed : Component(e, allowed)' = Component(e, allowed)
         /\ \A some : TagsOfAll(some)' = TagsOfAll(some)
         /\ GroupsAreComponents => GroupsAreComponents'
  BY DEF Live, Allowed, entry_already_set, Component, TagsOfAll, GroupsAreComponents

(* Nor does such a step move the outer loop. *)
LEMMA OuterKept ==
  ASSUME SearchInv, pc \in {"a", "b"}, pc' \in {"a", "b"},
         UNCHANGED <<has, deleted, method, group_list, todo, start>>
  PROVE  Outer' /\ GroupsAreComponents' /\ GroupsPartition'
<1>1. Live' = Live /\ entry_already_set' = entry_already_set /\ GroupsAreComponents'
  BY SameGroups DEF SearchInv
<1> QED
  BY <1>1 DEF SearchInv, Outer, GroupsPartition

-----------------------------------------------------------------------------
LEMMA StartStep ==
  ASSUME SearchInv, NEW e \in LexicalEntry, StartSearch(e)
  PROVE  GroupsAreComponents' /\ GroupsPartition' /\ Searching' /\ Outer'
<1>1. /\ TypeOK /\ pc = "outer" /\ e \in Live /\ has[e] # {}
      /\ UNCHANGED <<has, deleted, method, group_list>> /\ todo' = todo \ {e}
  BY DEF SearchInv, Outer, StartSearch, TypeOK
<1>2. /\ Live' = Live /\ entry_already_set' = entry_already_set /\ GroupsAreComponents'
      /\ \A allowed : Component(e, allowed)' = Component(e, allowed)
      /\ \A some : TagsOfAll(some)' = TagsOfAll(some)
  BY <1>1, SameGroups DEF SearchInv
<1>3. CASE e \in entry_already_set
  <2>1. pc' = pc
    BY <1>3 DEF StartSearch
  <2> QED
    BY <1>1, <1>2, <1>3, <2>1 DEF SearchInv, GroupsPartition, Searching, Outer
<1>4. CASE e \notin entry_already_set
  <2>1. PICK first \in IF method = "std" THEN {{g} : g \in has[e]} ELSE {has[e]} :
          /\ pc' = "a" /\ start' = e /\ entries' = {e} /\ tags' = first
          /\ list_a' = first /\ list_b' = {}
    BY <1>4 DEF StartSearch
  <2>2. Begun'
    BY <1>1, <1>2, <1>4, <2>1 DEF Begun
  <2>3. method = "std" => TagSearch'
    <3> SUFFICES ASSUME method = "std" PROVE TagSearch'
      OBVIOUS
    <3>1. first \subseteq has[e] /\ first # {}
      BY <2>1
    <3>2. e \in Component(e, LexicalEntry)
      BY ComponentIsLeast
    <3>3. first \subseteq TagsOfAll(Component(e, LexicalEntry))
      BY <3>1, <3>2 DEF TagsOfAll
    <3>4. /\ has'[start'] \cap tags' # {}
          /\ tags' \subseteq TagsOfAll(Component(e, LexicalEntry))'
          /\ tags' \ list_a' = {}
      BY <1>1, <1>2, <2>1, <3>1, <3>3
    <3>5. TagsOfAll(Component(start, LexicalEntry))' = TagsOfAll(Component(e, LexicalEntry))'
      BY <2>1 DEF TagsOfAll, Component
    <3> QED
      BY <3>4, <3>5 DEF TagSearch
  <2>4. method # "std" => EntrySearch'
    <3> SUFFICES ASSUME method # "std" PROVE EntrySearch'
      OBVIOUS
    <3>1. e \in Component(e, Live)
      BY <1>1, ComponentIsLeast
    <3>2. Component(start, Live)' = Component(e, Live)
      BY <1>1, <1>2, <2>1 DEF Component
    <3>3. TagsOfAll({e}) = has[e]
      BY DEF TagsOfAll
    <3>4. tags' = TagsOfAll(entries)'
      BY <1>1, <2>1, <3>3 DEF TagsOfAll
    <3> QED
      BY <2>1, <3>1, <3>2, <3>4 DEF EntrySearch
  <2>5. Searching'
    BY <1>1, <2>2, <2>3, <2>4 DEF Searching
  <2>6. Outer' /\ GroupsPartition'
    BY <1>1, <1>2, <2>1 DEF SearchInv, Outer, GroupsPartition
  <2> QED
    BY <1>2, <2>5, <2>6
<1> QED
  BY <1>3, <1>4

(* A round of find_all_tags: the entries of the listed tags are of the component. *)
LEMMA TagRoundStep ==
  ASSUME SearchInv, FindAllTagsRound
  PROVE  GroupsAreComponents' /\ GroupsPartition' /\ Searching' /\ Outer'
<1> DEFINE C == Component(start, LexicalEntry)
           new == TagsOfAll(ByTags(list_a)) \ tags
<1>1. /\ TypeOK /\ pc = "a" /\ method = "std" /\ Begun /\ TagSearch
      /\ tags' = tags \cup new /\ list_a' = new
      /\ UNCHANGED <<has, deleted, method, todo, group_list, pc, start, entries, list_b>>
  BY DEF SearchInv, Searching, FindAllTagsRound
<1>2. Live' = Live /\ entry_already_set' = entry_already_set
  BY <1>1, SameGroups
<1>3. Joined(C, LexicalEntry) /\ C \in SUBSET LexicalEntry
  BY <1>1, ComponentIsLeast DEF TypeOK
<1>4. ByTags(list_a) \subseteq C
  <2> SUFFICES ASSUME NEW e \in ByTags(list_a) PROVE e \in C
    OBVIOUS
  <2>1. PICK g \in list_a : g \in has[e]
    BY DEF ByTags
  <2>2. PICK x \in C : g \in has[x]
    BY <1>1, <2>1 DEF Begun, TagSearch, TagsOfAll
  <2>3. e \in LexicalEntry
    BY DEF ByTags
  <2> QED
    BY <1>3, <2>1, <2>2, <2>3 DEF Joined
<1>5. tags' \subseteq TagsOfAll(C)
  BY <1>1, <1>4 DEF TagSearch, TagsOfAll
<1>6. ASSUME NEW e \in LexicalEntry, has[e] \cap (tags' \ list_a') # {} PROVE has[e] \subseteq tags'
  <2>1. has[e] \cap tags # {}
    BY <1>1, <1>6
  <2>2. CASE has[e] \cap list_a # {}
    <3>1. e \in ByTags(list_a)
      BY <2>2 DEF ByTags
    <3> QED
      BY <1>1, <3>1 DEF TagsOfAll
  <2>3. CASE has[e] \cap list_a = {}
    BY <1>1, <2>1, <2>3 DEF TagSearch
  <2> QED
    BY <2>2, <2>3
<1>7. TagsOfAll(C)' = TagsOfAll(C)
  BY <1>1 DEF TagsOfAll, Component
<1>8. TagSearch'
  BY <1>1, <1>5, <1>6, <1>7 DEF TagSearch
<1>9. Begun'
  BY <1>1, <1>2 DEF Begun
<1> QED
  BY <1>1, <1>8, <1>9, OuterKept DEF Searching

(* A round, or half of one, of the other two ways: the entries of the listed tags are *)
(* found, and their new tags are listed.                                              *)
LEMMA EntryRound ==
  ASSUME TypeOK, Begun, EntrySearch, NEW list, list = list_a \cup list_b,
         NEW found, found = TagsOfAll(NewEntries(list)) \ tags,
         entries' = entries \cup NewEntries(list), tags' = tags \cup found,
         list_a' \cup list_b' = found,
         UNCHANGED <<has, deleted, start>>
  PROVE  EntrySearch'
<1> DEFINE C == Component(start, Live)
           new == NewEntries(list)
<1>1. Joined(C, Live) /\ start \in Live
  BY ComponentIsLeast DEF Begun
<1>2. new \subseteq C
  <2> SUFFICES ASSUME NEW e \in new PROVE e \in C
    OBVIOUS
  <2>1. PICK g \in list : g \in has[e]
    BY DEF NewEntries, ByTags
  <2>2. PICK x \in entries : g \in has[x]
    BY <2>1 DEF Begun, EntrySearch, TagsOfAll
  <2>3. x \in C /\ e \in Live
    BY <2>2 DEF EntrySearch, NewEntries
  <2> QED
    BY <1>1, <2>1, <2>2, <2>3 DEF Joined
<1>3. tags' = TagsOfAll(entries)'
  <2>1. TagsOfAll(entries \cup new) = TagsOfAll(entries) \cup TagsOfAll(new)
    BY DEF TagsOfAll
  <2>2. TagsOfAll(entries)' = TagsOfAll(entries \cup new)
    BY DEF TagsOfAll
  <2>3. tags = TagsOfAll(entries)
    BY DEF EntrySearch
  <2> QED
    BY <2>1, <2>2, <2>3
<1>4. Live' = Live /\ Component(start, Live)' = C
  BY DEF Live, Component
<1>5. ASSUME NEW e \in Live, has[e] \cap (tags' \ (list_a' \cup list_b')) # {}
      PROVE  e \in entries'
  <2>1. has[e] \cap tags # {}
    BY <1>5
  <2>2. CASE has[e] \cap list # {}
    <3>1. e \in ByTags(list) \cap Live
      BY <2>2 DEF ByTags, Live
    <3> QED
      BY <3>1 DEF NewEntries
  <2>3. CASE has[e] \cap list = {}
    BY <2>1, <2>3 DEF EntrySearch
  <2> QED
    BY <2>2, <2>3
<1> QED
  BY <1>2, <1>3, <1>4, <1>5 DEF EntrySearch

LEMMA EntryRoundStep ==
  ASSUME SearchInv, LinkedCycleA \/ LinkedCycleB \/ FindGroupRound
  PROVE  GroupsAreComponents' /\ GroupsPartition' /\ Searching' /\ Outer'
<1> DEFINE list == list_a \cup list_b
           found == TagsOfAll(NewEntries(list)) \ tags
<1>1. /\ TypeOK /\ pc \in {"a", "b"} /\ pc' \in {"a", "b"} /\ Begun
      /\ UNCHANGED <<has, deleted, method, group_list, todo, start>>
  BY DEF SearchInv, Searching, LinkedCycleA, LinkedCycleB, FindGroupRound
<1>2. method # "std" /\ EntrySearch
  BY <1>1 DEF SearchInv, Searching, Begun, LinkedCycleA, LinkedCycleB, FindGroupRound
<1>3. /\ list_a' \cup list_b' = found
      /\ entries' = entries \cup NewEntries(list) /\ tags' = tags \cup found
      /\ pc' = "a" => list_b' = {}
      /\ pc' = "b" => list_a' = {} /\ method = "plpgsql"
  <2>1. CASE LinkedCycleA
    <3>1. list = list_a /\ list_b = {}
      BY <1>1, <2>1 DEF Begun, LinkedCycleA
    <3> QED
      BY <2>1, <3>1 DEF LinkedCycleA
  <2>2. CASE LinkedCycleB
    <3>1. list = list_b /\ list_a = {}
      BY <1>1, <2>2 DEF Begun, LinkedCycleB
    <3> QED
      BY <2>2, <3>1 DEF LinkedCycleB
  <2>3. CASE FindGroupRound
    <3>1. list = list_a /\ list_b = {}
      BY <1>1, <2>3 DEF Begun, FindGroupRound
    <3> QED
      BY <2>3, <3>1 DEF FindGroupRound
  <2> QED
    BY <2>1, <2>2, <2>3
<1>4. EntrySearch'
  BY <1>1, <1>2, <1>3, EntryRound
<1>5. Live' = Live /\ entry_already_set' = entry_already_set
  BY <1>1, SameGroups
<1>6. Begun'
  BY <1>1, <1>3, <1>5 DEF Begun
<1> QED
  BY <1>1, <1>2, <1>4, <1>6, OuterKept DEF Searching

-----------------------------------------------------------------------------
(* When no tag is listed any more, what the search has is the component. *)
LEMMA FoundAll ==
  ASSUME TypeOK, Begun, list_a = {}, pc = "a",
         IF method = "std" THEN TagSearch ELSE EntrySearch
  PROVE  (IF method = "std" THEN ByTags(tags) ELSE entries) = Component(start, Allowed)
<1>1. CASE method = "std"
  <2> DEFINE C == Component(start, LexicalEntry)
  <2>1. C \in SUBSET LexicalEntry /\ Joined(C, LexicalEntry) /\ start \in LexicalEntry
    BY ComponentIsLeast DEF TypeOK
  <2>2. ASSUME NEW e \in ByTags(tags) PROVE e \in C
    <3>1. PICK g \in tags : g \in has[e] /\ e \in LexicalEntry
      BY DEF ByTags
    <3>2. PICK x \in C : g \in has[x]
      BY <1>1, <3>1 DEF TagSearch, TagsOfAll
    <3> QED
      BY <2>1, <3>1, <3>2 DEF Joined
  <2>3. ByTags(tags) \in SUBSET LexicalEntry /\ start \in ByTags(tags)
    BY <1>1, <2>1 DEF ByTags, TagSearch
  <2>4. ASSUME NEW x \in ByTags(tags), NEW y \in LexicalEntry, has[x] \cap has[y] # {}
        PROVE  y \in ByTags(tags)
    <3>1. has[x] \subseteq tags
      BY <1>1 DEF ByTags, TagSearch
    <3> QED
      BY <2>4, <3>1 DEF ByTags
  <2>5. C \subseteq ByTags(tags)
    BY <2>1, <2>3, <2>4, ComponentIsLeast DEF Joined
  <2>6. ByTags(tags) = C
    BY <2>2, <2>5
  <2> QED
    BY <1>1, <2>6 DEF Allowed
<1>2. CASE method # "std"
  <2>1. start \in Live /\ entries \in SUBSET Live /\ start \in entries
    BY <1>2, ComponentIsLeast DEF Begun, EntrySearch
  <2>2. ASSUME NEW x \in entries, NEW y \in Live, has[x] \cap has[y] # {} PROVE y \in entries
    <3>1. has[x] \subseteq tags
      BY <1>2 DEF EntrySearch, TagsOfAll
    <3>2. has[y] \cap (tags \ (list_a \cup list_b)) # {}
      BY <2>2, <3>1 DEF Begun
    <3> QED
      BY <1>2, <3>2 DEF EntrySearch
  <2>3. Component(start, Live) \subseteq entries
    BY <2>1, <2>2, ComponentIsLeast DEF Joined
  <2> QED
    BY <1>2, <2>3 DEF Allowed, EntrySearch
<1> QED
  BY <1>1, <1>2

LEMMA EndStep ==
  ASSUME SearchInv, EndSearch
  PROVE  GroupsAreComponents' /\ GroupsPartition' /\ Searching' /\ Outer'
<1> DEFINE C == Component(start, Allowed)
           new == [start |-> start, group |-> C]
<1>1. /\ TypeOK /\ pc = "a" /\ list_a = {} /\ Begun /\ pc' = "outer"
      /\ IF method = "std" THEN TagSearch ELSE EntrySearch
      /\ UNCHANGED <<has, deleted, method, todo, start>>
  BY DEF SearchInv, Searching, EndSearch
<1>2. group_list' = group_list \cup {new}
  BY <1>1, FoundAll DEF EndSearch
<1>3. /\ Live' = Live /\ Allowed' = Allowed
      /\ \A e, allowed : Component(e, allowed)' = Component(e, allowed)
  BY <1>1 DEF Live, Allowed, Component
<1>4. \A x \in group_list : x.group = Component(x.start, Allowed) /\ x.start \in Allowed
  BY <1>1 DEF SearchInv, GroupsAreComponents, Allowed, TypeOK, Live
<1>5. start \in Allowed /\ start \in C
  <2>1. start \in Allowed
    BY <1>1 DEF TypeOK, Begun, Allowed
  <2> QED
    BY <2>1, ComponentIsLeast
<1>6. GroupsAreComponents'
  <2>1. \A x \in group_list' : x.group = Component(x.start, Allowed)
    BY <1>2, <1>4
  <2> QED
    BY <1>3, <2>1 DEF GroupsAreComponents, Allowed
<1>7. ASSUME NEW x \in group_list, x.group \cap C # {} PROVE FALSE
  <2>1. start \in x.group
    BY <1>4, <1>5, <1>7, ComponentsMeet
  <2> QED
    BY <1>1, <2>1 DEF Begun, entry_already_set
<1>8. entry_already_set' = entry_already_set \cup C
  <2>1. new.group = C
    OBVIOUS
  <2> HIDE DEF new, C
  <2> QED
    BY <1>2, <2>1 DEF entry_already_set
<1>9. GroupsPartition'
  <2>1. ASSUME NEW x \in group_list', NEW y \in group_list', x # y
        PROVE  x.group \cap y.group = {}
    <3>1. new.group = C
      OBVIOUS
    <3>2. CASE x \in group_list /\ y \in group_list
      BY <2>1, <3>2 DEF SearchInv, GroupsPartition
    <3>3. CASE x = new \/ y = new
      BY <1>2, <1>7, <2>1, <3>1, <3>3
    <3> QED
      BY <1>2, <3>2, <3>3
  <2> QED
    BY <1>1, <2>1 DEF GroupsPartition
<1>10. Outer'
  BY <1>1, <1>3, <1>5, <1>8 DEF SearchInv, Outer
<1> QED
  BY <1>1, <1>6, <1>9, <1>10 DEF Searching

LEMMA FinishStep ==
  ASSUME SearchInv, Finish
  PROVE  GroupsAreComponents' /\ GroupsPartition' /\ Searching' /\ Outer'
<1>1. /\ pc = "outer" /\ todo = {} /\ pc' = "done"
      /\ UNCHANGED <<has, deleted, method, group_list, todo>>
  BY DEF Finish
<1>2. Live' = Live /\ entry_already_set' = entry_already_set /\ GroupsAreComponents'
  BY <1>1, SameGroups DEF SearchInv
<1> QED
  BY <1>1, <1>2 DEF SearchInv, Outer, GroupsPartition, Searching

LEMMA SearchStep == SearchInv /\ [Next]_vars => SearchInv'
<1> SUFFICES ASSUME SearchInv, [Next]_vars PROVE SearchInv'
  OBVIOUS
<1>1. TypeOK'
  BY TypeStep
<1>2. CASE UNCHANGED vars
  <2>1. UNCHANGED <<has, deleted, method, todo, group_list, pc, start, entries, tags, list_a, list_b>>
    BY <1>2 DEF vars
  <2>2. /\ Live' = Live /\ entry_already_set' = entry_already_set /\ GroupsAreComponents'
        /\ \A e, allowed : Component(e, allowed)' = Component(e, allowed)
        /\ \A some : TagsOfAll(some)' = TagsOfAll(some)
    BY <2>1, SameGroups DEF SearchInv
  <2>3. Begun' = Begun /\ TagSearch' = TagSearch /\ EntrySearch' = EntrySearch
    BY <2>1, <2>2 DEF Begun, TagSearch, EntrySearch, TagsOfAll, Component
  <2> QED
    BY <1>1, <2>1, <2>2, <2>3 DEF SearchInv, GroupsPartition, Searching, Outer
<1> QED
  BY <1>1, <1>2, StartStep, TagRoundStep, EntryRoundStep, EndStep, FinishStep DEF Next, SearchInv

LEMMA SearchInvariant == Spec => []SearchInv
<1>1. Init => SearchInv
  <2> SUFFICES ASSUME Init PROVE SearchInv
    OBVIOUS
  <2>1. TypeOK
    BY DEF Init, TypeOK, Live, Methods
  <2>2. Outer /\ Searching
    BY DEF Init, Outer, Searching
  <2> QED
    BY <2>1, <2>2 DEF Init, SearchInv, GroupsAreComponents, GroupsPartition
<1> QED
  BY <1>1, SearchStep, PTL DEF Spec

(***************************************************************************)
(* The variables of the searches keep their types; that the group list     *)
(* holds groups of live entries only needs that a search starts from one.  *)
(***************************************************************************)
THEOREM TypeCorrect == Spec => []TypeOK
<1>1. SearchInv => TypeOK
  BY DEF SearchInv
<1> QED
  BY <1>1, SearchInvariant, PTL

(***************************************************************************)
(* Over any tables, each of the three ways finds exactly the component of  *)
(* the entry it starts from, whichever of its tags find_all_tags takes     *)
(* first.                                                                  *)
(***************************************************************************)
THEOREM SearchesFindComponents == Spec => []GroupsAreComponents
<1>1. SearchInv => GroupsAreComponents
  BY DEF SearchInv
<1> QED
  BY <1>1, SearchInvariant, PTL

(***************************************************************************)
(* The groups of the outer loop are disjoint and, when it is done, hold    *)
(* every tagged entry that is not deleted.                                 *)
(***************************************************************************)
THEOREM SearchesPartition == Spec => []GroupsPartition
<1>1. SearchInv => GroupsPartition
  BY DEF SearchInv
<1> QED
  BY <1>1, SearchInvariant, PTL
=============================================================================
