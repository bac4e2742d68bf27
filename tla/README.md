# Lingvodoc: a TLA+ model

Lingvodoc is a system for multi-user documentation of endangered languages. This directory
holds TLA+ modules of the parts of its server whose state many requests change, the TLC
configurations that check them on small instances, and theorems about them that TLAPS checks.
Paths below are relative to the root of the repository; `schema/` is `lingvodoc/schema/`,
and so on.

1. [The system](#the-system) · 2. [Inventory](#inventory) · 3. [Modules](#modules) ·
4. [Runs](#runs) · 5. [Proofs](#proofs) · 6. [What the checks found](#what-the-checks-found) ·
7. [Not modelled](#not-modelled) · 8. [Plan](#plan)

## The system

The server is Python: Pyramid, SQLAlchemy over PostgreSQL, Redis for caches and task records.
Clients call a GraphQL API (`schema/`, one mutation class per operation); an older REST API
(`views/v2/`) does many of the same things. Heavy work (import, export, analyses,
synchronization) runs in processes of its own. A desktop variant of the same program works on a
local database and synchronizes with the central server.

What decides the hard behaviour:

* **One request is one transaction** (`pyramid_tm`), at PostgreSQL's default READ COMMITTED,
  with no retry and almost no row locks. Several worker processes serve requests. So a request
  sees what was committed when it asked and overwrites what was committed since. JSON columns
  (`additional_metadata`, `owners`) are read, changed in memory and written whole.
* **Redis is outside the transaction.** Keys are set and removed while the request runs,
  before its commit, and stay so if it aborts.
* **Rows are not deleted but marked** (`marked_for_deletion`), with a message in `ObjectTOC`
  about why and what went with them; some things can be restored from it.
* **An order or a group is not an object of its own**: groups of cognates are equal tags on
  entries, the order of languages is a list kept on every sibling. Operations must keep all the
  copies in agreement.

## Inventory

| Component | State | Operations | What makes it correct |
|---|---|---|---|
| Cognate links (`schema/gql_lexicalentry.py`, `utils/search.py`) | tag entities, `accepted` and `published` of their publishing rows | `ConnectLexicalEntries`, `DeleteGroupingTags`, REST twins | groups are a division of the entries; linking fuses groups, removal takes out one entry; no duplicate rows; a link made stays |
| Search for groups (`schema/gql_cognate.py`, `alembic/…eb70cc55b178…`, `scripts/save_dictionary.py`) | worklists of tags, temporary tables | three searches and their outer loops | finds exactly what is linked, ends, partitions |
| Language tree (`schema/gql_language.py`, `utils/creation.py`, `schema/gql_dictionary.py`) | parent, `younger_siblings`, mark; home and mark of dictionaries | create, move, delete; create, move, delete, restore of dictionaries | no cycle; one order of siblings; nothing live below what is deleted |
| Translations (`schema/gql_holders.py`, `gql_translationatom.py`, `gql_translationgist.py`, `models.py`) | gists, atoms, marks and messages, two kinds of cache keys | create, update, delete of atoms and gists; by the objects they name; two cached readers | a cached text is a text of the database; restoring is the reverse of deleting |
| Grant requests (`schema/gql_userrequest.py`, `gql_dictionary.py`) | request rows, owners, participants, roles, memberships | ask, accept, decline; deletion and restoration of dictionaries; new perspectives with their groups | every owner has every group of the roles; the roles have the groups each dictionary was created with; one pending family |
| Organization requests (`schema/gql_userrequest.py`) | request rows, members, `admins`, `participant` | the same, with a table lock in one branch | no lost or duplicate member |
| Task registry (`cache/caching.py`, `schema/gql_tasks.py`, `views/v2/tasks.py`) | a record per task, a key set per user, both in Redis | creation, look-up by workers and deletions, reports, deletion, listing | a recorded task is seen; a deleted one stays deleted after its last report; dummies of missing tasks |
| Through cache (`cache/through/cache.py`) | pickled objects in Redis | read-through get, set after flush | a cached object is a committed one; an answer is what the row says; what is deleted is refused |
| Queue of Celery tasks (`queue/`) | a list per user, a result and a progress per task | set, get, set progress | as the task registry |
| Entities and publication (`schema/gql_entity.py`, `models.py`) | entities and publishing rows | create, update, approve, delete | one publishing row each; states only by those who may |
| Dictionaries and perspectives (`schema/gql_dictionary.py`, `gql_dictionaryperspective.py`, `gql_column.py`) | rows, states, columns, roles | CRUD, state changes, columns order | no orphan, order of columns |
| Permissions (`lingvodoc/acl.py`, `schema/gql_group.py`, `gql_user.py`) | base groups, groups, memberships | assign and remove roles | who holds what |
| Merge (`schema/gql_merge.py`, `utils/merge.py`) | entries, entities, perspectives | merge of entries and perspectives | nothing lost |
| Synchronization (`scripts/desktop_sync.py`, `views/v2/sync.py`, `utils/proxy.py`) | two databases, permissions, checkpoints | download, upload, retry | nothing lost or twice |
| Object ids (`models.py`) | client counters, `ObjectTOC` | id generation | an id is given once |
| Deletion for good (`utils/deletion.py`, `utils/garbage_collector.py`) | all tables of a desktop | cascade | no dangling row |
| Queries, converters, analyses (`schema/query.py`, `gql_search.py`, `gql_parser.py`, `scripts/`) | none of their own besides task records | — | sequential |

Components touch one another through the database: deleting a dictionary changes grants,
translations and what may be deleted above it; deleting a lexical entry leaves its tags to the
search; everything that marks an object for deletion goes through `del_object`, which deletes its
gist; a merge moves entities and links, the tags of cognates among them; objects that the through
cache holds are those that languages, translations and grants are about; every background job has a
task record. What is hard to test, at which line, is in `PROJECT.json` under `hazards`.

## Modules

Each module names the code's functions. In modules of overlapping requests a request is two
actions: its first one reads and decides on the committed state (all that the handler computes
is in it), its second one commits the rows it writes. What falls between the two is what
READ COMMITTED lets in. Where finer steps decide (the caches in Redis, the many statements of a
merge) each access is an action. Much of what the code promises it can promise only for requests
one after another, which is what a test suite exercises. So in `CognateTags`, `TaskStatus` and
`MergeEntries` the initial state chooses, for the whole behaviour, whether requests overlap
(`concurrent`, `overlap`), and properties that need it say so; in `GrantRequests` this is the
constant `Concurrent`, and in `LanguageTree` the number of transactions.

### Cognates: `CognateGroups`, `CognateTags`, `CognateTagsProofs`, `MCCognateTags`

`CognateGroups` is the promise: every entry has a group; `Connect` fuses groups, `Leave` makes
one entry a group of its own. `CognateTags` is the code. `entity` is the set of live tag rows
(`parent`, `content`, and the request that made it, so that two rows of one tag are two
elements); `accepted` and `published` are the marks of the publishing rows. `ConnectBegin`
gathers the tags of the connected entries (`find_all_tags`, a closure), draws one if there is
none (`drawn`, since a drawn tag is fresh) and finds the entries that carry them;
`ConnectCommit` adds to each the rows it lacks (`NewRows`), accepted where the user may create
entities and published when the user is the administrator. `DeleteBegin` and `DeleteCommit` are
`DeleteGroupingTags`. The refinement maps the group of an entry to the entries that share a
tag with it.

### Search: `CognateSearch`, `CognateSearchProofs`, `MCCognateSearch`

The three ways of gathering a group, as loops over any fixed table `has`: rounds of
`find_all_tags`, halves of a round of the PL/pgSQL `linked_cycle` (its two temporary lists that
are filled and truncated in turn), rounds of `find_group_by_tags`, each inside the outer loop
over tagged entries that skips what a group already has. The reference, `Component`, is the
least set closed under shared tags. `CognateTags` uses `find_all_tags` as a closure in one step;
this module, and its theorem for tables of any size, is why it may.

### Languages: `SiblingOrder`, `LanguageTree`, `LanguageTreeProofs`, `MCLanguageTree`

`SiblingOrder` is the promise: one sequence of children for each parent; a new child is last, a
moved one first or right after another, a deletion keeps the order of the rest. In
`LanguageTree` nothing keeps a sequence: each language has `younger_siblings`, those before it.
`create_dblanguage`, `move_language` and `DeleteLanguage` compute which lists of which siblings
change (`Leaving`, `After`), `Commit` writes them whole. `Above` is the walk up the parents
that refuses a cycle. Dictionaries have a `home` and a mark; their creation, move and
restoration do not look at the mark of the language, as in the code. The refinement maps the
children of a parent to the longest list among them and its owner.
`OwnPrevious` says whether clients may name a language as its own previous sibling, which the
code does not refuse; the runs say no.

### Translations: `Translations`, `TranslationsProofs`, `MCTranslations`

A gist is marked with the reason of the message in its `ObjectTOC` row, its `atom_id_list` is
from that message; atoms have a locale, a text and a mark; `translation` and `translations` are
the two kinds of cache keys, where an empty dictionary of texts counts as none (`if
translations:` in `models.py`). Each request is one step; `Aborted` is one whose commit failed
after it removed keys. `del_object` and `undel_object` are the deletion and restoration of an
object with its gist, unless the gist is of type "Perspective" (`Common`). `create_gists_with_atoms`
creates the texts of a new object: of a new gist, or of one that the client names.
`UpdateAtomOfLocale` and `UpdateAtomById` are the mutations of languages, dictionaries and
perspectives that write texts; an `atom_id` that is not there makes a new atom, whether the locale
has one or not. Whether a behaviour has these mutations, and creation with a gist that is named, is
chosen in the initial state (`by_object`), because they leave stale keys.

### Grants: `GrantRequests`, `GrantRequestsProofs`, `MCGrantRequests`

One grant. A request is a family of rows, one for each recipient; `AcceptBegin` holds the columns it
read and what it will write (`owners`, or the metadata column with `participant` and `roles`, never
both), and the memberships it will insert; `AcceptCommit` aborts when a membership has been inserted
since, for the table has a unique index (`alembic/…6e02e6fdf0f9…`). It deletes only the row
accepted: the code filters the family by the row's id as well. `DeleteDictionary` and
`UndeleteDictionary` take a dictionary out of the metadata and put it back from the message
(`grant_id_list`). `Restores` admits restoration. `groups` are the permission groups about a
dictionary and its perspectives: those it is created with (`GroupsOf`), and those that
`CreatePerspective` adds, in one step, for whoever may create perspectives of the dictionary. The
code gives them to the creator and the users of the dictionary (`Holders`) and does not look for a
grant, so that `roles` lacks them until a row of the dictionary is accepted again.

### Tasks: `TaskStatus`, `TaskStatusProofs`, `MCTaskStatus`

The state is in Redis and every command is an action: `Set` writes the record, `PutRead` and
`PutWrite` are the two halves of the unprotected update of the user's key set, `DelRead`,
`DelWrite` and `DelRem` those of a deletion. The request that creates a task may go on with it, or
hand its key over to a worker (`Delay`), which begins by looking it up, as a deletion does
(`GetFromCache`). If the task is not there, `get_from_cache` registers a dummy task of user 0: a
deletion deletes that, a worker reports on it. Reports of progress are a bounded
number, `Last`; whether the commands of several processes overlap is chosen at the start.

### Objects behind the cache: `ThroughCache`, `ThroughCacheProofs`, `MCThroughCache`

Dictionaries, perspectives and entries are taken through `CACHE.get`, which looks in Redis and fills
it from the database, and given back through `CACHE.set`, which flushes and then writes the whole
pickled object; the transaction commits, or is rolled back by the `graphql` view, only after that.
Every access to Redis or the database is an action: `Hit`, `Miss`, `Query`, `Fill`; `TakeRow` for
the mutations that go to the row; `Update`, `Status`, `Roles`, `Mark` for what they assign; `Flush`,
`Put`, `Commit`, `Abort`. An UPDATE writes only the columns that differ from the copy that was
loaded (`Assigned`), or that `update_metadata` flags (`Flagged`), to the row as it is then
(`Written`); the row stays locked until the end. `Handed` is what `UpdateDictionary` writes to the
metadata of the perspectives of its dictionary, behind the cache. `dirty` are the objects whose copy
in Redis was put there by a request that was rolled back. Requests for one object overlap as
`Together` says (fills with fills, takers of the row with one another), and in any way if the object
is in `Crowded`. Nothing in the code keeps requests for one object apart: for other objects it is an
assumption (`MayBegin`) of `CacheCoherent` and `AnswersTrue`, and `through_overlap` shows what
happens without it. Requests for different objects overlap in any way. A reader that hits changes nothing and is left out. Rows are there from the
start.

### Merges: `MergeEntries`, `MergeEntriesProofs`, `MCMergeEntries`

Entities hang on entries; an `item` is a text, a tag or a hash with its field, or a link to an
entry. The publishing row is in the same record, but a merge does not write it for what it marks
(`Written`). A merge is `CheckGroup`, `Gather` (it reads the entities, and adds a new one for each
item, `Merged`), then for each old entity `Load`, which refuses one that is merged already, and
`Mark`, whose UPDATE waits for the row; then for each entry `Retire`, which marks it and reads the
links to it, and for each link `Redirect`. `rows` is what the transaction has written and nobody
sees yet. `Commit` ends it; an error (`failed`) is rolled back in the GraphQL API (`Abort`), and
committed by the REST view and the background task (`CommitFailed`), which report it and return.
`tree` is the set of originals in the `merge_tree` of an entry's metadata; `merged_to` and
`merged_by` are keys of the metadata. Creation, update, new content and deletion of an entity and
the deletion of an entry are one step each. `took` and `spoiled` are history: what each merge
marked, and the originals of merges that failed and were committed. An order by ids, or the drawing
of one, is a fixed choice (`First`). Abstracted: entities on entities are a flag (`parts`); a
request merges one group; all entries are of one perspective, and fields have distinct names;
entities stay in their entry (`UpdateEntity` with `new_parent_id` is left out).

## Runs

All runs use small sets; each configuration says what they are.

| Run | What it checks | Bounds and why they are enough |
|---|---|---|
| `cognates` | without overlap `Uniform`, `OneRowPerTag`, `TakenOut`, `ImplementsGroups`; with overlap `StaysConnected` | three entries; four requests one after another: two groups, their fusion, and a removal; or three that overlap (`MaxOverlapping`): two connects that share an entry and a removal; the theorems cover every size |
| `search_groups` | `GroupsAreComponents`, `GroupsPartition`, `Terminates` | every table of three entries, three tags, any entries deleted: a chain over three entries takes both halves of a round |
| `languages_serial` | `SiblingsOrdered`, `NoCycle`, `ImplementsOrder`, `DeletedBare` | three languages: a place before, between and after siblings, and a cycle over two levels; a dictionary; no limit on the number of steps |
| `languages_overlap` | **violated** `NoCycle` with two open transactions | |
| `translations` | `AtomsFollowGist` always; `CacheCoherent`, `DeletedGistIsBare` when texts are changed by the translation requests only, or come with new gists | two atoms, two texts, two locales that fall back to each other, two objects with one gist and one with a common one: an atom removed by itself and one with its gist, the text asked for and the fallback; no limit on steps |
| `translations_stale` | **violated** `StandardRetrieval`, the cache whoever writes the texts | the same |
| `grants_serial` | `OwnersHoldRoles`, `RolesOfCreation`, `OneFamily`, `AcceptedAgain`, all without overlap | six requests: ask and accept for two subjects, with a deletion and restoration or a new perspective in between; two dictionaries, one with two groups, a fourth group for the perspective; an owner from the start |
| `tasks` | `RecordListed` (with overlap, for users with one task); without overlap `DummiesAreLost`; in every order of Redis commands `DeletedIsGone`, `EndedStaysDeleted` | three tasks, two of one user; workers for two of them, one of each user; two deleting requests; one report after the first |
| `through` | `CacheCoherent`, `AnswersTrue`, while requests for one object come one after another | a dictionary and its perspective, two processes, two values, one key of metadata that the dictionary hands on; no limit on steps; `Crowded` is empty, the theorems cover any |
| `through_overlap` | **violated** `RefusedWhenDeleted`, the refusal of a deleted dictionary, when its requests overlap (`Crowded`) | the same |
| `through_rolled_back` | **violated** `InsertedThenCached`, the cache after a roll-back | the same |
| `merging` | `OriginalsOnce`, `MergeKeeps` without overlap, `TwiceAtMostOnce` always | three entries with three entities, five more ids; two merges, so that a merged entry is merged again or one entry twice, one with `publish_any`; one other request (`MaxEdits`) between any two statements; two starts: equal texts with a link to one of the entries, and a link between entries with one that has parts |

Deadlock is not checked where requests are bounded in number (`Txn`, `Merge`), tasks end or a search is
done: there the model stops because nothing is left to do.

Fairness is assumed in one place, `CognateSearch!FairSpec`: weak fairness of the next step. A
search is one sequential loop in one process with nobody to wait for. Requests of users are not
fair: nobody has to send one, and no property says they do.

Symmetry is used where a run checks no liveness: entries, tags, languages, atoms, texts and
requests are told apart by nothing.

## Proofs

What TLC shows for a few entries, languages or tasks the theorems show for any number. All
constants are arbitrary sets, subject to the `ASSUME`s in the modules (for instance: `Top` is
not a language). Each proof has the same shape: an invariant strong enough to be inductive, one
lemma for each action or half of a request, and a theorem that combines them.

* **`CognateTagsProofs`.** `FirstTagIsEnough`: `find_all_tags` starts from whichever tag of the
  entry comes first and finds the same tags from any. Without overlap (`~concurrent`):
  `SerialUniform`, `SerialOneRow`, `SerialTakenOut`, and `SerialImplementsGroups`, that the rows
  implement `CognateGroups`. The invariant `SerialInv` adds to `Uniform` what an open request has
  read, which is still so when it commits because nothing else ran (`UpToDateConnect`,
  `UpToDateDelete`). In a uniform table the tags of an entry are closed (`UniformIsClosed`), so a
  connect adds to the fused entries exactly the union of their tags (`TagsAfterConnect`).
  `ClosureIsLeast` is the lemma about the closure. With overlap: `TypeCorrect`, and
  `ConnectedStay`, what an administrator has linked stays linked while nobody takes an entry out.
  There rows are only added, so that what a request has read is still so (`Linking`), but it may no
  longer be all.
* **`CognateSearchProofs`.** `SearchesFindComponents`: each of the three searches, over any
  table, gathers the component of the entry it started from; `SearchesPartition`: the
  groups of the outer loop are disjoint and cover. The invariant has what a half-done search knows:
  what it has found is of the component (`ComponentIsLeast`), and whatever has a found tag that is
  on no list any more is found too (`TagSearch`, `EntrySearch`); with empty lists what is found is
  closed, and the component is the least closed set. The two temporary lists of `linked_cycle` are
  never both in use, which is why its halves may share the invariant.
* **`LanguageTreeProofs`.** With one transaction at a time. `SerialSiblingsOrdered` and
  `SerialImplementsOrder`, unless a language is named as its own previous sibling: the invariant
  says of every parent that the list of its children, read off the longest `younger_siblings`, is a
  list for the siblings (`Lists`: each child is in it once, and after exactly those it keeps), and
  that each open transaction is one that the present tables decide (`Decided`: it `Creates`,
  `Moves`, `Deletes` or `Rehomes`). What each sibling keeps determines the list (`ChildrenAre`),
  so a commit makes of a sequence what `SiblingOrder` says: it appends (`CreateCommits`), cuts
  (`ListsCut`) or inserts (`ListsInserted`). `SerialDeletedBare` needs of
  open transactions only that one which deletes has found its language bare. `SerialAcyclic`:
  `TreeInv` says that an open transaction changes at most one parent and that the parents it would
  leave have no cycle. The heart is `MoveAcyclic`: if `l` is not above `p`, putting `l` below `p`
  makes no cycle: a set of languages that holds all its parents would hold, without what is above
  `p`, such a set before. `TypeCorrect` holds with any overlap.
* **`TranslationsProofs`.** `RestoresWhatWasDeleted`: a gist's message names what its deletion took,
  for every sequence of requests, objects' mutations included. `CacheIsCoherent` and
  `DeletedIsBare`: without the latter (`~by_object`; objects are created with new gists) cached texts are live texts and a deleted gist
  has none. The invariant is `TypedInv` (types and `AtomsFollowGist`) with `DeletedGistIsBare` and
  `CacheCoherent`: that a restoration brings back no text behind a cached value needs all four.
* **`GrantRequestsProofs`.** `RolesCoverCreated`: overlapping transactions lose one another's
  updates, but `participant` and `roles` are one column, lost or kept together, so the roles have
  the groups each dictionary of the grant was created with, if none is restored (a restored
  dictionary is added to a column whose roles another transaction may have lost). The invariant
  `MetadataInv` has the same for what each open transaction will write. `SerialOwnersHoldRoles` and
  `SerialRolesCoverCreated`: serially, restorations included, every owner is in every group of the
  roles, and the roles have those groups; the invariant `OwnersInv` also has what an open
  transaction has read, which is still so. It gives `SerialAcceptedAgain`: an acceptance of someone
  who is in adds nothing but the groups of perspectives created since, for the other roles and
  memberships it would add are there. `SerialOneFamily`: a request that is being created is about a
  subject that no pending row is about (`CreatesNew`).
* **`TaskStatusProofs`.** `RecordsAreListed`: a recorded task at rest is listed, without overlap,
  and in whatever order the Redis commands come if its user has no other task. The invariant
  `ListedInv` says that the task is listed or its own process is on its way to list it; `SerialInv`
  that one operation at most is between its commands, and what it has read is still so.
  `DummiesOfWorkersStay` follows from it:
  a deletion leaves no dummy, and each task of user 0 is that of a worker whose own task was deleted
  before it looked it up. `DeletionShows` and `EndedDoesNotReturn` hold in every
  order: what a deletion answers and that nothing writes a task after its last report.
* **`ThroughCacheProofs`.** `SerialCacheCoherent` and `SerialAnswersTrue`, for any set `Crowded`, about
  the objects that are not in it: those whose requests come one after another, but for fills with
  fills and takers of the row with one another, while requests for other objects overlap. The invariant `Inv` relates each request's copy to the row: what it took and leaves is
  the row's (`Fresh`), its UPDATE makes the row its copy, a row is updated by one open transaction
  (`Locked`), and Redis holds the copy of the request that has put it, or else the row (`Cached`).
* **`MergeEntriesProofs`.** `SerialOriginalsOnce`: its invariant `HomeInv` says that what an open
  merge has checked stays so and that the entry of a merge is made only when it commits.
  `OverlapTakesOne`, for any overlap: texts that a committed merge took stay marked as merged
  (`TookMarked`), so that a merge can take up one only before that; a running merge holds at most
  one entity that it has read and not yet locked (`Shape`), and what is locked is disjoint
  (`RowLocks`); hence it holds at most one text that another has taken (`HoldsOne`).
  `SerialMergeKeeps`, the action property `MergeKeeps`: its invariant `KeepInv` says that nothing is
  in the entry of a merge, or leads to it, before the merge is over (`NotYet`), and of a running
  merge what it has done so far (`Progress`): what it has marked is old or a link for which there
  is a new one (`OldMarked`), what it has made comes from old entities (`NewFromOld`), each of which
  has its successor (`OldInNew`; a link inside the group is made anew, and replaced in its turn),
  and the links it holds are those to the entries retired so far (`LinksRead`). At the commit
  there is nothing left to hold (`CommitKeeps`).

Every invariant and every action property that a passing run checks is a theorem, under the
hypotheses that its text names. Only model-checked: that a search ends (`Terminates`; liveness under
fairness is out of the prover's reach), and the four runs that show what overlap breaks. Induction over data is out of reach too, but for
the least natural number with a property of a set (`LeastNatural`), which the order of siblings
needs and well-founded minima give.

## What the checks found

Four runs show the code doing otherwise than it says (`findings` in `PROJECT.json`):

* **Two overlapping moves make a cycle of languages** (`languages_overlap`), although
  `move_language` refuses one: 'cannot cycle parent-child in tree'. The loop that looks for cycles
  never ends for a move below such languages.
* **Stale cached texts** (`translations_stale`): `UpdateLanguageAtom` creating a text, and
  `UpdateDictionaryAtom` and `UpdatePerspectiveAtom` moving one by `atom_id`, remove no cache key.
* **A cache of what was never committed** (`through_rolled_back`): objects are put in Redis before
  the commit, and a request that is then rolled back leaves them there: an entry that a failed
  `BulkDeleteLexicalEntry` marked is refused as deleted by the next request, though its row is live.
* **A deleted dictionary that is not refused** (`through_overlap`): a request that found nothing in
  Redis reads the dictionary, a deletion of it puts the marked copy and commits, and the first
  request then fills Redis with the live copy it had read. No request is open any more, and the next
  `UpdateDictionary` tests the mark of that copy.

Also seen, and in the modules as the code has them: the standard search for groups walks through
deleted entries and the other two do not; `undel_object` restores a gist that had been deleted by
itself; `UpdateTranslationAtom` may give a gist a second text in a locale; accepting a request
leaves the rows of the other recipients; a dictionary may be created in, moved to or restored into a
language that is deleted (`create_dbdictionary` and `UndeleteDictionary` do not look at its mark, the
check in `UpdateDictionary` tests a query object, which is always true), although `DeleteLanguage`
refuses a language that contains dictionaries; a perspective created in a dictionary that is in a grant
brings groups that the roles of the grant lack and its owners do not get; a worker whose task was
deleted before it began reports on a dummy task of user 0 that stays in Redis for good, where nobody
sees or deletes it; `UpdateDictionary` writes location, authors and the like to
its perspectives but not to their cached copies, and the next `UpdateDictionaryPerspective` writes
the old ones back. A merge that fails in the REST view or in the background is committed half done
(`transaction.abort()` comes after the `with manager` block has committed); links that it replaces
lose their acceptance and publication; a link with entities on it fails every merge
(`self_reference_replace` is called with an argument missing); two overlapping merges may both take
an entry with one text; entities may be created in an entry that was merged away.

Seen next to the modules: a batch of GraphQL queries always fails (`views/v2/views.py:1301` asks a
list for `errors`); `download_dictionary` of the desktop uses an undefined name; the merge of
entries unites the tags of its entries, so that `Uniform` of `CognateTags` is a property of links
without merges.

## Not modelled

REST twins of modelled mutations (`views/v2/`): `language.py` writes the parent with no check and
leaves the lists of siblings; the others repeat the GraphQL code. The desktop's deletion for good.
Permissions are a set of allowed users where an operation checks them and left out where they decide
nothing the properties tell apart. Ids are atoms, given once. Wording, messages, parsing and layout.
`tag_data_aggregated` in `gql_cognate.py`, which nothing calls. Components without a module are
listed with the reason in `PROJECT.json`. The JavaScript in the repository is the web client
compiled from Scala, with its libraries; it is no source, and nothing here is about it: the modules
are about the server, which is Python.

## Plan

In this order; the first seven groups are done.

1. `CognateGroups`, `CognateTags`, its proofs; `CognateSearch`.
2. `TaskStatus` and its proofs.
3. `Translations` and its proofs.
4. `GrantRequests` and its proofs.
5. `SiblingOrder`, `LanguageTree`, and the proofs of no cycle, of the order and of its refinement.
6. `ThroughCache` and its proofs.
7. `MergeEntries` and its proofs.
8. The overlap of the readers of `Translations` with a writer, one access at a time as in `ThroughCache`.
9. Merges and `CognateTags` composed: what a merged entry's union of tags does to groups. The
    rest of the entities' mutations: moves, bulk updates, entities on entities.
10. `OrgRequests` next to `GrantRequests`: the lock of one branch and the lists of the others.
11. `DesktopSync`: download and upload with checkpoints, failures and retries; abstractly, the
    central database grows by what the desktop made, once.
12. `TaskCache` of the queue, roles and groups, columns of perspectives, the REST twins.
