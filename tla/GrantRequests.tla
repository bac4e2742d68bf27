---------------------------- MODULE GrantRequests ----------------------------
(***************************************************************************)
(* The requests about one grant (schema/gql_userrequest.py): a user asks   *)
(* to become an owner (CreateGrantPermission), a dictionary is proposed    *)
(* for the grant (AddDictionaryToGrant), a recipient accepts or declines   *)
(* (AcceptUserRequest).  A request is a family of rows, one for each       *)
(* recipient; an answer deletes the row of the recipient only.  Deleting a *)
(* dictionary takes it out of the grant, restoring it puts it back         *)
(* (schema/gql_dictionary.py).                                             *)
(*                                                                         *)
(* A mutation is one transaction at READ COMMITTED: Begin is what it reads *)
(* and decides, Commit what it writes.  The grant's owners are one JSON    *)
(* column, its participating dictionaries and its roles (permission group  *)
(* ids) another: each is written whole, so an overlapping write is lost.   *)
(* Memberships of groups are rows with a unique index: a duplicate aborts  *)
(* the transaction.  A perspective that is created brings groups of its    *)
(* own (utils/creation.py): an acceptance reads the groups there are by    *)
(* then, and the creation does not look for a grant.                       *)
(***************************************************************************)
CONSTANTS
    User,
    Approver,       \* members of the override group that approves grants
    Override,       \* users who may edit any dictionary
    Dictionary,
    Group,          \* permission groups
    GroupsOf,       \* GroupsOf[d]: the groups dictionary d and its perspectives are created with
    EditGroup,      \* EditGroup[d]: the group that may edit d
    CreateGroup,    \* CreateGroup[d]: the group that may create perspectives of d
    Holders,        \* Holders[d]: the creator of d, and users attached to the languages above it
    First,          \* the owners a grant already has
    Txn,            \* the requests of a behaviour, each used once
    Concurrent,     \* may transactions overlap?
    Restores        \* are deleted dictionaries restored?

ASSUME GrantAssumption ==
    /\ Approver \subseteq User /\ Approver # {} /\ Override \subseteq User /\ First \subseteq User
    /\ GroupsOf \in [Dictionary -> SUBSET Group]
    /\ EditGroup \in [Dictionary -> Group] /\ CreateGroup \in [Dictionary -> Group]
    /\ Holders \in [Dictionary -> SUBSET User]
    /\ \A d \in Dictionary : {EditGroup[d], CreateGroup[d]} \subseteq GroupsOf[d]
ASSUME ConcurrentAssumption == Concurrent \in BOOLEAN /\ Restores \in BOOLEAN

VARIABLES
    request,        \* rows of userrequest about the grant
    owners,         \* grant.owners
    participant,    \* grant.additional_metadata['participant']
    roles,          \* grant.additional_metadata['roles']
    member,         \* user_to_group_association
    groups,         \* groups[d]: rows of group about d or one of its perspectives
    live,           \* dictionaries not marked for deletion
    grant_id_list,  \* dictionaries whose ObjectTOC message names the grant they were in
    txn

tables == <<request, owners, participant, roles, member, groups, live, grant_id_list>>
vars == <<request, owners, participant, roles, member, groups, live, grant_id_list, txn>>

Row == [kind : {"grant_permission"}, subject : User, recipient : User, by : Txn]
       \cup [kind : {"add_dict_to_grant"}, subject : Dictionary, recipient : User, by : Txn]

Idle == [pc |-> "idle"]
Done == [pc |-> "done"]
CreateTxn == [pc : {"open"}, op : {"create"}, rows : SUBSET Row]
AcceptTxn == [pc : {"open"}, op : {"accept"}, row : Row,
              owners : SUBSET User, participant : SUBSET Dictionary, roles : SUBSET Group,
              joins : SUBSET (User \X Group)]
MarkTxn == [pc : {"open"}, op : {"delete", "undelete"}, dictionary : Dictionary,
            write : BOOLEAN, participant : SUBSET Dictionary, roles : SUBSET Group]

TypeOK ==
    /\ request \in SUBSET Row
    /\ owners \in SUBSET User
    /\ participant \in SUBSET Dictionary
    /\ roles \in SUBSET Group
    /\ member \in SUBSET (User \X Group)
    /\ groups \in [Dictionary -> SUBSET Group]
    /\ live \in SUBSET Dictionary
    /\ grant_id_list \in SUBSET Dictionary
    /\ txn \in [Txn -> {Idle, Done} \cup CreateTxn \cup AcceptTxn \cup MarkTxn]

Init ==
    /\ request = {}
    /\ owners = First /\ participant = {} /\ roles = {}
    /\ member = UNION {Holders[d] \X GroupsOf[d] : d \in Dictionary}
    /\ groups = GroupsOf
    /\ live = Dictionary
    /\ grant_id_list = {}
    /\ txn = [t \in Txn |-> Idle]

-----------------------------------------------------------------------------
NoOverlap == Concurrent \/ \A s \in Txn : txn[s].pc # "open"

Pending(kind, subject) == \E x \in request : x.kind = kind /\ x.subject = subject

(* A slip: the user or dictionary asked for stands as the recipient. *)
RowsTo_Swapped(kind, subject, recipients, t) ==
    {[kind |-> kind, subject |-> a, recipient |-> subject, by |-> t] : a \in recipients}

RowsTo(kind, subject, recipients, t) ==
    {[kind |-> kind, subject |-> subject, recipient |-> a, by |-> t] : a \in recipients}

(* A slip: no look for a pending request. *)
CreateGrantPermission_Again(t, u) ==
    /\ txn[t] = Idle /\ NoOverlap
    /\ txn' = [txn EXCEPT ![t] = [pc |-> "open", op |-> "create",
                                  rows |-> RowsTo("grant_permission", u, Approver, t)]]
    /\ UNCHANGED tables

CreateGrantPermission(t, u) ==
    /\ txn[t] = Idle /\ NoOverlap
    /\ ~Pending("grant_permission", u)
    /\ txn' = [txn EXCEPT ![t] = [pc |-> "open", op |-> "create",
                                  rows |-> RowsTo("grant_permission", u, Approver, t)]]
    /\ UNCHANGED tables

MayEdit(u, d) == u \in Override \/ <<u, EditGroup[d]>> \in member

AddDictionaryToGrant(t, u, d) ==
    /\ txn[t] = Idle /\ NoOverlap
    /\ MayEdit(u, d)
    /\ d \in live
    /\ ~Pending("add_dict_to_grant", d)
    /\ owners # {}
    /\ txn' = [txn EXCEPT ![t] = [pc |-> "open", op |-> "create",
                                  rows |-> RowsTo("add_dict_to_grant", d, owners, t)]]
    /\ UNCHANGED tables

CreateCommit(t) ==
    /\ txn[t].pc = "open" /\ txn[t].op = "create"
    /\ request' = request \cup txn[t].rows
    /\ txn' = [txn EXCEPT ![t] = Done]
    /\ UNCHANGED <<owners, participant, roles, member, groups, live, grant_id_list>>

(* Slips of the memberships an acceptance adds: the recipient joins instead of the *)
(* requesting user; only the recipient, not every owner, gets a new dictionary.    *)
Joins_Recipient(x) ==
    (IF x.kind = "grant_permission" THEN {x.recipient} \X roles
                                    ELSE owners \X groups[x.subject]) \ member
Joins_OneOwner(x) ==
    (IF x.kind = "grant_permission" THEN {x.subject} \X roles
                                    ELSE {x.recipient} \X groups[x.subject]) \ member

Joins(x) ==
    (IF x.kind = "grant_permission" THEN {x.subject} \X roles
                                    ELSE owners \X groups[x.subject]) \ member

(* A slip: only the groups that some owner has still to join become roles. *)
RolesAfter_Joined(x) ==
    IF x.kind = "grant_permission" THEN roles ELSE roles \cup {j[2] : j \in Joins(x)}

RolesAfter(x) ==
    IF x.kind = "grant_permission" THEN roles ELSE roles \cup groups[x.subject]

ParticipantAfter(x) ==
    IF x.kind = "grant_permission" THEN participant ELSE participant \cup {x.subject}

(* Accepting a dictionary that has been deleted is an error, which changes nothing. *)
AcceptBegin(t, x) ==
    /\ txn[t] = Idle /\ NoOverlap
    /\ x \in request
    /\ x.kind = "add_dict_to_grant" => x.subject \in live
    /\ txn' = [txn EXCEPT ![t] =
          [pc |-> "open", op |-> "accept", row |-> x,
           owners |-> owners,
           participant |-> ParticipantAfter(x),
           roles |-> RolesAfter(x),
           joins |-> Joins(x)]]
    /\ UNCHANGED tables

(* The owners are written by an acceptance of a new user, the other column by one of a *)
(* dictionary.  A transaction that inserts a membership another one has inserted since *)
(* it looked aborts, and its request stays.                                            *)
AcceptCommit(t) ==
    /\ txn[t].pc = "open" /\ txn[t].op = "accept"
    /\ LET x == txn[t].row
       IN  IF txn[t].joins \cap member # {}
           THEN UNCHANGED <<request, owners, participant, roles, member>>
           ELSE /\ owners' = IF x.kind = "grant_permission" /\ x.subject \notin txn[t].owners
                             THEN txn[t].owners \cup {x.subject} ELSE owners
                /\ participant' = IF x.kind = "grant_permission" THEN participant
                                                                 ELSE txn[t].participant
                /\ roles' = IF x.kind = "grant_permission" THEN roles ELSE txn[t].roles
                /\ member' = member \cup txn[t].joins
                /\ request' = request \ {x}
    /\ txn' = [txn EXCEPT ![t] = Done]
    /\ UNCHANGED <<groups, live, grant_id_list>>

Decline(x) ==
    /\ NoOverlap
    /\ x \in request
    /\ request' = request \ {x}
    /\ UNCHANGED <<owners, participant, roles, member, groups, live, grant_id_list, txn>>

(* The dictionaries' column is written when the dictionary is in it, or was. *)
DeleteDictionary(t, d) ==
    /\ txn[t] = Idle /\ NoOverlap
    /\ d \in live
    /\ txn' = [txn EXCEPT ![t] =
          [pc |-> "open", op |-> "delete", dictionary |-> d, write |-> d \in participant,
           participant |-> participant \ {d}, roles |-> roles]]
    /\ UNCHANGED tables

UndeleteDictionary(t, d) ==
    /\ Restores
    /\ txn[t] = Idle /\ NoOverlap
    /\ d \notin live
    /\ txn' = [txn EXCEPT ![t] =
          [pc |-> "open", op |-> "undelete", dictionary |-> d,
           write |-> d \in grant_id_list \ participant,
           participant |-> participant \cup {d}, roles |-> roles]]
    /\ UNCHANGED tables

MarkCommit(t) ==
    /\ txn[t].pc = "open" /\ txn[t].op \in {"delete", "undelete"}
    /\ participant' = IF txn[t].write THEN txn[t].participant ELSE participant
    /\ roles' = IF txn[t].write THEN txn[t].roles ELSE roles
    /\ \/ /\ txn[t].op = "delete"
          /\ live' = live \ {txn[t].dictionary}
          /\ grant_id_list' = IF txn[t].write THEN grant_id_list \cup {txn[t].dictionary}
                                              ELSE grant_id_list \ {txn[t].dictionary}
       \/ /\ txn[t].op = "undelete"
          /\ live' = live \cup {txn[t].dictionary}
          /\ grant_id_list' = grant_id_list \ {txn[t].dictionary}
    /\ txn' = [txn EXCEPT ![t] = Done]
    /\ UNCHANGED <<request, owners, member, groups>>

(* The groups of a new perspective are given to its creator and the holders of its     *)
(* dictionary; neither the dictionary's mark nor the grants it is in are looked at.    *)
CreatePerspective(t, u, d, new) ==
    /\ txn[t] = Idle /\ NoOverlap
    /\ u \in Override \/ <<u, CreateGroup[d]>> \in member
    /\ new # {} /\ new \cap UNION {groups[e] : e \in Dictionary} = {}
    /\ groups' = [groups EXCEPT ![d] = @ \cup new]
    /\ member' = member \cup (({u} \cup Holders[d]) \X new)
    /\ txn' = [txn EXCEPT ![t] = Done]
    /\ UNCHANGED <<request, owners, participant, roles, live, grant_id_list>>

Next ==
    \/ \E t \in Txn : \/ \E u \in User : CreateGrantPermission(t, u)
                      \/ \E u \in User, d \in Dictionary : AddDictionaryToGrant(t, u, d)
                      \/ CreateCommit(t)
                      \/ \E x \in request : AcceptBegin(t, x)
                      \/ AcceptCommit(t)
                      \/ \E d \in Dictionary : DeleteDictionary(t, d) \/ UndeleteDictionary(t, d)
                      \/ MarkCommit(t)
                      \/ \E u \in User, d \in Dictionary, new \in SUBSET Group :
                            CreatePerspective(t, u, d, new)
    \/ \E x \in request : Decline(x)

Spec == Init /\ [][Next]_vars

-----------------------------------------------------------------------------
(***************************************************************************)
(* Transactions that do not overlap keep every owner of the grant in every *)
(* group of its roles, whichever came first, the owner or the dictionary.  *)
(***************************************************************************)
OwnersHoldRoles == owners \X roles \subseteq member

(***************************************************************************)
(* The groups that each dictionary of the grant was created with are among *)
(* its roles (those of a perspective created since need not be): without   *)
(* overlap, even for a dictionary deleted and restored in between; and,    *)
(* unless dictionaries are restored, however transactions overlap and lose *)
(* each other's writes, because a dictionary and its groups are in one     *)
(* column, kept or lost together.                                          *)
(***************************************************************************)
RolesOfCreation == \A d \in participant : GroupsOf[d] \subseteq roles

(***************************************************************************)
(* "Request already exists": when transactions do not overlap, the pending *)
(* rows about one user or one dictionary all come from one request, even   *)
(* after some of its recipients have answered.                             *)
(***************************************************************************)
OneFamily ==
    \A x, y \in request : x.kind = y.kind /\ x.subject = y.subject => x.by = y.by

(***************************************************************************)
(* The rows of the other recipients survive an acceptance and can be       *)
(* accepted too.  When transactions do not overlap, that changes nothing   *)
(* of the grant and no membership, but that it makes up for perspectives   *)
(* created since: their groups become roles, and the owners join them.     *)
(***************************************************************************)
AlreadyIn(x) ==
    IF x.kind = "grant_permission" THEN x.subject \in owners ELSE x.subject \in participant

AddedSince(x) ==
    IF x.kind = "grant_permission" THEN {} ELSE groups[x.subject] \ GroupsOf[x.subject]

AcceptedAgain ==
    [][\A t \in Txn :
        txn[t] \in AcceptTxn /\ txn'[t] # txn[t] /\ AlreadyIn(txn[t].row) =>
            /\ UNCHANGED <<owners, participant>>
            /\ roles' = roles \cup AddedSince(txn[t].row)
            /\ member' = member \cup (owners \X AddedSince(txn[t].row))]_vars
=============================================================================
