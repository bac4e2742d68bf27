------------------------- MODULE GrantRequestsProofs -------------------------
(***************************************************************************)
(* What acceptances keep of a grant, for any users, dictionaries, groups   *)
(* and number of requests: the groups its dictionaries were created with   *)
(* are among its roles however acceptances overlap, and its owners are in  *)
(* the groups of its roles when they do not.                               *)
(***************************************************************************)
EXTENDS GrantRequests, TLAPS

(***************************************************************************)
(* The inductive invariants.  With overlap: what an open transaction is    *)
(* about to write to the dictionaries' column agrees with itself.  Without *)
(* it: what the open transaction has read is still so, and the groups of a *)
(* dictionary that would be restored have stayed among the roles.          *)
(***************************************************************************)
GroupsStay == \A d \in Dictionary : GroupsOf[d] \subseteq groups[d]

MetadataInv ==
    /\ TypeOK /\ GroupsStay /\ RolesOfCreation
    /\ \A t \in Txn : txn[t].pc = "open" /\ txn[t].op # "create" =>
          /\ txn[t].op # "undelete"
          /\ \A d \in txn[t].participant : GroupsOf[d] \subseteq txn[t].roles

OwnersInv ==
    /\ TypeOK /\ GroupsStay /\ OwnersHoldRoles /\ RolesOfCreation
    /\ \A d \in grant_id_list : GroupsOf[d] \subseteq roles
    /\ \A s, t \in Txn : txn[s].pc = "open" /\ txn[t].pc = "open" => s = t
    /\ \A t \in Txn : txn[t].pc = "open" /\ txn[t].op = "accept" =>
          /\ txn[t].owners = owners
          /\ txn[t].roles = RolesAfter(txn[t].row)
          /\ txn[t].joins = Joins(txn[t].row)
          /\ txn[t].participant = ParticipantAfter(txn[t].row)
    /\ \A t \in Txn : txn[t].pc = "open" /\ txn[t].op \in {"delete", "undelete"} =>
          /\ txn[t].roles = roles
          /\ txn[t].participant \subseteq participant \cup grant_id_list \cup {txn[t].dictionary}
          /\ txn[t].write => txn[t].dictionary \in participant \cup grant_id_list

LEMMA GroupsStayInit == Init => GroupsStay
  BY DEF Init, GroupsStay

LEMMA GroupsStayStep == ASSUME TypeOK, GroupsStay, [Next]_vars PROVE GroupsStay'
<1>1. ASSUME NEW t \in Txn, NEW u \in User, NEW d \in Dictionary, NEW new \in SUBSET Group,
             CreatePerspective(t, u, d, new)
      PROVE  GroupsStay'
  BY <1>1 DEF CreatePerspective, GroupsStay, TypeOK
<1>2. CASE UNCHANGED groups
  BY <1>2 DEF GroupsStay
<1>3. CASE UNCHANGED vars
  BY <1>2, <1>3 DEF vars
<1> QED
  BY <1>1, <1>2, <1>3 DEF Next, CreateGrantPermission, AddDictionaryToGrant, CreateCommit,
     AcceptBegin, AcceptCommit, DeleteDictionary, UndeleteDictionary, MarkCommit, Decline, tables

(* A row about a user is not one about a dictionary. *)
LEMMA RowType ==
  ASSUME NEW x \in Row
  PROVE  /\ x.recipient \in User
         /\ x.kind = "grant_permission" => x.subject \in User
         /\ x.kind # "grant_permission" =>
               x.kind = "add_dict_to_grant" /\ x.subject \in Dictionary
  BY DEF Row

LEMMA RowsToType ==
  ASSUME NEW t \in Txn, NEW recipients \in SUBSET User
  PROVE  /\ \A u \in User : RowsTo("grant_permission", u, recipients, t) \in SUBSET Row
         /\ \A d \in Dictionary : RowsTo("add_dict_to_grant", d, recipients, t) \in SUBSET Row
  BY DEF RowsTo, Row

(* What an acceptance reads and decides has its type. *)
LEMMA AcceptType ==
  ASSUME TypeOK, NEW x \in Row
  PROVE  Joins(x) \in SUBSET (User \X Group) /\ RolesAfter(x) \in SUBSET Group
<1>1. CASE x.kind = "grant_permission"
  <2>1. x.subject \in User
    BY <1>1, RowType
  <2>2. {x.subject} \X roles \in SUBSET (User \X Group)
    BY <2>1 DEF TypeOK
  <2> QED
    BY <1>1, <2>2 DEF Joins, RolesAfter, TypeOK
<1>2. CASE x.kind # "grant_permission"
  <2>1. groups[x.subject] \in SUBSET Group
    BY <1>2, RowType DEF TypeOK
  <2>2. owners \X groups[x.subject] \in SUBSET (User \X Group)
    BY <2>1 DEF TypeOK
  <2> QED
    BY <1>2, <2>1, <2>2 DEF Joins, RolesAfter, TypeOK
<1> QED
  BY <1>1, <1>2

(* The columns an acceptance is about to write, as one record. *)
Accepting(x) ==
    [pc |-> "open", op |-> "accept", row |-> x,
     owners |-> owners,
     participant |-> ParticipantAfter(x),
     roles |-> RolesAfter(x),
     joins |-> Joins(x)]

LEMMA AcceptingType == ASSUME TypeOK, NEW x \in Row PROVE Accepting(x) \in AcceptTxn
<1>1. owners \in SUBSET User
  BY DEF TypeOK
<1>2. ParticipantAfter(x) \in SUBSET Dictionary
  BY RowType DEF ParticipantAfter, TypeOK
<1> QED
  BY <1>1, <1>2, AcceptType DEF Accepting, AcceptTxn

LEMMA AcceptBegins ==
  ASSUME NEW t \in Txn, NEW x \in request, AcceptBegin(t, x)
  PROVE  txn' = [txn EXCEPT ![t] = Accepting(x)]
  BY DEF AcceptBegin, Accepting

(* What deleting and restoring a dictionary read and decide, as one record. *)
Deleting(d) ==
    [pc |-> "open", op |-> "delete", dictionary |-> d, write |-> d \in participant,
     participant |-> participant \ {d}, roles |-> roles]

Undeleting(d) ==
    [pc |-> "open", op |-> "undelete", dictionary |-> d,
     write |-> d \in grant_id_list \ participant,
     participant |-> participant \cup {d}, roles |-> roles]

LEMMA TypeInit == Init => TypeOK
<1> SUFFICES ASSUME Init PROVE TypeOK
  OBVIOUS
<1>1. \A d \in Dictionary : Holders[d] \X GroupsOf[d] \in SUBSET (User \X Group)
  BY GrantAssumption
<1>2. member \in SUBSET (User \X Group)
  BY <1>1 DEF Init
<1>3. owners \in SUBSET User /\ groups \in [Dictionary -> SUBSET Group]
  BY GrantAssumption DEF Init
<1> QED
  BY <1>2, <1>3 DEF Init, TypeOK

(* An open transaction of each operation, as the record it is. *)
LEMMA OpenType ==
  ASSUME TypeOK, NEW t \in Txn, txn[t].pc = "open"
  PROVE  /\ txn[t].op = "create" => txn[t] \in CreateTxn
         /\ txn[t].op = "accept" => txn[t] \in AcceptTxn
         /\ txn[t].op \in {"delete", "undelete"} => txn[t] \in MarkTxn
         /\ txn[t].op \in {"create", "accept", "delete", "undelete"}
  BY DEF TypeOK, Idle, Done, CreateTxn, AcceptTxn, MarkTxn

LEMMA TypeStep == ASSUME TypeOK, [Next]_vars PROVE TypeOK'
<1>1. CASE UNCHANGED vars
  BY <1>1 DEF vars, TypeOK
<1>2. ASSUME NEW t \in Txn, NEW u \in User, CreateGrantPermission(t, u) PROVE TypeOK'
  <2>1. [pc |-> "open", op |-> "create", rows |-> RowsTo("grant_permission", u, Approver, t)]
           \in CreateTxn
    BY RowsToType, GrantAssumption DEF CreateTxn
  <2> QED
    BY <1>2, <2>1 DEF CreateGrantPermission, TypeOK, tables
<1>3. ASSUME NEW t \in Txn, NEW u \in User, NEW d \in Dictionary, AddDictionaryToGrant(t, u, d)
      PROVE TypeOK'
  <2>1. [pc |-> "open", op |-> "create", rows |-> RowsTo("add_dict_to_grant", d, owners, t)]
           \in CreateTxn
    BY RowsToType DEF CreateTxn, TypeOK
  <2> QED
    BY <1>3, <2>1 DEF AddDictionaryToGrant, TypeOK, tables
<1>4. ASSUME NEW t \in Txn, CreateCommit(t) PROVE TypeOK'
  <2>1. txn[t].rows \in SUBSET Row
    BY <1>4, OpenType DEF CreateCommit, CreateTxn
  <2> QED
    BY <1>4, <2>1 DEF CreateCommit, TypeOK
<1>5. ASSUME NEW t \in Txn, NEW x \in request, AcceptBegin(t, x) PROVE TypeOK'
  <2>1. Accepting(x) \in AcceptTxn
    BY AcceptingType DEF TypeOK
  <2>2. txn' = [txn EXCEPT ![t] = Accepting(x)]
    BY <1>5, AcceptBegins
  <2>3. txn' \in [Txn -> {Idle, Done} \cup CreateTxn \cup AcceptTxn \cup MarkTxn]
    BY <2>1, <2>2 DEF TypeOK
  <2> QED
    BY <1>5, <2>3 DEF AcceptBegin, TypeOK, tables
<1>6. ASSUME NEW t \in Txn, AcceptCommit(t) PROVE TypeOK'
  <2>1. /\ txn[t].owners \in SUBSET User
        /\ txn[t].participant \in SUBSET Dictionary
        /\ txn[t].roles \in SUBSET Group
        /\ txn[t].joins \in SUBSET (User \X Group)
    BY <1>6, OpenType DEF AcceptCommit, AcceptTxn
  <2>2. txn' \in [Txn -> {Idle, Done} \cup CreateTxn \cup AcceptTxn \cup MarkTxn]
    BY <1>6 DEF AcceptCommit, TypeOK
  <2>3. CASE txn[t].joins \cap member # {}
    BY <1>6, <2>2, <2>3 DEF AcceptCommit, TypeOK
  <2>4. CASE txn[t].joins \cap member = {}
    <3>0. txn[t].row.kind = "grant_permission" => txn[t].row.subject \in User
      BY <1>6, OpenType, RowType DEF AcceptCommit, AcceptTxn
    <3>1. owners' \in SUBSET User /\ participant' \in SUBSET Dictionary /\ roles' \in SUBSET Group
      BY <1>6, <2>1, <2>4, <3>0 DEF AcceptCommit, TypeOK
    <3> QED
      BY <1>6, <2>1, <2>2, <2>4, <3>1 DEF AcceptCommit, TypeOK
  <2> QED
    BY <2>3, <2>4
<1>7. ASSUME NEW x \in request, Decline(x) PROVE TypeOK'
  BY <1>7 DEF Decline, TypeOK
<1>8. ASSUME NEW t \in Txn, NEW d \in Dictionary, DeleteDictionary(t, d) PROVE TypeOK'
  <2>1. Deleting(d) \in MarkTxn
    BY DEF MarkTxn, Deleting, TypeOK
  <2>2. txn' = [txn EXCEPT ![t] = Deleting(d)]
    BY <1>8 DEF DeleteDictionary, Deleting
  <2> QED
    BY <1>8, <2>1, <2>2 DEF DeleteDictionary, TypeOK, tables
<1>9. ASSUME NEW t \in Txn, NEW d \in Dictionary, UndeleteDictionary(t, d) PROVE TypeOK'
  <2>1. Undeleting(d) \in MarkTxn
    BY DEF MarkTxn, Undeleting, TypeOK
  <2>2. txn' = [txn EXCEPT ![t] = Undeleting(d)]
    BY <1>9 DEF UndeleteDictionary, Undeleting
  <2> QED
    BY <1>9, <2>1, <2>2 DEF UndeleteDictionary, TypeOK, tables
<1>10. ASSUME NEW t \in Txn, MarkCommit(t) PROVE TypeOK'
  <2>1. /\ txn[t].dictionary \in Dictionary
        /\ txn[t].participant \in SUBSET Dictionary
        /\ txn[t].roles \in SUBSET Group
    BY <1>10, OpenType DEF MarkCommit, MarkTxn
  <2>2. participant' \in SUBSET Dictionary /\ roles' \in SUBSET Group
    BY <1>10, <2>1 DEF MarkCommit, TypeOK
  <2>3. live' \in SUBSET Dictionary /\ grant_id_list' \in SUBSET Dictionary
    BY <1>10, <2>1 DEF MarkCommit, TypeOK
  <2>4. txn' \in [Txn -> {Idle, Done} \cup CreateTxn \cup AcceptTxn \cup MarkTxn]
    BY <1>10 DEF MarkCommit, TypeOK
  <2> QED
    BY <1>10, <2>2, <2>3, <2>4 DEF MarkCommit, TypeOK
<1>11. ASSUME NEW t \in Txn, NEW u \in User, NEW d \in Dictionary, NEW new \in SUBSET Group,
              CreatePerspective(t, u, d, new)
       PROVE  TypeOK'
  <2>1. ({u} \cup Holders[d]) \X new \in SUBSET (User \X Group)
    BY GrantAssumption
  <2>2. member' \in SUBSET (User \X Group)
    BY <1>11, <2>1 DEF CreatePerspective, TypeOK
  <2>3. groups' \in [Dictionary -> SUBSET Group]
    BY <1>11 DEF CreatePerspective, TypeOK
  <2>4. txn' \in [Txn -> {Idle, Done} \cup CreateTxn \cup AcceptTxn \cup MarkTxn]
    BY <1>11 DEF CreatePerspective, TypeOK
  <2> QED
    BY <1>11, <2>2, <2>3, <2>4 DEF CreatePerspective, TypeOK
<1> QED
  BY <1>1, <1>2, <1>3, <1>4, <1>5, <1>6, <1>7, <1>8, <1>9, <1>10, <1>11 DEF Next

-----------------------------------------------------------------------------
LEMMA MetadataInit == Init => MetadataInv
  BY TypeInit, GroupsStayInit DEF Init, MetadataInv, RolesOfCreation, Idle

LEMMA MetadataStep == ASSUME ~Restores, MetadataInv, [Next]_vars PROVE MetadataInv'
<1> DEFINE Agrees(t) == txn[t].pc = "open" /\ txn[t].op # "create" =>
                           /\ txn[t].op # "undelete"
                           /\ \A d \in txn[t].participant : GroupsOf[d] \subseteq txn[t].roles
           Goal == RolesOfCreation' /\ \A s \in Txn : Agrees(s)'
<1>a. TypeOK /\ GroupsStay /\ RolesOfCreation /\ \A t \in Txn : Agrees(t)
  BY DEF MetadataInv
<1> SUFFICES Goal
  BY <1>a, TypeStep, GroupsStayStep DEF MetadataInv
<1>b. ASSUME NEW t \in Txn, NEW r, txn' = [txn EXCEPT ![t] = r],
             r.pc = "open" /\ r.op # "create" =>
                 r.op # "undelete" /\ \A d \in r.participant : GroupsOf[d] \subseteq r.roles
      PROVE  \A s \in Txn : Agrees(s)'
  <2>1. txn'[t] = r /\ \A s \in Txn : s # t => txn'[s] = txn[s]
    BY <1>a, <1>b DEF TypeOK
  <2>2. Agrees(t)'
    BY <1>b, <2>1
  <2>3. \A s \in Txn : s # t => Agrees(s)'
    BY <1>a, <2>1
  <2> QED
    BY <2>2, <2>3
<1>1. CASE UNCHANGED vars
  BY <1>a, <1>1 DEF vars, RolesOfCreation
<1>2. ASSUME NEW t \in Txn, NEW u \in User, CreateGrantPermission(t, u) PROVE Goal
  BY <1>a, <1>b, <1>2 DEF CreateGrantPermission, RolesOfCreation, tables
<1>3. ASSUME NEW t \in Txn, NEW u \in User, NEW d \in Dictionary, AddDictionaryToGrant(t, u, d)
      PROVE Goal
  BY <1>a, <1>b, <1>3 DEF AddDictionaryToGrant, RolesOfCreation, tables
<1>4. ASSUME NEW t \in Txn, CreateCommit(t) PROVE Goal
  BY <1>a, <1>b, <1>4 DEF CreateCommit, RolesOfCreation, Done
<1>5. ASSUME NEW t \in Txn, NEW x \in request, AcceptBegin(t, x) PROVE Goal
  <2>1. \A d \in Accepting(x).participant : GroupsOf[d] \subseteq Accepting(x).roles
    BY <1>a, RowType DEF Accepting, ParticipantAfter, RolesAfter, TypeOK, RolesOfCreation,
                         GroupsStay
  <2>2. txn' = [txn EXCEPT ![t] = Accepting(x)] /\ Accepting(x).op = "accept"
    BY <1>5, AcceptBegins DEF Accepting
  <2>3. \A s \in Txn : Agrees(s)'
    BY <1>b, <2>1, <2>2
  <2> QED
    BY <1>a, <1>5, <2>3 DEF AcceptBegin, RolesOfCreation, tables
<1>6. ASSUME NEW t \in Txn, AcceptCommit(t) PROVE Goal
  <2>1. \A d \in txn[t].participant : GroupsOf[d] \subseteq txn[t].roles
    BY <1>a, <1>6 DEF AcceptCommit
  <2>2. RolesOfCreation'
    BY <1>a, <1>6, <2>1 DEF AcceptCommit, RolesOfCreation
  <2>3. \A s \in Txn : Agrees(s)'
    BY <1>b, <1>6 DEF AcceptCommit, Done
  <2> QED
    BY <2>2, <2>3
<1>7. ASSUME NEW x \in request, Decline(x) PROVE Goal
  BY <1>a, <1>7 DEF Decline, RolesOfCreation
<1>8. ASSUME NEW t \in Txn, NEW d \in Dictionary, DeleteDictionary(t, d) PROVE Goal
  <2>1. txn' = [txn EXCEPT ![t] = Deleting(d)]
    BY <1>8 DEF DeleteDictionary, Deleting
  <2>2. /\ Deleting(d).op = "delete"
        /\ \A e \in Deleting(d).participant : GroupsOf[e] \subseteq Deleting(d).roles
    BY <1>a DEF Deleting, RolesOfCreation
  <2>3. \A s \in Txn : Agrees(s)'
    BY <1>b, <2>1, <2>2
  <2> QED
    BY <1>a, <1>8, <2>3 DEF DeleteDictionary, RolesOfCreation, tables
<1>9. ASSUME NEW t \in Txn, MarkCommit(t) PROVE Goal
  <2>1. \A d \in txn[t].participant : GroupsOf[d] \subseteq txn[t].roles
    BY <1>a, <1>9 DEF MarkCommit
  <2>2. RolesOfCreation'
    BY <1>a, <1>9, <2>1 DEF MarkCommit, RolesOfCreation
  <2>3. \A s \in Txn : Agrees(s)'
    BY <1>b, <1>9 DEF MarkCommit, Done
  <2> QED
    BY <2>2, <2>3
<1>10. ASSUME NEW t \in Txn, NEW u \in User, NEW d \in Dictionary, NEW new \in SUBSET Group,
              CreatePerspective(t, u, d, new)
       PROVE  Goal
  BY <1>a, <1>b, <1>10 DEF CreatePerspective, RolesOfCreation, Done
<1> QED
  BY <1>1, <1>2, <1>3, <1>4, <1>5, <1>6, <1>7, <1>8, <1>9, <1>10 DEF Next, UndeleteDictionary

(***************************************************************************)
(* However acceptances, deletions and new perspectives overlap, as long as *)
(* no dictionary is restored, the groups that each dictionary of the grant *)
(* was created with are among the grant's roles.                           *)
(***************************************************************************)
THEOREM RolesCoverCreated == ASSUME ~Restores PROVE Spec => []RolesOfCreation
<1>1. MetadataInv => RolesOfCreation
  BY DEF MetadataInv
<1>2. MetadataInv /\ [Next]_vars => MetadataInv'
  BY MetadataStep
<1> QED
  BY <1>1, <1>2, MetadataInit, PTL DEF Spec

-----------------------------------------------------------------------------
LEMMA OwnersInit == Init => OwnersInv
  BY TypeInit, GroupsStayInit DEF Init, OwnersInv, OwnersHoldRoles, RolesOfCreation, Idle

(* The record of an open transaction that has read the tables as they are. *)
UpToDate(t) ==
    txn[t].pc = "open" =>
        /\ txn[t].op = "accept" =>
              /\ txn[t].owners = owners
              /\ txn[t].roles = RolesAfter(txn[t].row)
              /\ txn[t].joins = Joins(txn[t].row)
              /\ txn[t].participant = ParticipantAfter(txn[t].row)
        /\ txn[t].op \in {"delete", "undelete"} =>
              /\ txn[t].roles = roles
              /\ txn[t].participant \subseteq participant \cup grant_id_list
                                                          \cup {txn[t].dictionary}
              /\ txn[t].write => txn[t].dictionary \in participant \cup grant_id_list

(* The invariant without the transactions. *)
Tables == OwnersHoldRoles /\ RolesOfCreation /\ \A d \in grant_id_list : GroupsOf[d] \subseteq roles

OneOpen == \A s, t \in Txn : txn[s].pc = "open" /\ txn[t].pc = "open" => s = t

(* A transaction that begins alone, and one that commits. *)
LEMMA Begins ==
  ASSUME ~Concurrent, TypeOK, NEW t \in Txn, NoOverlap, NEW r, txn' = [txn EXCEPT ![t] = r]
  PROVE  OneOpen' /\ \A s \in Txn : s # t => UpToDate(s)'
<1>1. \A s \in Txn : s # t => txn'[s] = txn[s] /\ txn[s].pc # "open"
  BY DEF TypeOK, NoOverlap
<1> QED
  BY <1>1 DEF OneOpen, UpToDate

LEMMA Commits ==
  ASSUME TypeOK, OneOpen, NEW t \in Txn, txn[t].pc = "open", txn' = [txn EXCEPT ![t] = Done]
  PROVE  OneOpen' /\ \A s \in Txn : UpToDate(s)'
<1>1. \A s \in Txn : txn'[s].pc # "open"
  BY DEF TypeOK, OneOpen, Done
<1> QED
  BY <1>1 DEF OneOpen, UpToDate

LEMMA OwnersStep == ASSUME ~Concurrent, OwnersInv, [Next]_vars PROVE OwnersInv'
<1> DEFINE Goal == Tables' /\ OneOpen' /\ \A t \in Txn : UpToDate(t)'
<1>a. TypeOK /\ GroupsStay /\ Tables /\ OneOpen /\ \A t \in Txn : UpToDate(t)
  BY DEF OwnersInv, Tables, OneOpen, UpToDate
<1> SUFFICES Goal
  BY <1>a, TypeStep, GroupsStayStep DEF OwnersInv, Tables, OneOpen, UpToDate
<1>1. CASE UNCHANGED vars
  BY <1>a, <1>1 DEF vars, Tables, OwnersHoldRoles, RolesOfCreation, OneOpen, UpToDate,
                    RolesAfter, ParticipantAfter, Joins
<1>2. ASSUME NEW t \in Txn, NoOverlap, UNCHANGED tables,
             NEW rows, txn' = [txn EXCEPT ![t] = [pc |-> "open", op |-> "create", rows |-> rows]]
      PROVE  Goal
  <2>1. txn'[t].op = "create"
    BY <1>2, <1>a DEF TypeOK
  <2>2. OneOpen' /\ \A s \in Txn : s # t => UpToDate(s)'
    BY <1>2, <1>a, Begins
  <2>3. UpToDate(t)'
    BY <2>1 DEF UpToDate
  <2>4. Tables'
    BY <1>2, <1>a DEF tables, Tables, OwnersHoldRoles, RolesOfCreation
  <2> QED
    BY <2>2, <2>3, <2>4
<1>3. ASSUME NEW t \in Txn, CreateCommit(t) PROVE Goal
  <2>1. OneOpen' /\ \A s \in Txn : UpToDate(s)'
    BY <1>3, <1>a, Commits DEF CreateCommit
  <2> QED
    BY <1>3, <1>a, <2>1 DEF CreateCommit, Tables, OwnersHoldRoles, RolesOfCreation
<1>4. ASSUME NEW t \in Txn, NEW x \in request, AcceptBegin(t, x) PROVE Goal
  <2>1. txn' = [txn EXCEPT ![t] = Accepting(x)] /\ NoOverlap /\ UNCHANGED tables
    BY <1>4, AcceptBegins DEF AcceptBegin
  <2>2. OneOpen' /\ \A s \in Txn : s # t => UpToDate(s)'
    BY <1>a, <2>1, Begins
  <2>3. txn'[t] = Accepting(x)
    BY <1>a, <2>1 DEF TypeOK
  <2>4. UNCHANGED <<owners, participant, roles, member, groups, grant_id_list>>
    BY <2>1 DEF tables
  <2>5. UpToDate(t)'
    BY <2>3, <2>4 DEF Accepting, UpToDate, RolesAfter, ParticipantAfter, Joins
  <2> QED
    BY <1>a, <2>2, <2>4, <2>5 DEF Tables, OwnersHoldRoles, RolesOfCreation
<1>5. ASSUME NEW t \in Txn, AcceptCommit(t) PROVE Goal
  <2>1. OneOpen' /\ \A s \in Txn : UpToDate(s)'
    BY <1>5, <1>a, Commits DEF AcceptCommit
  <2> DEFINE x == txn[t].row
  <2>3. txn[t].pc = "open" /\ txn[t].op = "accept"
    BY <1>5 DEF AcceptCommit
  <2>3a. /\ txn[t].owners = owners /\ txn[t].roles = RolesAfter(x) /\ txn[t].joins = Joins(x)
         /\ txn[t].participant = ParticipantAfter(x)
    BY <1>a, <2>3 DEF UpToDate
  <2>4. txn[t].joins \cap member = {}
    BY <2>3a DEF Joins
  <2>5. CASE x.kind = "grant_permission"
    <3>1. owners' = owners \cup {x.subject} /\ roles' = roles /\ participant' = participant
      BY <1>5, <2>3a, <2>4, <2>5 DEF AcceptCommit
    <3>2. member' = member \cup ({x.subject} \X roles)
      BY <1>5, <2>3a, <2>4, <2>5 DEF AcceptCommit, Joins
    <3>3. grant_id_list' = grant_id_list
      BY <1>5 DEF AcceptCommit
    <3> QED
      BY <1>a, <2>1, <3>1, <3>2, <3>3 DEF Tables, OwnersHoldRoles, RolesOfCreation
  <2>6. CASE x.kind # "grant_permission"
    <3>1. owners' = owners /\ roles' = roles \cup groups[x.subject]
      BY <1>5, <2>3a, <2>4, <2>6 DEF AcceptCommit, RolesAfter
    <3>2. member' = member \cup (owners \X groups[x.subject])
      BY <1>5, <2>3a, <2>4, <2>6 DEF AcceptCommit, Joins
    <3>3. participant' \subseteq participant \cup {x.subject} /\ grant_id_list' = grant_id_list
      BY <1>5, <2>3a, <2>4, <2>6 DEF AcceptCommit, ParticipantAfter
    <3>4. participant' = participant \/ GroupsOf[x.subject] \subseteq groups[x.subject]
      BY <1>5, <1>a, <2>3, <2>6, OpenType, RowType DEF AcceptTxn, GroupsStay
    <3>5. OwnersHoldRoles'
      BY <1>a, <3>1, <3>2 DEF Tables, OwnersHoldRoles
    <3>6. RolesOfCreation' /\ \A d \in grant_id_list' : GroupsOf[d] \subseteq roles'
      BY <1>a, <3>1, <3>3, <3>4 DEF Tables, RolesOfCreation
    <3> QED
      BY <2>1, <3>5, <3>6 DEF Tables
  <2> QED
    BY <2>5, <2>6
<1>6. ASSUME NEW x \in request, Decline(x) PROVE Goal
  BY <1>6, <1>a DEF Decline, Tables, OwnersHoldRoles, RolesOfCreation, OneOpen, UpToDate,
                    RolesAfter, ParticipantAfter, Joins
<1>7. ASSUME NEW t \in Txn, NEW d \in Dictionary, NEW r,
             r = Deleting(d) \/ r = Undeleting(d), txn' = [txn EXCEPT ![t] = r],
             NoOverlap, UNCHANGED tables
      PROVE  Goal
  <2>1. OneOpen' /\ \A s \in Txn : s # t => UpToDate(s)'
    BY <1>a, <1>7, Begins
  <2>2. UNCHANGED <<owners, participant, roles, member, grant_id_list>> /\ txn'[t] = r
    BY <1>a, <1>7 DEF tables, TypeOK
  <2>2a. /\ r.op \in {"delete", "undelete"}
         /\ r.roles = roles
         /\ r.participant \subseteq participant \cup {r.dictionary}
         /\ r.write => r.dictionary \in participant \cup grant_id_list
    <3>1. CASE r = Deleting(d)
      BY <3>1 DEF Deleting
    <3>2. CASE r = Undeleting(d)
      BY <3>2 DEF Undeleting
    <3> QED
      BY <1>7, <3>1, <3>2
  <2>3. UpToDate(t)'
    BY <2>2, <2>2a DEF UpToDate
  <2> QED
    BY <1>a, <2>1, <2>2, <2>3 DEF Tables, OwnersHoldRoles, RolesOfCreation
<1>8. ASSUME NEW t \in Txn, NEW d \in Dictionary, DeleteDictionary(t, d) PROVE Goal
  BY <1>7, <1>8 DEF DeleteDictionary, Deleting
<1>9. ASSUME NEW t \in Txn, NEW d \in Dictionary, UndeleteDictionary(t, d) PROVE Goal
  BY <1>7, <1>9 DEF UndeleteDictionary, Undeleting
<1>10. ASSUME NEW t \in Txn, MarkCommit(t) PROVE Goal
  <2>1. OneOpen' /\ \A s \in Txn : UpToDate(s)'
    BY <1>10, <1>a, Commits DEF MarkCommit
  <2> DEFINE d == txn[t].dictionary
  <2>2. /\ txn[t].roles = roles
        /\ txn[t].participant \subseteq participant \cup grant_id_list \cup {d}
        /\ txn[t].write => d \in participant \cup grant_id_list
    BY <1>10, <1>a DEF MarkCommit, UpToDate
  <2>3. roles' = roles /\ owners' = owners /\ member' = member
    BY <1>10, <2>2 DEF MarkCommit
  <2>4. participant' \subseteq participant \cup grant_id_list
    BY <1>10, <2>2 DEF MarkCommit
  <2>5. grant_id_list' \subseteq grant_id_list \cup participant
    BY <1>10, <2>2 DEF MarkCommit
  <2> QED
    BY <1>a, <2>1, <2>3, <2>4, <2>5 DEF Tables, OwnersHoldRoles, RolesOfCreation
<1>11. ASSUME NEW t \in Txn, NEW u \in User, CreateGrantPermission(t, u) PROVE Goal
  BY <1>11, <1>2 DEF CreateGrantPermission
<1>12. ASSUME NEW t \in Txn, NEW u \in User, NEW d \in Dictionary, AddDictionaryToGrant(t, u, d)
       PROVE Goal
  BY <1>12, <1>2 DEF AddDictionaryToGrant
<1>13. ASSUME NEW t \in Txn, NEW u \in User, NEW d \in Dictionary, NEW new \in SUBSET Group,
              CreatePerspective(t, u, d, new)
       PROVE  Goal
  <2>1. txn' = [txn EXCEPT ![t] = Done] /\ NoOverlap /\ Done.pc # "open"
    BY <1>13 DEF CreatePerspective, Done
  <2>2. OneOpen' /\ \A s \in Txn : s # t => UpToDate(s)'
    BY <1>a, <2>1, Begins
  <2>3. UpToDate(t)'
    BY <1>a, <2>1 DEF UpToDate, TypeOK
  <2>4. Tables'
    BY <1>13, <1>a DEF CreatePerspective, Tables, OwnersHoldRoles, RolesOfCreation
  <2> QED
    BY <2>2, <2>3, <2>4
<1> QED
  BY <1>1, <1>3, <1>4, <1>5, <1>6, <1>8, <1>9, <1>10, <1>11, <1>12, <1>13 DEF Next

LEMMA SerialOwnersInv == ASSUME ~Concurrent PROVE Spec => []OwnersInv
<1>1. OwnersInv /\ [Next]_vars => OwnersInv'
  BY OwnersStep
<1> QED
  BY <1>1, OwnersInit, PTL DEF Spec

(***************************************************************************)
(* When transactions do not overlap, every owner of the grant is in every  *)
(* group of its roles, in whatever order owners and dictionaries came.     *)
(***************************************************************************)
THEOREM SerialOwnersHoldRoles == ASSUME ~Concurrent PROVE Spec => []OwnersHoldRoles
<1>1. OwnersInv => OwnersHoldRoles
  BY DEF OwnersInv
<1> QED
  BY <1>1, SerialOwnersInv, PTL

(***************************************************************************)
(* When transactions do not overlap, a dictionary that was deleted and is  *)
(* restored finds the groups it was created with among the roles.          *)
(***************************************************************************)
THEOREM SerialRolesCoverCreated == ASSUME ~Concurrent PROVE Spec => []RolesOfCreation
<1>1. OwnersInv => RolesOfCreation
  BY DEF OwnersInv
<1> QED
  BY <1>1, SerialOwnersInv, PTL

-----------------------------------------------------------------------------
(* A request that is being created is about a subject that no pending row is about. *)
CreatesNew(t) ==
    txn[t].pc = "open" /\ txn[t].op = "create" =>
        \A x \in txn[t].rows :
            /\ x.by = t
            /\ \A y \in request : ~(y.kind = x.kind /\ y.subject = x.subject)

FamilyInv == TypeOK /\ OneFamily /\ OneOpen /\ \A t \in Txn : CreatesNew(t)

(* Rows only leave, or none do: what is being created stays new. *)
LEMMA FamilyKept ==
  ASSUME FamilyInv, request' \in SUBSET request, NEW t \in Txn, NEW r,
         txn' = [txn EXCEPT ![t] = r], r.pc # "open" \/ r.op # "create"
  PROVE  OneFamily' /\ \A s \in Txn : CreatesNew(s)'
<1>1. txn'[t] = r /\ \A s \in Txn : s # t => txn'[s] = txn[s]
  BY DEF FamilyInv, TypeOK
<1> QED
  BY <1>1 DEF FamilyInv, OneFamily, CreatesNew

LEMMA FamilyBegins ==
  ASSUME ~Concurrent, FamilyInv, NEW t \in Txn, NoOverlap, UNCHANGED tables,
         NEW kind, NEW subject, ~Pending(kind, subject), NEW recipients,
         txn' = [txn EXCEPT ![t] = [pc |-> "open", op |-> "create",
                                    rows |-> RowsTo(kind, subject, recipients, t)]]
  PROVE  OneFamily' /\ OneOpen' /\ \A s \in Txn : CreatesNew(s)'
<1> DEFINE r == [pc |-> "open", op |-> "create", rows |-> RowsTo(kind, subject, recipients, t)]
<1>1. txn'[t] = r /\ \A s \in Txn : s # t => txn'[s] = txn[s] /\ txn[s].pc # "open"
  BY DEF FamilyInv, TypeOK, NoOverlap
<1>2. request' = request
  BY DEF tables
<1>3. \A x \in RowsTo(kind, subject, recipients, t) :
         x.by = t /\ x.kind = kind /\ x.subject = subject
  BY DEF RowsTo
<1>4. CreatesNew(t)'
  BY <1>1, <1>2, <1>3 DEF CreatesNew, Pending
<1>5. \A s \in Txn : s # t => CreatesNew(s)'
  BY <1>1 DEF CreatesNew
<1>6. OneOpen'
  BY <1>1 DEF OneOpen
<1> QED
  BY <1>2, <1>4, <1>5, <1>6 DEF FamilyInv, OneFamily

LEMMA FamilyStep == ASSUME ~Concurrent, FamilyInv, [Next]_vars PROVE FamilyInv'
<1> DEFINE Goal == OneFamily' /\ OneOpen' /\ \A t \in Txn : CreatesNew(t)'
<1>a. TypeOK /\ OneFamily /\ OneOpen /\ \A t \in Txn : CreatesNew(t)
  BY DEF FamilyInv
<1> SUFFICES Goal
  BY <1>a, TypeStep DEF FamilyInv
<1>1. CASE UNCHANGED vars
  BY <1>a, <1>1 DEF vars, OneFamily, OneOpen, CreatesNew
<1>2. ASSUME NEW t \in Txn, NEW u \in User, CreateGrantPermission(t, u) PROVE Goal
  BY <1>2, FamilyBegins DEF CreateGrantPermission
<1>3. ASSUME NEW t \in Txn, NEW u \in User, NEW d \in Dictionary, AddDictionaryToGrant(t, u, d)
      PROVE  Goal
  BY <1>3, FamilyBegins DEF AddDictionaryToGrant
<1>4. ASSUME NEW t \in Txn, CreateCommit(t) PROVE Goal
  <2>1. OneOpen' /\ \A s \in Txn : txn'[s].pc # "open"
    BY <1>a, <1>4, Commits DEF CreateCommit, TypeOK, OneOpen, Done
  <2>2. request' = request \cup txn[t].rows /\ CreatesNew(t)
    BY <1>a, <1>4 DEF CreateCommit
  <2>3. OneFamily'
    BY <1>a, <1>4, <2>2 DEF CreateCommit, CreatesNew, OneFamily
  <2> QED
    BY <2>1, <2>3 DEF CreatesNew
<1>5. ASSUME NEW t \in Txn, NEW x \in request, AcceptBegin(t, x) PROVE Goal
  <2>1. /\ txn' = [txn EXCEPT ![t] = Accepting(x)] /\ Accepting(x).op # "create"
        /\ request' = request /\ NoOverlap
    BY <1>5, AcceptBegins DEF AcceptBegin, Accepting, tables
  <2> QED
    BY <1>a, <2>1, FamilyKept, Begins
<1>6. ASSUME NEW t \in Txn, AcceptCommit(t) \/ MarkCommit(t) PROVE Goal
  <2>1. /\ txn' = [txn EXCEPT ![t] = Done] /\ Done.pc # "open" /\ txn[t].pc = "open"
        /\ request' \in SUBSET request
    BY <1>6 DEF AcceptCommit, MarkCommit, Done
  <2> QED
    BY <1>a, <2>1, FamilyKept, Commits
<1>7. ASSUME NEW x \in request, Decline(x) PROVE Goal
  BY <1>a, <1>7 DEF Decline, OneFamily, OneOpen, CreatesNew
<1>8. ASSUME NEW t \in Txn, NEW d \in Dictionary,
             DeleteDictionary(t, d) \/ UndeleteDictionary(t, d)
      PROVE  Goal
  <2>1. /\ txn' = [txn EXCEPT ![t] = Deleting(d)] \/ txn' = [txn EXCEPT ![t] = Undeleting(d)]
        /\ Deleting(d).op # "create" /\ Undeleting(d).op # "create"
        /\ request' = request /\ NoOverlap
    BY <1>8 DEF DeleteDictionary, UndeleteDictionary, Deleting, Undeleting, tables
  <2> QED
    BY <1>a, <2>1, FamilyKept, Begins
<1>9. ASSUME NEW t \in Txn, NEW u \in User, NEW d \in Dictionary, NEW new \in SUBSET Group,
             CreatePerspective(t, u, d, new)
      PROVE  Goal
  <2>1. txn' = [txn EXCEPT ![t] = Done] /\ Done.pc # "open" /\ request' = request /\ NoOverlap
    BY <1>9 DEF CreatePerspective, Done
  <2> QED
    BY <1>a, <2>1, FamilyKept, Begins
<1> QED
  BY <1>1, <1>2, <1>3, <1>4, <1>5, <1>6, <1>7, <1>8, <1>9 DEF Next

(***************************************************************************)
(* When requests do not overlap, the check "Request already exists" keeps  *)
(* the rows about one user or dictionary in one family, for any number of  *)
(* recipients that have answered or not.                                   *)
(***************************************************************************)
THEOREM SerialOneFamily == ASSUME ~Concurrent PROVE Spec => []OneFamily
<1>1. Init => FamilyInv
  BY TypeInit DEF Init, FamilyInv, OneFamily, OneOpen, CreatesNew, Idle
<1>2. FamilyInv /\ [Next]_vars => FamilyInv'
  BY FamilyStep
<1>3. FamilyInv => OneFamily
  BY DEF FamilyInv
<1> QED
  BY <1>1, <1>2, <1>3, PTL DEF Spec

-----------------------------------------------------------------------------
(* A step that changes an open acceptance is its commit. *)
LEMMA AcceptEnds ==
  ASSUME TypeOK, [Next]_vars, NEW t \in Txn, txn[t] \in AcceptTxn, txn'[t] # txn[t]
  PROVE  AcceptCommit(t)
<1>1. txn[t] # Idle /\ txn[t].pc = "open" /\ txn[t].op = "accept"
  BY DEF AcceptTxn, Idle
<1>2. \A s \in Txn : \A r : txn' = [txn EXCEPT ![s] = r] => s = t
  BY DEF TypeOK
<1>3. ASSUME NEW s \in Txn, txn[s] = Idle, NEW r PROVE txn' # [txn EXCEPT ![s] = r]
  BY <1>1, <1>2, <1>3
<1>4. ~UNCHANGED vars
  BY DEF vars
<1>5. \A x \in request : ~Decline(x)
  BY DEF Decline
<1>6. ASSUME NEW s \in Txn
      PROVE  /\ \A u \in User : ~CreateGrantPermission(s, u)
             /\ \A u \in User, d \in Dictionary : ~AddDictionaryToGrant(s, u, d)
             /\ \A x \in request : ~AcceptBegin(s, x)
             /\ \A d \in Dictionary : ~DeleteDictionary(s, d) /\ ~UndeleteDictionary(s, d)
             /\ \A u \in User, d \in Dictionary, new \in SUBSET Group :
                   ~CreatePerspective(s, u, d, new)
  BY <1>3 DEF CreateGrantPermission, AddDictionaryToGrant, AcceptBegin, DeleteDictionary,
              UndeleteDictionary, CreatePerspective
<1>7. ASSUME NEW s \in Txn, CreateCommit(s) \/ MarkCommit(s) PROVE FALSE
  BY <1>1, <1>2, <1>7 DEF CreateCommit, MarkCommit
<1>8. ASSUME NEW s \in Txn, AcceptCommit(s) PROVE s = t
  BY <1>2, <1>8 DEF AcceptCommit
<1> QED
  BY <1>4, <1>5, <1>6, <1>7, <1>8 DEF Next

(***************************************************************************)
(* When requests do not overlap, accepting the row of another recipient,   *)
(* after the user or the dictionary has come in, changes nothing of the    *)
(* grant and no membership (the owners hold the roles already), but that   *)
(* groups of perspectives created since become roles, and the owners join  *)
(* them.                                                                   *)
(***************************************************************************)
THEOREM SerialAcceptedAgain == ASSUME ~Concurrent PROVE Spec => AcceptedAgain
<1>1. ASSUME OwnersInv, [Next]_vars, NEW t \in Txn,
             txn[t] \in AcceptTxn, txn'[t] # txn[t], AlreadyIn(txn[t].row)
      PROVE  /\ UNCHANGED <<owners, participant>>
             /\ roles' = roles \cup AddedSince(txn[t].row)
             /\ member' = member \cup (owners \X AddedSince(txn[t].row))
  <2> DEFINE x == txn[t].row
  <2>1. TypeOK /\ OwnersHoldRoles /\ RolesOfCreation
    BY <1>1 DEF OwnersInv
  <2>2. AcceptCommit(t)
    BY <1>1, <2>1, AcceptEnds
  <2>3. /\ txn[t].owners = owners /\ txn[t].roles = RolesAfter(x) /\ txn[t].joins = Joins(x)
        /\ txn[t].participant = ParticipantAfter(x)
    BY <1>1, <2>2 DEF OwnersInv, AcceptCommit
  <2>4. txn[t].joins \cap member = {}
    BY <2>3 DEF Joins
  <2>5. CASE x.kind = "grant_permission"
    <3>1. x.subject \in owners
      BY <1>1, <2>5 DEF AlreadyIn
    <3>2. Joins(x) = {}
      BY <2>1, <2>5, <3>1 DEF Joins, OwnersHoldRoles
    <3>3. AddedSince(x) = {} /\ owners \X {} = {}
      BY <2>5 DEF AddedSince
    <3> QED
      BY <2>2, <2>3, <2>4, <2>5, <3>1, <3>2, <3>3 DEF AcceptCommit
  <2>6. CASE x.kind # "grant_permission"
    <3>1. x.subject \in participant
      BY <1>1, <2>6 DEF AlreadyIn
    <3>2. GroupsOf[x.subject] \subseteq roles
      BY <2>1, <3>1 DEF RolesOfCreation
    <3>3. /\ roles' = roles \cup groups[x.subject] /\ owners' = owners
          /\ participant' = participant \cup {x.subject}
          /\ member' = member \cup ((owners \X groups[x.subject]) \ member)
      BY <2>2, <2>3, <2>4, <2>6 DEF AcceptCommit, RolesAfter, ParticipantAfter, Joins
    <3>4. AddedSince(x) = groups[x.subject] \ GroupsOf[x.subject]
      BY <2>6 DEF AddedSince
    <3>5. owners \X GroupsOf[x.subject] \subseteq member
      BY <2>1, <3>2 DEF OwnersHoldRoles
    <3>6. member' = member \cup (owners \X AddedSince(x))
      BY <3>3, <3>4, <3>5
    <3> QED
      BY <3>1, <3>2, <3>3, <3>4, <3>6
  <2> QED
    BY <2>5, <2>6
<1>2. ASSUME OwnersInv, [Next]_vars
      PROVE  [\A t \in Txn :
                txn[t] \in AcceptTxn /\ txn'[t] # txn[t] /\ AlreadyIn(txn[t].row) =>
                    /\ UNCHANGED <<owners, participant>>
                    /\ roles' = roles \cup AddedSince(txn[t].row)
                    /\ member' = member \cup (owners \X AddedSince(txn[t].row))]_vars
  BY <1>1, <1>2
<1> QED
  BY <1>2, SerialOwnersInv, PTL DEF Spec, AcceptedAgain
=============================================================================
