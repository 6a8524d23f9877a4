------------------------------- MODULE Database -------------------------------
(***************************************************************************)
(* The PostgreSQL schema and the statements the server runs against it.    *)
(* Every statement is its own implicit transaction, so each is one atomic  *)
(* step of whoever awaits it; no two statements are atomic together.       *)
(* The tables are the only state that survives a restart of the server.    *)
(***************************************************************************)
EXTENDS Protocol, FiniteSets, SequencesExt

CONSTANTS
  NoUser, NoGroup,  \* SQL NULL in a user or group column
  DbFaults,         \* the statements that may return an error in this model
  InitUsers, InitGroups, InitMembers   \* the tables the server starts on

\* The statements, named after what the code uses them for.
Statement == {"login", "nameCheck", "insertUser", "fetchGroups", "fetchUsers",
              "insertMember", "groupName", "insertGroup", "insertCreator",
              "fetchMembers", "groupInfo", "history", "saveMessage"}

\* password_hash: hashing and verifying are a pair, so a row keeps the password.
UserRow == [id : UserId, name : Name, password : Password]

\* The columns of `messages`; a NULL foreign key is NoUser or NoGroup.
MessageRow == [sender : UserId, toUser : UserId \cup {NoUser},
               toGroup : GroupId \cup {NoGroup}, broadcast : BOOLEAN,
               body : Body, at : Timestamp]

ASSUME NullAssumption == NoUser \notin UserId /\ NoGroup \notin GroupId

\* A BIGSERIAL has 64 bits.
ASSUME IdAssumption == IsFiniteSet(UserId)

ASSUME FaultAssumption == DbFaults \subseteq Statement

ASSUME InitialTables ==
  /\ InitUsers \subseteq UserRow
  /\ \A r, s \in InitUsers : (r.id = s.id \/ r.name = s.name) => r = s
  /\ InitGroups \subseteq GroupId
  /\ InitMembers \subseteq InitGroups \X {r.id : r \in InitUsers}

VARIABLES users, groups, members, messages

dbVars == <<users, groups, members, messages>>

DbInit ==
  /\ users = InitUsers
  /\ groups = InitGroups
  /\ members = InitMembers
  /\ messages = {}

\* `?` or `is_ok()` on a query: an outage or a pool timeout makes it an Err.
MayFail(statement) == statement \in DbFaults

-----------------------------------------------------------------------------
(* Accounts.                                                               *)

RegisteredUsers == {r.id : r \in users}

NameTaken(n) == \E r \in users : r.name = n

AuthenticatedByPassword(n, p) == {r.id : r \in {s \in users : s.password = p}}

\* SELECT id, password_hash ... WHERE username, then verify_password.
Authenticated(n, p) ==
  {r.id : r \in {s \in users : s.name = n /\ s.password = p}}

\* username UNIQUE: the INSERT of a name that is already there is an error.
UniqueName(n) == ~NameTaken(n)

InsertUser(id, n, p) ==
  /\ UniqueName(n)
  /\ users' = users \cup {[id |-> id, name |-> n, password |-> p]}
  /\ UNCHANGED <<groups, members, messages>>

-----------------------------------------------------------------------------
(* Groups.                                                                 *)

GroupsOfAnyone(u) == groups

GroupsOf(u) == {g \in groups : <<g, u>> \in members}

MembersOf(g) == {u \in UserId : <<g, u>> \in members}

\* group_members references groups(id) and users(id).
ForeignKeys(g, u) == g \in groups /\ u \in RegisteredUsers

InsertGroup(g) ==
  /\ groups' = groups \cup {g}
  /\ UNCHANGED <<users, members, messages>>

InsertMember(g, u) ==
  /\ members' = members \cup {<<g, u>>}
  /\ UNCHANGED <<users, groups, messages>>

-----------------------------------------------------------------------------
(* Messages.                                                               *)

\* The columns save_message fills for a target.
SavedRow(from, target, msg) ==
  [sender    |-> from,
   toUser    |-> IF target.kind = "user" THEN target.user ELSE NoUser,
   toGroup   |-> IF target.kind = "group" THEN target.group ELSE NoGroup,
   broadcast |-> target.kind = "broadcast",
   body      |-> msg.body,
   at        |-> msg.at]

RowTargetNoBroadcast(row) ==
  IF row.toUser # NoUser THEN UserTarget(row.toUser) ELSE GroupTarget(row.toGroup)

\* The target sync_messages rebuilds from the columns, in this order of tests.
RowTarget(row) ==
  IF row.broadcast THEN Broadcast
  ELSE IF row.toUser # NoUser THEN UserTarget(row.toUser)
  ELSE GroupTarget(row.toGroup)

RowMessage(row) == NewMessage(row.sender, RowTarget(row), row.body, row.at)

SavedForeignKeys(row) ==
  /\ row.sender \in RegisteredUsers
  /\ row.toUser \in RegisteredUsers \cup {NoUser}
  /\ row.toGroup \in groups \cup {NoGroup}

InsertMessage(row) ==
  /\ messages' = messages \cup {row}
  /\ UNCHANGED <<users, groups, members>>

\* messages m LEFT JOIN group_members gm ON m.target_group_id = gm.group_id:
\* a row per member of the target group, or one with a NULL member.
JoinedMembers(row) ==
  LET matches == {u \in UserId : <<row.toGroup, u>> \in members}
  IN  IF matches = {} THEN {NoUser} ELSE matches

LeftJoin == UNION {[row : {row}, member : JoinedMembers(row)] : row \in messages}

HistoryRowsAnyMember(u, since) ==
  {j \in LeftJoin : j.row.at > since /\ (j.member # NoUser \/ j.row.sender = u)}

HistoryRows(u, since) ==
  {j \in LeftJoin : /\ j.row.at > since
                    /\ \/ j.row.toUser = u
                       \/ j.row.broadcast
                       \/ j.row.sender = u
                       \/ j.member = u}

\* ORDER BY created_at ASC leaves messages of the same second in any order.
OrderedNewestFirst(rows) ==
  {s \in SetToSeqs(rows) :
     \A i, j \in DOMAIN s : i < j => s[i].row.at >= s[j].row.at}

Ordered(rows) ==
  {s \in SetToSeqs(rows) :
     \A i, j \in DOMAIN s : i < j => s[i].row.at <= s[j].row.at}

\* The batches sync_messages may build for u: one message per selected row.
HistoryBatches(u, since) ==
  {[i \in DOMAIN s |-> RowMessage(s[i].row)] : s \in Ordered(HistoryRows(u, since))}

-----------------------------------------------------------------------------
(* Types.                                                                   *)

DbOK ==
  /\ users \subseteq UserRow
  /\ groups \subseteq GroupId
  /\ members \subseteq GroupId \X UserId
  /\ messages \subseteq MessageRow

===============================================================================
