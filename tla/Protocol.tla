------------------------------- MODULE Protocol -------------------------------
(***************************************************************************)
(* The shared `protocol` crate: identifiers, targets and the two message   *)
(* enums of the XaiChat wire protocol.                                     *)
(*                                                                         *)
(* Data no property tells apart is abstracted: a group's name is a         *)
(* function of its id (nothing renames a group), a user's display name is  *)
(* carried only where the code looks it up, a payload is a member of Body. *)
(***************************************************************************)
EXTENDS Naturals, Sequences

CONSTANTS
  UserId,    \* ids the users table can hand out (BIGSERIAL)
  Name,      \* usernames
  Password,  \* plaintext passwords
  GroupId,   \* ids the groups table can hand out (BIGSERIAL)
  Body,      \* message payloads; one payload is sent at most once
  MaxClock   \* bound on the server's clock, in seconds

ASSUME ClockAssumption == MaxClock \in Nat \ {0}

Timestamp == 0 .. MaxClock

-----------------------------------------------------------------------------
(* Where a message goes.                                                   *)

UserTarget(u)  == [kind |-> "user", user |-> u]
GroupTarget(g) == [kind |-> "group", group |-> g]
Broadcast      == [kind |-> "broadcast"]

Target == [kind : {"user"}, user : UserId]
            \cup [kind : {"group"}, group : GroupId]
            \cup {Broadcast}

-----------------------------------------------------------------------------
(* Client to server.                                                       *)

Login(n, p)          == [type |-> "Login", name |-> n, password |-> p]
Register(n, p)       == [type |-> "Register", name |-> n, password |-> p]
SendMessage(t, b)    == [type |-> "SendMessage", target |-> t, body |-> b]
Sync(since)          == [type |-> "Sync", since |-> since]
CreateGroup          == [type |-> "CreateGroup"]
InviteToGroup(g, u)  == [type |-> "InviteToGroup", group |-> g, user |-> u]
FetchGroupMembers(g) == [type |-> "FetchGroupMembers", group |-> g]
FetchGroupInfo(g)    == [type |-> "FetchGroupInfo", group |-> g]

AuthMessage == [type : {"Login", "Register"}, name : Name, password : Password]

ClientMessage ==
  AuthMessage
    \cup [type : {"SendMessage"}, target : Target, body : Body]
    \cup [type : {"Sync"}, since : Timestamp]
    \cup {CreateGroup}
    \cup [type : {"InviteToGroup"}, group : GroupId, user : UserId]
    \cup [type : {"FetchGroupMembers", "FetchGroupInfo"}, group : GroupId]

-----------------------------------------------------------------------------
(* Server to client.                                                       *)

AuthSuccess(u)          == [type |-> "AuthSuccess", user |-> u]
GroupsList(gs)          == [type |-> "GroupsList", groups |-> gs]
UsersList(us)           == [type |-> "UsersList", users |-> us]
Error(e)                == [type |-> "Error", error |-> e]
NewMessage(f, t, b, at) ==
  [type |-> "NewMessage", from |-> f, target |-> t, body |-> b, at |-> at]
Presence(u, on)         == [type |-> "Presence", user |-> u, online |-> on]
SyncBatch(ms)           == [type |-> "SyncBatch", batch |-> ms]
GroupCreated(g)         == [type |-> "GroupCreated", group |-> g]
AddedToGroup(g)         == [type |-> "AddedToGroup", group |-> g]
GroupMembersList(g, us) == [type |-> "GroupMembersList", group |-> g, users |-> us]
GroupInfo(g)            == [type |-> "GroupInfo", group |-> g]

\* The variants the server constructs; the enum has three more it never uses.
ServerError == {"InvalidCredentials", "UsernameTaken", "GroupNotFound",
                "AlreadyAuthenticated", "FirstMessageNotAuth", "InternalError"}

ChatMessage == [type : {"NewMessage"}, from : UserId, target : Target,
                body : Body, at : Timestamp]

ServerMessage ==
  [type : {"AuthSuccess"}, user : UserId]
    \cup [type : {"GroupsList"}, groups : SUBSET GroupId]
    \cup [type : {"UsersList"}, users : SUBSET UserId]
    \cup [type : {"Error"}, error : ServerError]
    \cup ChatMessage
    \cup [type : {"Presence"}, user : UserId, online : BOOLEAN]
    \cup [type : {"SyncBatch"}, batch : Seq(ChatMessage)]
    \cup [type : {"GroupCreated", "AddedToGroup", "GroupInfo"}, group : GroupId]
    \cup [type : {"GroupMembersList"}, group : GroupId, users : SUBSET UserId]
===============================================================================
