------------------------------- MODULE ChatPage -------------------------------
(***************************************************************************)
(* The ChatPage of client/src/ui/pages/chat.rs as data: what it keeps, and *)
(* handle_server_message as a function from a page and a message to a page.*)
(*                                                                         *)
(* A map with no entry for a key is a total function with the value the    *)
(* drawing code falls back to: offline, no message, no member.             *)
(***************************************************************************)
EXTENDS Protocol, SequencesExt

Page ==
  [book     : SUBSET UserId,                   \* address_book, without the names
   groups   : SUBSET GroupId,                  \* no group is listed twice
   rosters  : [GroupId -> SUBSET UserId],      \* group_members
   presence : [UserId -> BOOLEAN],
   tabs     : [Target -> Seq(ChatMessage)]]    \* messages

EmptyPage ==
  [book     |-> {},
   groups   |-> {},
   rosters  |-> [g \in GroupId |-> {}],
   presence |-> [u \in UserId |-> FALSE],
   tabs     |-> [t \in Target |-> <<>>]]

TabOfSender(m, user) ==
  IF m.target.kind = "user" THEN UserTarget(m.from) ELSE m.target

\* A private message is filed under the other end, whoever wrote it.
TabOf(m, user) ==
  IF m.target.kind = "user" /\ m.from # user THEN UserTarget(m.from) ELSE m.target

Show(tabs, m, user) == [tabs EXCEPT ![TabOf(m, user)] = Append(@, m)]

ShowAll(tabs, ms, user) ==
  LET shown[n \in 0 .. Len(ms)] ==
        IF n = 0 THEN tabs ELSE Show(shown[n - 1], ms[n], user)
  IN  shown[Len(ms)]

\* handle_server_message.  The caller keeps AuthSuccess and Error to itself.
Apply(page, m, user) ==
  CASE m.type = "UsersList"   -> [page EXCEPT !.book = @ \cup m.users]
    [] m.type = "GroupsList"  -> [page EXCEPT !.groups = m.groups]
    [] m.type = "NewMessage"  -> [page EXCEPT !.tabs = Show(@, m, user)]
    [] m.type = "SyncBatch"   -> [page EXCEPT !.tabs = ShowAll(@, m.batch, user)]
    [] m.type = "Presence"    -> [page EXCEPT !.presence[m.user] = m.online]
    [] m.type \in {"GroupCreated", "AddedToGroup", "GroupInfo"} ->
         [page EXCEPT !.groups = @ \cup {m.group}]
    [] m.type = "GroupMembersList" -> [page EXCEPT !.rosters[m.group] = m.users]

ForPage(m) == m.type \notin {"AuthSuccess", "Error"}

\* The page after a sequence of messages.
ApplyAll(page, ms, user) ==
  LET after[n \in 0 .. Len(ms)] ==
        IF n = 0 THEN page
        ELSE IF ForPage(ms[n]) THEN Apply(after[n - 1], ms[n], user) ELSE after[n - 1]
  IN  after[Len(ms)]
===============================================================================
