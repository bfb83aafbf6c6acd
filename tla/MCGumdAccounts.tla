--------------------------- MODULE MCGumdAccounts ---------------------------
(***************************************************************************)
(* Values for the constants of GumdAccounts that a .cfg cannot write.      *)
(***************************************************************************)
EXTENDS GumdAccounts, TLC

CONSTANTS daemon, tool   \* two processes

\* Two ids per range, as many as there are users: the second user takes the
\* last one.
TwoUids == [t \in UserType |-> IF t = "system" THEN [min |-> 1, max |-> 2]
                               ELSE [min |-> 5, max |-> 6]]

\* The range of user groups overlaps the uids, which are the preferred gids.
TwoGids == [t \in GroupType |-> IF t = "system" THEN [min |-> 1, max |-> 2]
                                ELSE [min |-> 6, max |-> 7]]

NoGroups == <<>>
OneGroup == <<"video">>

NothingInstalled == <<>>
VideoInstalled == ("video" :> 9)

UserOperations == [p \in Proc |-> UserCalls]

\* The tool deletes users with objects of its own and edits members.
UsersAndMembers ==
    (daemon :> {"user_add", "user_delete"}) @@
    (tool :> {"user_delete", "add_member", "delete_member"})

UsersAndGroups ==
    (daemon :> {"user_add", "user_delete"}) @@
    (tool :> GroupCalls)

GroupUpdates ==
    (daemon :> {"user_add", "user_delete"}) @@
    (tool :> {"group_update"})

=============================================================================
