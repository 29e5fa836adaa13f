------------------------------ MODULE MCSteam ------------------------------
(* A small instance of SteamCache: requests of two ids, queries that share
   ids, name one twice, and need two requests. *)
EXTENDS SteamCache

Ids == {<<1>>, <<2, 1>>, <<3, 2, 3>>}
SmallCalls == [mode : {"async"}, type : {"GetFriends", "VACBanned"}, fields : Ids]
              \cup {[mode |-> "oneway", type |-> "VACBanned", fields |-> <<1>>],
                    [mode |-> "sync", type |-> "VACBanned", fields |-> <<1>>],
                    [mode |-> "async", type |-> "other", fields |-> <<1>>],
                    [mode |-> "async", type |-> "GetFriends", fields |-> <<1, NotNumber>>],
                    [mode |-> "async", type |-> "VACBanned", fields |-> <<>>]}
=============================================================================
