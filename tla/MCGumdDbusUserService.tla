------------------------ MODULE MCGumdDbusUserService ------------------------
(***************************************************************************)
(* GumdDbusUserService, GumdDbusGroupService and GumdServerP2P for TLC: a  *)
(* behaviour is one of these three, so that the properties are checked of  *)
(* each.  Clients, names, and the places for objects and adapters are      *)
(* interchangeable; ids are numbers and are not.                           *)
(***************************************************************************)
EXTENDS GumdDbusUserService, TLC

Group == INSTANCE GumdDbusGroupService
            WITH Gid <- Uid, GroupTimeout <- UserTimeout, groups <- users,
                 peer_groups <- peer_users, group_service <- user_service

P2P == INSTANCE GumdServerP2P WITH user_service_adapters <- caller_watchers

VARIABLE service    \* which service this is

MCInit ==
    /\ service \in {"user", "group", "p2p"}
    /\ service = "user" => ServiceInit
    /\ service = "group" => Group!GroupServiceInit
    /\ service = "p2p" => P2P!P2PInit /\ user_service = None

MCNext ==
    /\ \/ service = "user" /\ UserServiceNext
       \/ service = "group" /\ Group!GroupServiceNext
       \/ service = "p2p" /\ P2P!P2PNext /\ UNCHANGED user_service
    /\ UNCHANGED service

MCSpec == MCInit /\ [][MCNext]_<<userServiceVars, service>>

Symmetry == Permutations(Peer) \cup Permutations(Adapter)
               \cup Permutations(Object) \cup Permutations(Name)
=============================================================================
