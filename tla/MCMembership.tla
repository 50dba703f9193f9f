---------------------------- MODULE MCMembership ----------------------------
(* Instances of Membership for TLC.                                         *)
EXTENDS Membership, TLC

CONSTANTS ann, bob, r1, r2, r3

(* Ann and Bob have logged in, and Ann has invited Bob to her workspace.    *)
UsersTwo == 1 :> [person |-> ann, main |-> 3, by |-> Earlier]
         @@ 2 :> [person |-> bob, main |-> 4, by |-> Earlier]

WorkspacesTwo ==
     3 :> [default |-> TRUE, members |-> {[id |-> 5, user |-> 1, owner |-> TRUE, active |-> TRUE, by |-> Earlier],
                                          [id |-> 7, user |-> 2, owner |-> FALSE, active |-> TRUE, by |-> Earlier]}]
  @@ 4 :> [default |-> TRUE, members |-> {[id |-> 6, user |-> 2, owner |-> TRUE, active |-> TRUE, by |-> Earlier]}]

FirstId == 8

(* Two requests of any operation, and one that takes away.                  *)
AnyOps == [r \in Requests |-> IF r = r3 THEN {"remove", "delete user"} ELSE Ops]

Alike == Permutations(Requests \ {r3})

(* A violation of LoginAccepted, or of MainNotDeleted, takes these at least.*)
LoginLast == [r \in Requests |-> IF r = r1 THEN {"login"} ELSE {"delete user"}]
DeleteLast == [r \in Requests |-> IF r = r1 THEN {"delete"}
                                  ELSE IF r = r2 THEN {"remove"} ELSE {"default"}]
=============================================================================
