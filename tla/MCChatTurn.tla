----------------------------- MODULE MCChatTurn -----------------------------
(* ChatTurn on a small instance: see the .cfg files. *)
EXTENDS ChatTurn, TLC

CONSTANTS s1, s2, u1, u2, r1, r2

(* Two users with a connection each, and two connections of one user. *)
TwoUsers == s1 :> u1 @@ s2 :> u2
OneUser  == s1 :> u1 @@ s2 :> u1
Alone    == s1 :> u1

Symmetry == Permutations(Req)
=============================================================================
