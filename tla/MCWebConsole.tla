---------------------------- MODULE MCWebConsole ----------------------------
(* The web console with one or two rows at first of what can be created,   *)
(* and room for a new one by each write.                                   *)
EXTENDS WebConsole

Made == 1 .. MaxWrites + 2
MCId ==
  [providers |-> Made, library |-> Made, workspaces |-> Made, templates |-> Made, switches |-> Made,
   members |-> 1 .. 2, policy |-> {1}]
MCAtFirst ==
  [providers |-> {1}, library |-> 1 .. 2, workspaces |-> 1 .. 2, templates |-> {1}, switches |-> {1},
   members |-> {1}, policy |-> {1}]
MCAddOver == {"members"}

(* Two writes, or a way back, or a fault. *)
MCSpent == {<<0, 1, 1>>, <<1, 0, 1>>, <<1, 1, 0>>}
=============================================================================
