---------------------------- MODULE TurnContract ----------------------------
(***************************************************************************)
(* What the server promises about one turn, whatever happens to sockets,   *)
(* database calls and the process: the turn runs, says some text and ends  *)
(* once; then the text may be kept, once and whole, if the turn completed  *)
(* or was aborted, and billed, once, if it completed.                      *)
(***************************************************************************)
EXTENDS Naturals, Sequences

CONSTANT Req

VARIABLES
  turn,   \* "idle", "running", or how the turn ended
  text,   \* how much text it said
  row,    \* the assistant rows of the transcript
  bill    \* the rows of usage_metrics

turnVars == <<turn, text, row, bill>>

ContractInit ==
  /\ turn = [r \in Req |-> "idle"]
  /\ text = [r \in Req |-> 0]
  /\ row = [r \in Req |-> <<>>]
  /\ bill = [r \in Req |-> 0]

Run(r) ==
  /\ turn[r] = "idle"
  /\ turn' = [turn EXCEPT ![r] = "running"]
  /\ UNCHANGED <<text, row, bill>>

Refuse(r) ==
  /\ turn[r] = "idle"
  /\ turn' = [turn EXCEPT ![r] = "failed"]
  /\ UNCHANGED <<text, row, bill>>

Speak(r) ==
  /\ turn[r] = "running"
  /\ text' = [text EXCEPT ![r] = @ + 1]
  /\ UNCHANGED <<turn, row, bill>>

(* The completion may come with a last piece of text. *)
EndTurn(r) ==
  /\ turn[r] = "running"
  /\ \/ /\ turn' = [turn EXCEPT ![r] = "completed"]
        /\ text' \in {text, [text EXCEPT ![r] = @ + 1]}
     \/ /\ \E how \in {"aborted", "failed"} : turn' = [turn EXCEPT ![r] = how]
        /\ UNCHANGED text
  /\ UNCHANGED <<row, bill>>

Keep(r) ==
  /\ turn[r] \in {"completed", "aborted"}
  /\ text[r] > 0
  /\ row[r] = <<>>
  /\ row' = [row EXCEPT ![r] = <<text[r]>>]
  /\ UNCHANGED <<turn, text, bill>>

Bill(r) ==
  /\ turn[r] = "completed"
  /\ bill[r] = 0
  /\ bill' = [bill EXCEPT ![r] = 1]
  /\ UNCHANGED <<turn, text, row>>

ContractNext ==
  \E r \in Req : Run(r) \/ Refuse(r) \/ Speak(r) \/ EndTurn(r) \/ Keep(r) \/ Bill(r)

ContractSpec == ContractInit /\ [][ContractNext]_turnVars
=============================================================================
