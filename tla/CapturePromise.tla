--------------------------- MODULE CapturePromise ---------------------------
(***************************************************************************)
(* What the store behind the local MCP server promises an agent, without   *)
(* processes, files, lines, keys of commands, faults or retries.  The host *)
(* (AgentMemory) and the phone (LocalNodeChannel) are two such stores.     *)
(*                                                                         *)
(* A capture makes one thing under its slot, for good, however often it is *)
(* sent; agents are answered with what was made, and with nothing else;    *)
(* and only what somebody was answered is ever taken back.                 *)
(***************************************************************************)
CONSTANTS Slots

VARIABLES
  made,      \* what the captures of a slot have made
  answered,  \* what agents were answered for a slot
  gone       \* what was taken back

cvars == <<made, answered, gone>>

PromiseInit ==
  /\ made = [s \in Slots |-> {}]
  /\ answered = [s \in Slots |-> {}]
  /\ gone = {}

\* Nothing was made under the slot yet, and what is made now is new.
Make(s) ==
  /\ made[s] = {}
  /\ \E thing \in made'[s] : /\ \A t \in Slots : thing \notin made[t]
                             /\ made' = [made EXCEPT ![s] = {thing}]
  /\ UNCHANGED <<answered, gone>>

Answer(s) ==
  /\ made[s] # {}
  /\ answered' = [answered EXCEPT ![s] = made[s]]
  /\ UNCHANGED <<made, gone>>

TakeBack(s) ==
  /\ answered[s] # {}
  /\ gone' = gone \cup made[s]
  /\ UNCHANGED <<made, answered>>

PromiseNext == \E s \in Slots : Make(s) \/ Answer(s) \/ TakeBack(s)

PromiseSpec == PromiseInit /\ [][PromiseNext]_cvars

=============================================================================
