--------------------------- MODULE ConnectionStore ---------------------------
(***************************************************************************)
(* What saving and deleting a connection promise (commands/saved.rs): a     *)
(* command changes what is saved by its own connection or not at all, and   *)
(* between commands nothing changes, except that a file nobody can read is  *)
(* set aside whole and a new one begins. A file that can't be set aside     *)
(* either is the exception: the next save may write over it.                *)
(***************************************************************************)
CONSTANTS Conns, Nobody

VARIABLES
  saved,  \* the connections in the file
  call,   \* the connection a command is saving or deleting, or Nobody
  blind   \* the file could neither be read nor set aside

Init == saved \in SUBSET Conns /\ call = Nobody /\ blind = FALSE

Begin(c) == call = Nobody /\ call' = c /\ UNCHANGED <<saved, blind>>
Save ==
  /\ call # Nobody /\ call' = Nobody /\ blind' = FALSE
  /\ saved' = (IF blind THEN {} ELSE saved) \cup {call}
Delete == call # Nobody /\ ~blind /\ call' = Nobody /\ saved' = saved \ {call} /\ UNCHANGED blind
\* The command is refused, or the app ends while it runs.
Abandon == call # Nobody /\ call' = Nobody /\ blind' \in {blind, FALSE} /\ UNCHANGED saved
SetAside == call = Nobody /\ saved' = {} /\ UNCHANGED <<call, blind>>
SetAsideFails == call = Nobody /\ blind' = TRUE /\ UNCHANGED <<saved, call>>
\* The app ends, and starts again.
Restart == call = Nobody /\ blind' = FALSE /\ UNCHANGED <<saved, call>>

Next == (\E c \in Conns : Begin(c)) \/ Save \/ Delete \/ Abandon \/ SetAside \/ SetAsideFails \/ Restart

Spec == Init /\ [][Next]_<<saved, call, blind>>
=============================================================================
