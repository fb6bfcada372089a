--------------------------- MODULE MailboxPromise ---------------------------
(***************************************************************************)
(* What a resource mailbox promises the sender of a message, whatever is   *)
(* lost, retried, replaced or restarted: the message enters a Session at   *)
(* most once, a verdict is final, and the verdict is true.                 *)
(***************************************************************************)
EXTENDS Naturals

CONSTANT Msgs

VARIABLES
  fate,    \* what the sender is told
  inputs   \* how many Session inputs the message became

vars == <<fate, inputs>>

Fates == {"unsent", "open", "delivered", "dropped", "unknown"}

TypeOK == fate \in [Msgs -> Fates] /\ inputs \in [Msgs -> 0 .. 1]

Init == fate = [m \in Msgs |-> "unsent"] /\ inputs = [m \in Msgs |-> 0]

Same(m) == fate'[m] = fate[m] /\ inputs'[m] = inputs[m]

Send(m) == fate[m] = "unsent" /\ fate'[m] = "open" /\ inputs'[m] = inputs[m]

\* AgentHub takes the message, even one the mailbox has lost sight of.
Enter(m) ==
  /\ fate[m] \in {"open", "unknown"} /\ inputs[m] = 0 /\ inputs'[m] = 1
  /\ \/ fate'[m] = fate[m]
     \/ fate[m] = "open" /\ fate'[m] = "delivered"

Confirm(m) == /\ fate[m] = "open" /\ inputs[m] = 1
              /\ fate'[m] = "delivered" /\ inputs'[m] = 1

\* Dropped is a promise that the message will never enter a Session.
Drop(m) == /\ fate[m] = "open" /\ inputs[m] = 0
           /\ fate'[m] = "dropped" /\ inputs'[m] = 0

LoseSight(m) == fate[m] = "open" /\ fate'[m] = "unknown" /\ inputs'[m] = inputs[m]

\* One step may settle several messages: archiving a resource does.
Next == \A m \in Msgs : \/ Same(m) \/ Send(m) \/ Enter(m) \/ Confirm(m)
                        \/ Drop(m) \/ LoseSight(m)

Spec == Init /\ [][Next]_vars
=============================================================================
