---------------------------- MODULE Replication ----------------------------
(***************************************************************************)
(* What Sync promises the devices of one vault: whatever a device          *)
(* publishes to the indexer, every other device comes to know, unless it   *)
(* is withdrawn first; what a device knows it never forgets.               *)
(***************************************************************************)
CONSTANTS Devices, Versions

VARIABLES published, \* versions whose metadata was ever on the indexer
          withdrawn, \* those among them that are not there now
          known      \* [device -> versions with a row in its cache]

vars == <<published, withdrawn, known>>

Init ==
  /\ published = {}
  /\ withdrawn = {}
  /\ known = [d \in Devices |-> {}]

(* A device stages a version that is nowhere else.                         *)
Write(d, v) ==
  /\ v \notin published
  /\ \A e \in Devices : v \notin known[e]
  /\ known' = [known EXCEPT ![d] = @ \cup {v}]
  /\ UNCHANGED <<published, withdrawn>>

(* The indexer gets it, from a device that has it or from another client.  *)
Publish(v) ==
  /\ published' = published \cup {v}
  /\ withdrawn' = withdrawn \ {v}
  /\ UNCHANGED known

Withdraw(v) ==
  /\ v \in published
  /\ withdrawn' = withdrawn \cup {v}
  /\ UNCHANGED <<published, known>>

Learn(d, v) ==
  /\ v \in published
  /\ known' = [known EXCEPT ![d] = @ \cup {v}]
  /\ UNCHANGED <<published, withdrawn>>

Next ==
  \E v \in Versions :
    \/ Publish(v) \/ Withdraw(v)
    \/ \E d \in Devices : Write(d, v) \/ Learn(d, v)

Delivery ==
  \A d \in Devices, v \in Versions : WF_vars(v \notin withdrawn /\ Learn(d, v))

Spec == Init /\ [][Next]_vars /\ Delivery
=============================================================================
