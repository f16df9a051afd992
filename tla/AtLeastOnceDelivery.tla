------------------------ MODULE AtLeastOnceDelivery ------------------------
(***************************************************************************)
(* What the audit log outbox promises of one (stream, log) pair, with no   *)
(* workers, claims, jobs or retries in sight.  An accepted event is owed   *)
(* to the stream.  It is sent only while it is owed, any number of times;  *)
(* it is delivered only once the provider has received it; failing that,   *)
(* it is given up on, and by then it is noted as dropped.  An owed event   *)
(* may be noted first and yet be delivered.  A delivered event is          *)
(* remembered, and not owed again, until it is forgotten.                  *)
(***************************************************************************)
CONSTANT Events

VARIABLES state, received, dropped
vars == <<state, received, dropped>>

States == {"absent", "owed", "delivered"}

TypeOK ==
  /\ state \in [Events -> States]
  /\ received \subseteq Events
  /\ dropped \subseteq Events

Init ==
  /\ state = [e \in Events |-> "absent"]
  /\ received = {}
  /\ dropped = {}

Moved(es, to) == [e \in Events |-> IF e \in es THEN to ELSE state[e]]
In(st) == {e \in Events : state[e] = st}

Accept(es) ==
  /\ es \subseteq In("absent")
  /\ state' = Moved(es, "owed")
  /\ UNCHANGED <<received, dropped>>

Send(es) ==
  /\ es \subseteq In("owed")
  /\ received' = received \cup es
  /\ UNCHANGED <<state, dropped>>

\* Only what is owed is ever noted as dropped.
Note(es) ==
  /\ es \subseteq In("owed")
  /\ dropped' = dropped \cup es
  /\ UNCHANGED <<state, received>>

\* One step may settle several events: some delivered, some given up.
Settle(done, lost) ==
  /\ done \subseteq In("owed") \cap received
  /\ lost \subseteq In("owed") \ done
  /\ state' = [e \in Events |->
                 IF e \in done THEN "delivered" ELSE IF e \in lost THEN "absent" ELSE state[e]]
  /\ dropped' = dropped \cup lost
  /\ UNCHANGED received

Forget(es) ==
  /\ es \subseteq In("delivered")
  /\ state' = Moved(es, "absent")
  /\ UNCHANGED <<received, dropped>>

Next ==
  \/ \E es \in SUBSET Events : Accept(es) \/ Send(es) \/ Note(es) \/ Forget(es)
  \/ \E done, lost \in SUBSET Events : Settle(done, lost)

Spec == Init /\ [][Next]_vars
=============================================================================
