----------------------------- MODULE SessionSpec -----------------------------
(***************************************************************************)
(* The session life cycle the spec promises (section 4.3), seen from one  *)
(* client: Connecting -> AwaitingLogin -> Authenticated -> InSession, and *)
(* from any state to Closing (logoff, refused login or session) or to     *)
(* Closed (transport closed or lost).  A new session starts from Closed.  *)
(***************************************************************************)
VARIABLE session

Phases == {"Closed", "Connecting", "AwaitingLogin", "Authenticated",
           "InSession", "Closing"}

Step(from, to) == session = from /\ session' = to

Open == Step("Closed", "Connecting")
Accept == Step("Connecting", "AwaitingLogin")
LoginOk == Step("AwaitingLogin", "Authenticated")
SessionOk == Step("Authenticated", "InSession")
Close == session \notin {"Closed", "Closing"} /\ session' = "Closing"
Drop == session # "Closed" /\ session' = "Closed"

Init == session = "Closed"
Next == Open \/ Accept \/ LoginOk \/ SessionOk \/ Close \/ Drop
Spec == Init /\ [][Next]_session

\* The session only ever is in one of the phases above.
PhaseOK == session \in Phases
====
