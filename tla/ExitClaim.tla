------------------------------- MODULE ExitClaim -------------------------------
(***************************************************************************)
(* What one verification run promises to the rest of the program, without  *)
(* ports, handshakes or retries: a run may hold an inbound of its own, an  *)
(* answer counts only when that inbound gave it, and the claim "internet   *)
(* verified through this config" is made at most once, finally, by a run   *)
(* that still holds its inbound and has had its answer.                    *)
(***************************************************************************)
CONSTANTS Runs, Inbounds,
          Nobody     \* not a run

VARIABLES
  holder,   \* holder[i]: the run whose process serves inbound i, or Nobody
  verdict   \* verdict[r]: what the run has established so far

vars == <<holder, verdict>>

Holds(r) == \E i \in Inbounds : holder[i] = r

Init ==
  /\ holder = [i \in Inbounds |-> Nobody]
  /\ verdict = [r \in Runs |-> "open"]

\* A run whose verdict is still open starts to serve a free inbound.
Acquire(r, i) ==
  /\ holder[i] = Nobody
  /\ verdict[r] = "open"
  /\ holder' = [holder EXCEPT ![i] = r]
  /\ UNCHANGED verdict

\* The process of a run gives its inbound back: it died, or it was stopped.
Lose(i) ==
  /\ holder[i] # Nobody
  /\ holder' = [holder EXCEPT ![i] = Nobody]
  /\ UNCHANGED verdict

\* The run's own inbound carried its probe.
Answer(r) ==
  /\ verdict[r] = "open"
  /\ Holds(r)
  /\ verdict' = [verdict EXCEPT ![r] = "answered"]
  /\ UNCHANGED holder

\* The claim. It needs the answer and the inbound, at the same moment.
Claim(r) ==
  /\ verdict[r] = "answered"
  /\ Holds(r)
  /\ verdict' = [verdict EXCEPT ![r] = "claimed"]
  /\ UNCHANGED holder

\* The run gives up, with or without its inbound.
Released(r) == [i \in Inbounds |-> IF holder[i] = r THEN Nobody ELSE holder[i]]

Refuse(r) ==
  /\ verdict[r] \in {"open", "answered"}
  /\ verdict' = [verdict EXCEPT ![r] = "refused"]
  /\ holder' \in {holder, Released(r)}

Next ==
  \/ \E r \in Runs : Answer(r) \/ Claim(r) \/ Refuse(r)
  \/ \E r \in Runs, i \in Inbounds : Acquire(r, i)
  \/ \E i \in Inbounds : Lose(i)

Spec == Init /\ [][Next]_vars
================================================================================
