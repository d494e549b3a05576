----------------------------- MODULE Admission -----------------------------
(***************************************************************************)
(* What authentication promises, without accounts, certificates or calls:  *)
(* every request is judged by what is true at one instant of its wait.     *)
(* Who is entitled may change at any moment, and the verdict may come      *)
(* later, or be lost; but no verdict is put together from two instants.    *)
(***************************************************************************)
CONSTANT Requests

VARIABLES
    entitled,  \* the requests whose credentials are good for their route now
    waiting,   \* the requests that wait for a verdict
    opinion,   \* what was found of each: "yes", "no", or "none" so far
    told       \* its verdict

vars == <<entitled, waiting, opinion, told>>

Init ==
    /\ entitled \subseteq Requests
    /\ waiting = {}
    /\ opinion = [r \in Requests |-> "none"]
    /\ told = [r \in Requests |-> "none"]

Change ==
    /\ entitled' \in SUBSET Requests
    /\ UNCHANGED <<waiting, opinion, told>>

Arrive(r) ==
    /\ r \notin waiting
    /\ told[r] = "none"
    /\ waiting' = waiting \cup {r}
    /\ UNCHANGED <<entitled, opinion, told>>

\* The one instant.
Look(r) ==
    /\ r \in waiting
    /\ opinion[r] = "none"
    /\ opinion' = [opinion EXCEPT ![r] = IF r \in entitled THEN "yes" ELSE "no"]
    /\ UNCHANGED <<entitled, waiting, told>>

Tell(r, verdict) ==
    /\ r \in waiting
    /\ told' = [told EXCEPT ![r] = verdict]
    /\ waiting' = waiting \ {r}
    /\ UNCHANGED <<entitled, opinion>>

Admit(r) == opinion[r] = "yes" /\ Tell(r, "admitted")

\* Either nobody had to look, or what was seen is told.
Deny(r) == (opinion[r] = "no" \/ (opinion[r] = "none" /\ r \notin entitled)) /\ Tell(r, "denied")

Fail(r) == Tell(r, "error")

LoseAll ==
    /\ told' = [r \in Requests |-> IF r \in waiting THEN "lost" ELSE told[r]]
    /\ waiting' = {}
    /\ UNCHANGED <<entitled, opinion>>

Next ==
    \/ Change
    \/ LoseAll
    \/ \E r \in Requests : Arrive(r) \/ Look(r) \/ Admit(r) \/ Deny(r) \/ Fail(r)

Spec == Init /\ [][Next]_vars
=============================================================================
