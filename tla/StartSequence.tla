--------------------------- MODULE StartSequence ---------------------------
(***************************************************************************)
(* What a start of ocs-api is to everybody else, without containers, files *)
(* and retries: a process that offers the Owner Service the redirect and   *)
(* the three common resources, one after the other, and serves only then.  *)
(* Until it serves nobody else touches what it has posted.                 *)
(***************************************************************************)
VARIABLES
    stage, \* down, posting one of its resources, verify (the exchange), serving
    fresh  \* the common resources the Owner Service has from this process

vars == <<stage, fresh>>

Common == {"crt", "cfg", "wrapper"}
Then   == [redirect |-> "crt", crt |-> "cfg", cfg |-> "wrapper", wrapper |-> "verify",
           verify |-> "serving"]

Init == stage = "down" /\ fresh = {}

Begin ==
    /\ stage = "down"
    /\ stage' = "redirect"
    /\ UNCHANGED fresh

\* A resource is offered, and stored or not.
Advance ==
    /\ stage \in DOMAIN Then
    /\ stage' = Then[stage]
    /\ fresh' \in {fresh, fresh \cup ({stage} \cap Common)}

\* An administrator posts his own.
Replace(n) ==
    /\ stage = "serving"
    /\ fresh' = fresh \ {n}
    /\ UNCHANGED stage

\* It ends, at any stage; what it leaves is nobody's.
End ==
    /\ stage' = "down"
    /\ fresh' = {}

Next == Begin \/ Advance \/ (\E n \in Common : Replace(n)) \/ End

Spec == Init /\ [][Next]_vars
=============================================================================
