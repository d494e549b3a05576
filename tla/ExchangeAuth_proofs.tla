------------------------- MODULE ExchangeAuth_proofs -------------------------
(***************************************************************************)
(* Proofs about ExchangeAuth, for every number of requests, organisations, *)
(* users, certificates, changes of the exchange and starts.                *)
(***************************************************************************)
EXTENDS ExchangeAuth, TLAPS

LEMMA InitType == Init => AuthTypeOK
<1> SUFFICES ASSUME Init PROVE AuthTypeOK
  OBVIOUS
<1>1. role \in [Orgs -> [Names -> Roles \cup {"none"}]]
  BY DEF Init, Roles
<1>2. key \in [Orgs -> [Names -> Passwords]]
  BY DEF Init
<1>3. changes \in 0 .. MaxChanges /\ starts \in 0 .. MaxStarts
  BY AuthBoundsAssumption DEF Init
<1> QED
  BY <1>1, <1>2, <1>3 DEF Init, AuthTypeOK

\* The exchange answers only what Answers lists.
LEMMA AnswerType == AuthTypeOK => \A r \in Requests : MayAnswer(r) \subseteq Answers
<1> SUFFICES ASSUME AuthTypeOK, NEW r \in Requests PROVE MayAnswer(r) \subseteq Answers
  OBVIOUS
<1>1. ValidIn(r, role, key) => role[cred[r].org][cred[r].user] \in Roles
  BY DEF ValidIn, AuthTypeOK, Creds
<1> QED
  BY <1>1 DEF MayAnswer, Answers

LEMMA NextType == AuthTypeOK /\ [Next]_vars => AuthTypeOK'
<1> SUFFICES ASSUME AuthTypeOK, [Next]_vars PROVE AuthTypeOK'
  OBVIOUS
<1> USE DEF AuthTypeOK
<1>1. ASSUME NEW o \in Orgs, NEW n \in Names, ChangeAccount(o, n)
      PROVE  AuthTypeOK'
  <2>1. /\ role' \in [Orgs -> [Names -> Roles \cup {"none"}]]
        /\ key' \in [Orgs -> [Names -> Passwords]]
    BY <1>1 DEF ChangeAccount
  <2>2. changes' \in 0 .. MaxChanges
    BY <1>1, AuthBoundsAssumption DEF ChangeAccount, Change
  <2>3. once' \subseteq Requests /\ always' \subseteq Requests
    BY <1>1 DEF ChangeAccount
  <2> QED
    BY <1>1, <2>1, <2>2, <2>3 DEF ChangeAccount, process, inputs, answers
<1>2. CASE Rotate
  <2>1. changes' \in 0 .. MaxChanges
    BY <1>2, AuthBoundsAssumption DEF Rotate, Change
  <2> QED
    BY <1>2, <2>1 DEF Rotate, process, inputs, answers
<1>3. CASE ReplaceFile
  <2>1. changes' \in 0 .. MaxChanges
    BY <1>3, AuthBoundsAssumption DEF ReplaceFile, Change
  <2> QED
    BY <1>3, <2>1 DEF ReplaceFile, inputs, answers, history
<1>4. CASE Start
  <2>1. starts' \in 0 .. MaxStarts
    BY <1>4, AuthBoundsAssumption DEF Start
  <2>2. file' \in Certs \cup {NoCert} /\ trust' \in Certs \cup {Public, NoCert, AnyCert}
    BY <1>4 DEF Start, Pool
  <2>3. up' \in BOOLEAN
    <3>1. Trusts(trust', exCert) \in BOOLEAN
      BY DEF Trusts
    <3> QED
      BY <1>4, <3>1, Zenon DEF Start
  <2> QED
    BY <1>4, <2>1, <2>2, <2>3 DEF Start, exchange, inputs, answers
<1>5. CASE Die
  BY <1>5 DEF Die, exchange, inputs, history, Verdicts
<1>6. ASSUME NEW r \in Requests, Send(r)
      PROVE  AuthTypeOK'
  BY <1>6 DEF Send, exchange, process, inputs, answers
<1>7. ASSUME NEW r \in Requests, Check(r)
      PROVE  AuthTypeOK'
  BY <1>7 DEF Check, Decide, exchange, process, inputs, history, Verdicts
<1>8. ASSUME NEW r \in Requests, Ask(r)
      PROVE  AuthTypeOK'
  BY <1>8, AnswerType DEF Ask, exchange, process, inputs, history
<1>9. ASSUME NEW r \in Requests, Judge(r)
      PROVE  AuthTypeOK'
  <2>1. \E v \in Verdicts : Decide(r, v)
    BY <1>9 DEF Judge, Verdicts
  <2> QED
    BY <1>9, <2>1 DEF Judge, Decide, exchange, process, inputs, history
<1>10. CASE UNCHANGED vars
  BY <1>10 DEF vars, exchange, process, inputs, answers, history
<1> QED
  BY <1>1, <1>2, <1>3, <1>4, <1>5, <1>6, <1>7, <1>8, <1>9, <1>10 DEF Next, Idle

\* Type correctness, for any number of requests and changes.
THEOREM TypeCorrect == Spec => []AuthTypeOK
<1>1. Init => AuthTypeOK
  BY InitType
<1>2. AuthTypeOK /\ [Next]_vars => AuthTypeOK'
  BY NextType
<1> QED
  BY <1>1, <1>2, PTL DEF Spec

----------------------------------------------------------------------------
(***************************************************************************)
(* The inductive invariant: what each step of ExchangeAuthenticate knows   *)
(* of the account it asks about, now and since the request arrived.        *)
(***************************************************************************)
OrgFits(r) == cred[r].org # NoOrg /\ (IsRoot(r) \/ cred[r].org = deviceOrg[r])

\* While r waits, what has been true of it since it arrived.
Tracked(r) == Waits(r) => /\ up
                          /\ Entitled(r) => r \in once
                          /\ r \in always => Entitled(r)

\* What the answer the handler holds says of that time.
Supports(r) ==
    pc[r] = "judge" =>
        /\ resp[r] \in Roles /\ (IsRoot(r) \/ resp[r] = "user") => r \in once
        /\ resp[r] = "unauthorized" \/ (resp[r] = "hubAdmin" /\ ~IsRoot(r)) => r \notin always
        /\ resp[r] = "tls" => rotated

Decided(r) ==
    /\ verdict[r] # "none" => pc[r] = "done"
    /\ verdict[r] = "admitted" => r \in once
    /\ verdict[r] = "denied" => r \notin always

Judged(r) == /\ pc[r] \in {"ask", "judge"} => OrgFits(r)
             /\ pc[r] = "new" => r \notin always
             /\ Tracked(r)
             /\ Supports(r)
             /\ Decided(r)

TrustedUnlessRotated == up /\ ~Trusted => rotated

IInv == TrustedUnlessRotated /\ \A r \in Requests : Judged(r)

LEMMA InitInv == Init => IInv
BY DEF Init, IInv, TrustedUnlessRotated, Judged, Tracked, Supports, Decided, Waits

LEMMA NextInv == AuthTypeOK /\ IInv /\ [Next]_vars => IInv'
<1> SUFFICES ASSUME AuthTypeOK, IInv, [Next]_vars PROVE IInv'
  OBVIOUS
<1> USE DEF IInv
<1>1. ASSUME NEW o \in Orgs, NEW n \in Names, ChangeAccount(o, n)
      PROVE  IInv'
  <2>1. UNCHANGED <<exCert, process, inputs, pc, resp, verdict, rotated>>
    BY <1>1 DEF ChangeAccount, answers
  <2>2. ASSUME NEW r \in Requests
        PROVE  Judged(r)'
    <3>1. /\ Entitled(r)' <=> EntitledIn(r, role', key')
          /\ IsRoot(r)' <=> IsRoot(r)
          /\ Waits(r)' <=> Waits(r)
          /\ OrgFits(r)' <=> OrgFits(r)
      BY <2>1 DEF Entitled, EntitledIn, ValidIn, IsRoot, Waits, OrgFits, inputs
    <3>2. once \subseteq once' /\ always' \subseteq always
      BY <1>1 DEF ChangeAccount
    <3>3. Tracked(r)'
      <4>1. Waits(r) => /\ EntitledIn(r, role', key') => r \in once'
                        /\ r \in always' => EntitledIn(r, role', key')
        BY <1>1 DEF ChangeAccount
      <4>2. Waits(r) => up'
        BY <2>1 DEF Judged, Tracked, process
      <4> QED
        BY <3>1, <4>1, <4>2 DEF Tracked
    <3> QED
      BY <2>1, <3>1, <3>2, <3>3 DEF Judged, Supports, Decided
  <2> QED
    BY <2>1, <2>2 DEF TrustedUnlessRotated, Trusted, Trusts, process
<1>2. ASSUME Rotate \/ ReplaceFile
      PROVE  IInv'
  <2>1. /\ UNCHANGED <<role, key, inputs, pc, resp, verdict, once, always, trust, up>>
        /\ UNCHANGED <<exCert, rotated>> \/ rotated' = TRUE
    BY <1>2 DEF Rotate, ReplaceFile, process, answers, history
  <2>2. \A r \in Requests : Judged(r)'
    BY <2>1 DEF Judged, Tracked, Supports, Decided, Entitled, EntitledIn, ValidIn, IsRoot,
                Waits, OrgFits, inputs
  <2> QED
    BY <2>1, <2>2 DEF TrustedUnlessRotated, Trusted, Trusts
<1>3. CASE Start
  <2>1. UNCHANGED <<role, key, exCert, inputs, pc, resp, verdict, once, always>>
    BY <1>3 DEF Start, exchange, answers
  <2>2. ASSUME NEW r \in Requests
        PROVE  ~Waits(r) /\ Judged(r)'
    <3>1. ~Waits(r)
      BY <1>3 DEF Start, Judged, Tracked
    <3>2. /\ Waits(r)' <=> Waits(r)
          /\ pc'[r] \notin {"check", "ask", "judge"}
      BY <2>1, <3>1 DEF Waits
    <3>3. Decided(r)' /\ (pc'[r] = "new" => r \notin always')
      BY <2>1 DEF Judged, Decided
    <3> QED
      BY <3>1, <3>2, <3>3 DEF Judged, Tracked, Supports
  <2>3. TrustedUnlessRotated'
    BY <1>3, <2>1 DEF Start, TrustedUnlessRotated, Trusted, Trusts
  <2> QED
    BY <2>2, <2>3
<1>4. CASE Die
  <2>1. ASSUME NEW r \in Requests
        PROVE  Judged(r)'
    <3>1. ~Waits(r)' /\ pc'[r] \notin {"ask", "judge"}
      BY <1>4 DEF Die, Waits
    <3>2. Decided(r)' /\ (pc'[r] = "new" => r \notin always')
      BY <1>4 DEF Die, Judged, Decided, Waits, history
    <3> QED
      BY <3>1, <3>2 DEF Judged, Tracked, Supports
  <2> QED
    BY <1>4, <2>1 DEF Die, TrustedUnlessRotated
<1>5. ASSUME NEW r \in Requests, Send(r) \/ Check(r) \/ Ask(r) \/ Judge(r)
      PROVE  IInv'
  <2>1. UNCHANGED <<exchange, process, inputs, rotated>> /\ up
    BY <1>5 DEF Send, Check, Ask, Judge, history
  <2>2. TrustedUnlessRotated'
    BY <2>1 DEF TrustedUnlessRotated, Trusted, Trusts, exchange, process
  <2>3. \A q \in Requests : /\ Entitled(q)' <=> Entitled(q)
                            /\ IsRoot(q)' <=> IsRoot(q)
                            /\ OrgFits(q)' <=> OrgFits(q)
    BY <2>1 DEF Entitled, EntitledIn, ValidIn, IsRoot, OrgFits, exchange, inputs
  <2>4. ASSUME NEW q \in Requests, q # r
        PROVE  Judged(q)'
    <3>1. /\ pc'[q] = pc[q] /\ resp'[q] = resp[q] /\ verdict'[q] = verdict[q]
          /\ q \in once' <=> q \in once
          /\ q \in always' <=> q \in always
      BY <1>5, <2>4 DEF Send, Check, Ask, Judge, Decide, AuthTypeOK, answers, history
    <3>2. Waits(q)' <=> Waits(q)
      BY <3>1 DEF Waits
    <3> QED
      BY <2>1, <2>3, <3>1, <3>2 DEF Judged, Tracked, Supports, Decided, process
  <2>5. Judged(r)'
    <3>1. CASE Send(r)
      <4>1. /\ pc[r] = "new" /\ pc'[r] = "check" /\ verdict'[r] = verdict[r]
            /\ Entitled(r) => r \in once'
            /\ r \in always' => Entitled(r) \/ r \in always
        BY <3>1 DEF Send, AuthTypeOK, answers
      <4>2. verdict[r] = "none"
        BY <4>1 DEF Judged, Decided
      <4>3. ~Entitled(r) => r \notin always'
        BY <3>1, <4>1 DEF Send, Judged
      <4> QED
        BY <2>1, <2>3, <4>1, <4>2, <4>3 DEF Judged, Tracked, Supports, Decided, process
    <3>2. CASE Check(r)
      <4>1. pc[r] = "check" /\ UNCHANGED <<resp, once, always>> /\ Waits(r)
        BY <3>2 DEF Check, history, Waits
      <4>2. CASE OrgFits(r)
        <5>1. pc'[r] = "ask" /\ verdict'[r] = verdict[r]
          BY <3>2, <4>2 DEF Check, OrgFits, AuthTypeOK
        <5>2. verdict[r] = "none"
          BY <4>1 DEF Judged, Decided
        <5> QED
          BY <2>1, <2>3, <4>1, <4>2, <5>1, <5>2 DEF Judged, Tracked, Supports, Decided, process
      <4>3. CASE ~OrgFits(r)
        <5>1. pc'[r] = "done" /\ verdict'[r] = "denied"
          BY <3>2, <4>3 DEF Check, OrgFits, Decide, AuthTypeOK
        <5>2. ~Entitled(r)
          BY <4>3, OrgsAssumption DEF OrgFits, Entitled, EntitledIn, ValidIn
        <5>3. r \notin always
          BY <4>1, <5>2 DEF Judged, Tracked
        <5> QED
          BY <4>1, <5>1, <5>3 DEF Judged, Tracked, Supports, Decided, Waits
      <4> QED
        BY <4>2, <4>3
    <3>3. CASE Ask(r)
      <4>1. /\ pc[r] = "ask" /\ UNCHANGED <<verdict, once, always>> /\ Waits(r)
            /\ pc'[r] = "judge" /\ resp'[r] \in MayAnswer(r)
        BY <3>3 DEF Ask, history, Waits, AuthTypeOK
      <4>2. OrgFits(r) /\ verdict[r] = "none"
        BY <4>1 DEF Judged, Decided
      <4>3. Tracked(r)'
        BY <2>1, <2>3, <4>1 DEF Judged, Tracked, process
      <4>4. resp'[r] \in Roles => ValidIn(r, role, key)
                                  /\ resp'[r] = role[cred[r].org][cred[r].user]
        BY <4>1 DEF MayAnswer, Roles
      <4>5. resp'[r] = "unauthorized" => ~ValidIn(r, role, key)
        BY <4>1, AnswerType DEF MayAnswer, AuthTypeOK, ValidIn, Creds, Roles
      <4>6. resp'[r] = "tls" => ~Trusted
        BY <4>1 DEF MayAnswer, AuthTypeOK, ValidIn, Creds, Roles
      <4>7. resp'[r] \in Roles /\ (IsRoot(r) \/ resp'[r] = "user") => Entitled(r)
        BY <4>2, <4>4 DEF Entitled, EntitledIn, OrgFits
      <4>8. resp'[r] = "unauthorized" \/ (resp'[r] = "hubAdmin" /\ ~IsRoot(r)) => ~Entitled(r)
        BY <4>4, <4>5 DEF Entitled, EntitledIn, Roles
      <4>9. Supports(r)'
        BY <2>1, <2>3, <4>1, <4>6, <4>7, <4>8
           DEF Supports, Judged, Tracked, TrustedUnlessRotated
      <4> QED
        BY <2>3, <4>1, <4>2, <4>3, <4>9 DEF Judged, Decided
    <3>4. CASE Judge(r)
      <4>1. pc[r] = "judge" /\ pc'[r] = "done" /\ UNCHANGED <<once, always>>
        BY <3>4 DEF Judge, Decide, history, AuthTypeOK
      <4>2. /\ verdict'[r] = "admitted" =>
                  resp[r] \in Roles /\ (IsRoot(r) \/ resp[r] = "user")
            /\ verdict'[r] = "denied" =>
                  resp[r] = "unauthorized" \/ (resp[r] = "hubAdmin" /\ ~IsRoot(r))
        BY <3>4 DEF Judge, Decide, AuthTypeOK
      <4> QED
        BY <4>1, <4>2 DEF Judged, Tracked, Supports, Decided, Waits
    <3> QED
      BY <1>5, <3>1, <3>2, <3>3, <3>4
  <2> QED
    BY <2>2, <2>4, <2>5
<1>6. CASE UNCHANGED vars
  BY <1>6 DEF vars, exchange, process, inputs, answers, history, TrustedUnlessRotated, Trusted,
              Trusts, Judged, Tracked, Supports, Decided, Waits, OrgFits, IsRoot, Entitled,
              EntitledIn, ValidIn
<1> QED
  BY <1>1, <1>2, <1>3, <1>4, <1>5, <1>6 DEF Next, Idle

LEMMA InvHolds == Spec => []IInv
<1>1. Init => AuthTypeOK /\ IInv
  BY InitType, InitInv
<1>2. AuthTypeOK /\ IInv /\ [Next]_vars => (AuthTypeOK /\ IInv)'
  BY NextType, NextInv
<1> QED
  BY <1>1, <1>2, PTL DEF Spec

\* Nobody is admitted on an answer the exchange did not give while the request was waiting.
THEOREM AdmittedOnlyEntitled == Spec => []AdmittedWasEntitled
<1>1. IInv => AdmittedWasEntitled
  BY DEF IInv, Judged, Decided, AdmittedWasEntitled
<1> QED
  BY <1>1, InvHolds, PTL

\* Who is entitled all the while is never told that he is not.
THEOREM EntitledNeverDenied == Spec => []EntitledIsNotDenied
<1>1. IInv => EntitledIsNotDenied
  BY DEF IInv, Judged, Decided, EntitledIsNotDenied
<1> QED
  BY <1>1, InvHolds, PTL

\* The one client fails a request only after the exchange changed its certificate.
THEOREM TlsFailuresExplained == Spec => []TlsFailsOnlyAfterRotation
<1>1. IInv => TlsFailsOnlyAfterRotation
  BY DEF IInv, Judged, Supports, TlsFailsOnlyAfterRotation
<1> QED
  BY <1>1, InvHolds, PTL

----------------------------------------------------------------------------
(***************************************************************************)
(* ExchangeAuth implements Admission: the instant is that of Ask, or of a  *)
(* Check that does not ask.                                                *)
(***************************************************************************)
Holders  == {r \in Requests : Entitled(r)}
InWait   == {r \in Requests : Waits(r)}
Opinions == [r \in Requests |-> Opinion(r)]

\* A request that was not sent to the exchange has no answer of it.
Unasked == \A r \in Requests : pc[r] \in {"new", "check", "ask"} => resp[r] = "none"

LEMMA NextUnasked == AuthTypeOK /\ Unasked /\ [Next]_vars => Unasked'
<1> SUFFICES ASSUME AuthTypeOK, Unasked, [Next]_vars PROVE Unasked'
  OBVIOUS
<1>1. ASSUME \/ \E o \in Orgs, n \in Names : ChangeAccount(o, n)
             \/ Rotate \/ ReplaceFile \/ Start \/ UNCHANGED vars
      PROVE  UNCHANGED <<pc, resp>>
  BY <1>1 DEF ChangeAccount, Rotate, ReplaceFile, Start, vars, answers
<1>2. CASE Die
  BY <1>2 DEF Die, Unasked
<1>3. ASSUME NEW r \in Requests, Send(r) \/ Check(r) \/ Ask(r) \/ Judge(r)
      PROVE  Unasked'
  BY <1>3 DEF Send, Check, Ask, Judge, Decide, AuthTypeOK, Unasked, answers
<1> QED
  BY <1>1, <1>2, <1>3 DEF Next, Idle, Unasked

\* What an answer tells of a request whose organisation fits is what is true of it.
LEMMA OpinionIsTrue ==
    ASSUME AuthTypeOK, NEW r \in Requests, OrgFits(r), NEW a \in MayAnswer(r)
    PROVE  /\ a \in Roles /\ (IsRoot(r) \/ a = "user") => Entitled(r)
           /\ a = "unauthorized" \/ (a = "hubAdmin" /\ ~IsRoot(r)) => ~Entitled(r)
<1>1. a \in Roles => ValidIn(r, role, key) /\ a = role[cred[r].org][cred[r].user]
  BY DEF MayAnswer, Roles
<1>2. a = "unauthorized" => ~ValidIn(r, role, key)
  BY AnswerType DEF MayAnswer, AuthTypeOK, ValidIn, Creds, Roles
<1> QED
  BY <1>1, <1>2 DEF Entitled, EntitledIn, OrgFits, Roles

\* A step that leaves the requests alone moves, at most, who is entitled.
LEMMA OthersOnly ==
    ASSUME UNCHANGED <<inputs, pc, resp, verdict>>
    PROVE  [Judgement!Next]_(Judgement!vars)
<1>1. InWait' = InWait
  BY DEF InWait, Waits
<1>2. Opinions' = Opinions
  <2>1. \A r \in Requests : Opinion(r)' = Opinion(r)
    BY DEF Opinion, IsRoot, inputs
  <2> QED
    BY <2>1 DEF Opinions
<1>3. Holders' \in SUBSET Requests
  BY DEF Holders
<1>4. Judgement!Change
  BY <1>1, <1>2, <1>3 DEF Judgement!Change, InWait, Opinions, Holders
<1> QED
  BY <1>4 DEF Judgement!Next

LEMMA NextJudges == AuthTypeOK /\ IInv /\ Unasked /\ [Next]_vars => [Judgement!Next]_(Judgement!vars)
<1> SUFFICES ASSUME AuthTypeOK, IInv, Unasked, [Next]_vars PROVE [Judgement!Next]_(Judgement!vars)
  OBVIOUS
<1>1. ASSUME \/ \E o \in Orgs, n \in Names : ChangeAccount(o, n)
             \/ Rotate \/ ReplaceFile \/ Start \/ UNCHANGED vars
      PROVE  UNCHANGED <<inputs, pc, resp, verdict>>
  BY <1>1 DEF ChangeAccount, Rotate, ReplaceFile, Start, vars, answers
<1>2. CASE Die
  <2>1. Holders' = Holders
    BY <1>2 DEF Die, Holders, Entitled, EntitledIn, ValidIn, IsRoot, exchange, inputs
  <2>2. Opinions' = Opinions
    <3>1. \A r \in Requests : Opinion(r)' = Opinion(r)
      BY <1>2 DEF Die, Opinion, IsRoot, inputs
    <3> QED
      BY <3>1 DEF Opinions
  <2>3. InWait' = {}
    BY <1>2 DEF Die, InWait, Waits
  <2>4. verdict' = [r \in Requests |-> IF r \in InWait THEN "lost" ELSE verdict[r]]
    BY <1>2 DEF Die, InWait
  <2>5. Judgement!LoseAll
    BY <2>1, <2>2, <2>3, <2>4 DEF Judgement!LoseAll, Holders, Opinions, InWait
  <2> QED
    BY <2>5 DEF Judgement!Next
<1>3. ASSUME NEW r \in Requests, Send(r) \/ Check(r) \/ Ask(r) \/ Judge(r)
      PROVE  [Judgement!Next]_(Judgement!vars)
  <2>1. /\ UNCHANGED <<exchange, inputs>>
        /\ \A q \in Requests : q # r => pc'[q] = pc[q] /\ resp'[q] = resp[q]
    BY <1>3 DEF Send, Check, Ask, Judge, Decide, AuthTypeOK, answers
  <2>2. Holders' = Holders
    BY <2>1 DEF Holders, Entitled, EntitledIn, ValidIn, IsRoot, exchange, inputs
  <2>3. \A q \in Requests : q # r => /\ Opinion(q)' = Opinion(q)
                                     /\ Waits(q)' <=> Waits(q)
    BY <2>1 DEF Opinion, IsRoot, Waits, inputs
  <2>4. resp'[r] = resp[r] => Opinions' = Opinions
    <3> SUFFICES ASSUME resp'[r] = resp[r] PROVE \A q \in Requests : Opinion(q)' = Opinion(q)
      BY DEF Opinions
    <3> QED
      BY <2>1, <2>3 DEF Opinion, IsRoot, inputs
  <2>5. ASSUME pc[r] \in {"check", "ask", "judge"}, pc'[r] \in {"check", "ask", "judge"}
        PROVE  InWait' = InWait
    BY <2>3, <2>5 DEF InWait, Waits
  <2>6. ASSUME pc'[r] = "done"
        PROVE  InWait' = InWait \ {r}
    BY <2>3, <2>6 DEF InWait, Waits
  <2>7. Judged(r) /\ TrustedUnlessRotated
    BY DEF IInv
  <2>8. CASE Send(r)
    <3>1. pc[r] = "new" /\ pc'[r] = "check" /\ resp'[r] = resp[r] /\ verdict' = verdict
      BY <2>8 DEF Send, AuthTypeOK, answers
    <3>2. InWait' = InWait \cup {r} /\ r \notin InWait
      BY <2>3, <3>1 DEF InWait, Waits
    <3>3. verdict[r] = "none"
      BY <2>7, <3>1 DEF Judged, Decided
    <3>4. Judgement!Arrive(r)
      BY <2>2, <2>4, <3>1, <3>2, <3>3 DEF Judgement!Arrive, Holders, Opinions, InWait
    <3> QED
      BY <3>4 DEF Judgement!Next
  <2>9. CASE Check(r) /\ ~OrgFits(r)
    <3>1. /\ pc[r] = "check" /\ pc'[r] = "done" /\ resp'[r] = resp[r]
          /\ verdict' = [verdict EXCEPT ![r] = "denied"]
      BY <2>9 DEF Check, OrgFits, Decide, AuthTypeOK
    <3>2. r \notin Holders
      BY <2>9, OrgsAssumption DEF Holders, OrgFits, Entitled, EntitledIn, ValidIn
    <3>3. Opinions[r] = "none"
      BY <3>1 DEF Unasked, Opinions, Opinion, Roles
    <3>4. r \in InWait
      BY <3>1 DEF InWait, Waits
    <3>5. Judgement!Deny(r)
      BY <2>2, <2>4, <2>6, <3>1, <3>2, <3>3, <3>4
         DEF Judgement!Deny, Judgement!Tell, Holders, Opinions, InWait
    <3> QED
      BY <3>5 DEF Judgement!Next
  <2>10. CASE Check(r) /\ OrgFits(r)
    <3>1. pc[r] = "check" /\ pc'[r] = "ask" /\ resp'[r] = resp[r] /\ verdict' = verdict
      BY <2>10 DEF Check, OrgFits, AuthTypeOK
    <3> QED
      BY <2>2, <2>4, <2>5, <3>1 DEF Judgement!vars, Holders, Opinions, InWait
  <2>11. CASE Ask(r)
    <3>1. /\ pc[r] = "ask" /\ pc'[r] = "judge" /\ verdict' = verdict
          /\ resp'[r] \in MayAnswer(r)
      BY <2>11 DEF Ask, AuthTypeOK
    <3>2. OrgFits(r) /\ r \in InWait /\ resp[r] = "none"
      BY <2>7, <3>1 DEF Judged, InWait, Waits, Unasked
    <3>3. Opinions[r] = "none"
      BY <3>2 DEF Opinions, Opinion, Roles
    <3>4. Opinions' = [Opinions EXCEPT ![r] = Opinion(r)']
      BY <2>3 DEF Opinions
    <3>5. Opinion(r)' \in {"none", IF r \in Holders THEN "yes" ELSE "no"}
      <4>1. IsRoot(r)' <=> IsRoot(r)
        BY <2>1 DEF IsRoot, inputs
      <4>2. CASE resp'[r] \in Roles /\ (IsRoot(r) \/ resp'[r] = "user")
        BY <3>1, <3>2, <4>1, <4>2, OpinionIsTrue DEF Opinion, Holders
      <4>3. CASE resp'[r] = "unauthorized" \/ (resp'[r] = "hubAdmin" /\ ~IsRoot(r))
        BY <3>1, <3>2, <4>1, <4>3, OpinionIsTrue DEF Opinion, Holders, Roles
      <4> QED
        BY <4>1, <4>2, <4>3 DEF Opinion, Roles
    <3>6. CASE Opinion(r)' = "none"
      <4>1. Opinions' = Opinions
        BY <3>3, <3>4, <3>6 DEF Opinions
      <4> QED
        BY <2>2, <2>5, <3>1, <4>1 DEF Judgement!vars, Holders, Opinions, InWait
    <3>7. CASE Opinion(r)' # "none"
      <4>1. Judgement!Look(r)
        BY <2>2, <2>5, <3>1, <3>2, <3>3, <3>4, <3>5, <3>7
           DEF Judgement!Look, Holders, Opinions, InWait
      <4> QED
        BY <4>1 DEF Judgement!Next
    <3> QED
      BY <3>6, <3>7
  <2>12. CASE Judge(r)
    <3>1. pc[r] = "judge" /\ pc'[r] = "done" /\ resp'[r] = resp[r] /\ r \in InWait
      BY <2>12 DEF Judge, Decide, AuthTypeOK, InWait, Waits
    <3>2. \/ Opinions[r] = "yes" /\ Decide(r, "admitted")
          \/ Opinions[r] = "no" /\ Decide(r, "denied")
          \/ Decide(r, "error")
      BY <2>12 DEF Judge, Opinions, Opinion, Roles
    <3>3. Judgement!Admit(r) \/ Judgement!Deny(r) \/ Judgement!Fail(r)
      BY <2>2, <2>4, <2>6, <3>1, <3>2
         DEF Judgement!Admit, Judgement!Deny, Judgement!Fail, Judgement!Tell, Decide,
             Holders, Opinions, InWait
    <3> QED
      BY <3>3 DEF Judgement!Next
  <2> QED
    BY <1>3, <2>8, <2>9, <2>10, <2>11, <2>12
<1> QED
  BY <1>1, <1>2, <1>3, OthersOnly DEF Next, Idle

\* Every verdict is what was true of the request at one instant of its wait, for any number
\* of requests and of changes at the exchange.
THEOREM AuthImplementsAdmission == Spec => JudgedAtOneInstant
<1>1. Init => AuthTypeOK /\ IInv /\ Unasked
  BY InitType, InitInv DEF Init, Unasked
<1>2. AuthTypeOK /\ IInv /\ Unasked /\ [Next]_vars => (AuthTypeOK /\ IInv /\ Unasked)'
  BY NextType, NextInv, NextUnasked
<1>3. Init => Judgement!Init
  <2> SUFFICES ASSUME Init PROVE Judgement!Init
    OBVIOUS
  <2>1. InWait = {} /\ Opinions = [r \in Requests |-> "none"] /\ Holders \subseteq Requests
    BY DEF Init, InWait, Waits, Opinions, Opinion, Holders, Roles
  <2> QED
    BY <2>1 DEF Init, Judgement!Init, InWait, Opinions, Holders
<1>4. AuthTypeOK /\ IInv /\ Unasked /\ [Next]_vars => [Judgement!Next]_(Judgement!vars)
  BY NextJudges
<1> QED
  BY <1>1, <1>2, <1>3, <1>4, PTL DEF Spec, JudgedAtOneInstant, Judgement!Spec
=============================================================================
