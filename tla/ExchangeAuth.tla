---------------------------- MODULE ExchangeAuth ----------------------------
(***************************************************************************)
(* Who is admitted: ExchangeAuthenticate and the HTTP client it shares     *)
(* with all requests (src/ocs-api/outils/outils.go).                       *)
(*                                                                         *)
(* The exchange is another program, whose accounts change while a request  *)
(* waits for its answer, and whose TLS certificate may be replaced, as may *)
(* the file ocs-api was given to trust.  The client is built once, by      *)
(* VerifyExchangeConnection before the server listens; GetHTTPClient hands *)
(* it to every handler, whatever path it is called with.                   *)
(***************************************************************************)
EXTENDS Naturals

CONSTANTS
    Requests,    \* requests with credentials, on any route but version
    Orgs,        \* organisations of the exchange
    Names,       \* user names
    RootOrg,     \* "root", an organisation
    RootName,    \* "root", a user name
    NoOrg,       \* no organisation: no usable basic auth, or a route to an unknown one
    Passwords,   \* passwords and API keys
    Certs,       \* certificates of the exchange that have to be trusted by file
    Public,      \* one that is signed by a well-known authority
    NoCert,      \* there is no certificate file
    AnyCert,     \* what HZN_SSL_SKIP_VERIFY makes the client trust
    MaxStarts,   \* bound: how often the process starts
    MaxChanges   \* bound: how often the exchange, or the file, changes

ASSUME OrgsAssumption == RootOrg \in Orgs /\ RootName \in Names /\ NoOrg \notin Orgs
ASSUME CertsAssumption ==
    /\ Public \notin Certs
    /\ NoCert \notin Certs \cup {Public, AnyCert}
    /\ AnyCert \notin Certs \cup {Public}
ASSUME AuthBoundsAssumption == MaxStarts \in Nat /\ MaxChanges \in Nat

VARIABLES
    role,      \* exchange: what each account is, or "none"
    key,       \* exchange: its password
    exCert,    \* exchange: its certificate
    changes,   \* how often any of these, or the file, changed
    file,      \* the certificate file, as it is now
    trust,     \* HttpClient: what the one client trusts
    up,        \* does the process serve?
    starts,    \* how often it was started
    cred,      \* the credentials of each request (fixed by the client)
    deviceOrg, \* the organisation in its route (fixed by the client)
    pc,        \* where ExchangeAuthenticate is, for each request
    resp,      \* what the exchange answered it
    verdict,   \* what the handler is told
    once,      \* history: requests entitled at some moment since they arrived
    always,    \* history: requests entitled at every moment since they arrived
    rotated    \* history: the exchange changed its certificate in this start

exchange == <<role, key, exCert, changes>>
process  == <<file, trust, up, starts>>
inputs   == <<cred, deviceOrg>>
answers  == <<resp, verdict>>
history  == <<once, always, rotated>>
vars     == <<exchange, process, inputs, pc, answers, history>>

Roles    == {"user", "hubAdmin"}
Verdicts == {"admitted", "denied", "error", "lost"}
Answers  == Roles \cup {"unauthorized", "other", "tls"}
Creds    == [org : Orgs \cup {NoOrg}, user : Names, password : Passwords]

IsRoot(r) == cred[r].org = RootOrg /\ cred[r].user = RootName
Waits(r)  == pc[r] \in {"check", "ask", "judge"}

\* The exchange: are these the credentials of an account, with these roles and keys?
ValidIn(r, roles, keys) ==
    /\ cred[r].org \in Orgs
    /\ roles[cred[r].org][cred[r].user] # "none"
    /\ keys[cred[r].org][cred[r].user] = cred[r].password

\* Who may use a route, by the comments at outils.go:377, 392 and 453: the exchange's root
\* user any, the users of an organisation those of it, hub administrators none.
EntitledIn(r, roles, keys) ==
    /\ ValidIn(r, roles, keys)
    /\ \/ IsRoot(r)
       \/ cred[r].org = deviceOrg[r] /\ roles[cred[r].org][cred[r].user] = "user"

Entitled(r) == EntitledIn(r, role, key)

----------------------------------------------------------------------------
Init ==
    /\ role = [o \in Orgs |-> [n \in Names |->
                 IF o = RootOrg /\ n = RootName THEN "user" ELSE "none"]]
    /\ \E k \in Passwords : key = [o \in Orgs |-> [n \in Names |-> k]]
    /\ exCert \in Certs \cup {Public}
    /\ changes = 0
    /\ file \in Certs \cup {NoCert}
    /\ trust = NoCert
    /\ up = FALSE
    /\ starts = 0
    /\ cred \in [Requests -> Creds]
    /\ deviceOrg \in [Requests -> Orgs \cup {NoOrg}]
    /\ pc = [r \in Requests |-> "new"]
    /\ resp = [r \in Requests |-> "none"]
    /\ verdict = [r \in Requests |-> "none"]
    /\ once = {}
    /\ always = {}
    /\ rotated = FALSE

----------------------------------------------------------------------------
(***************************************************************************)
(* The exchange and the file change.                                       *)
(***************************************************************************)
Change == changes < MaxChanges /\ changes' = changes + 1

\* An account is created or deleted, or its role or password changes.
ChangeAccount(o, n) ==
    /\ Change
    /\ \E s \in Roles \cup {"none"}, k \in Passwords :
          /\ role' = [role EXCEPT ![o][n] = s]
          /\ key' = [key EXCEPT ![o][n] = k]
    /\ once' = once \cup {r \in Requests : Waits(r) /\ EntitledIn(r, role', key')}
    /\ always' = {r \in always : Waits(r) => EntitledIn(r, role', key')}
    /\ UNCHANGED <<exCert, process, inputs, pc, answers, rotated>>

Rotate ==
    /\ Change
    /\ exCert' \in (Certs \cup {Public}) \ {exCert}
    /\ rotated' = TRUE
    /\ UNCHANGED <<role, key, process, inputs, pc, answers, once, always>>

ReplaceFile ==
    /\ Change
    /\ file' \in Certs \cup {NoCert}
    /\ UNCHANGED <<role, key, exCert, trust, up, starts, inputs, pc, answers, history>>

----------------------------------------------------------------------------
(***************************************************************************)
(* The process.                                                            *)
(***************************************************************************)
\* TrustIcpCert: without a path the authorities of the system are trusted, with one nothing
\* but its certificate.
Pool(c)      == IF c = NoCert THEN Public ELSE c
Trusts(t, c) == t \in {c, AnyCert}
Trusted      == Trusts(trust, exCert)

\* EXCHANGE_INTERNAL_CERT, if it is set, is written to the file; the client is built from
\* the file, and used to get the version of the exchange; then the server listens, or
\* the process ends.
Start ==
    /\ ~up
    /\ starts < MaxStarts
    /\ starts' = starts + 1
    /\ file' \in {file} \cup Certs
    /\ trust' \in {Pool(file'), AnyCert}
    /\ up' \in {FALSE, Trusts(trust', exCert)}
    /\ rotated' = FALSE
    /\ UNCHANGED <<exchange, inputs, pc, answers, once, always>>

Die ==
    /\ up
    /\ up' = FALSE
    /\ pc' = [r \in Requests |-> IF Waits(r) THEN "done" ELSE pc[r]]
    /\ verdict' = [r \in Requests |-> IF Waits(r) THEN "lost" ELSE verdict[r]]
    /\ UNCHANGED <<exchange, file, trust, starts, inputs, resp, history>>

----------------------------------------------------------------------------
(***************************************************************************)
(* ExchangeAuthenticate.                                                   *)
(***************************************************************************)
Send(r) ==
    /\ up
    /\ pc[r] = "new"
    /\ pc' = [pc EXCEPT ![r] = "check"]
    /\ once' = IF Entitled(r) THEN once \cup {r} ELSE once
    /\ always' = IF Entitled(r) THEN always \cup {r} ELSE always
    /\ UNCHANGED <<exchange, process, inputs, answers, rotated>>

Decide(r, v) ==
    /\ pc' = [pc EXCEPT ![r] = "done"]
    /\ verdict' = [verdict EXCEPT ![r] = v]

\* Mutant: the root user has to be in the organisation as well.
CheckSameOrg(r) ==
    /\ up
    /\ pc[r] = "check"
    /\ IF cred[r].org # NoOrg /\ cred[r].org = deviceOrg[r]
       THEN pc' = [pc EXCEPT ![r] = "ask"] /\ UNCHANGED verdict
       ELSE Decide(r, "denied")
    /\ UNCHANGED <<exchange, process, inputs, resp, history>>

\* Without basic auth, or with that of another organisation, the exchange is not asked.
Check(r) ==
    /\ up
    /\ pc[r] = "check"
    /\ IF cred[r].org # NoOrg /\ (IsRoot(r) \/ cred[r].org = deviceOrg[r])
       THEN pc' = [pc EXCEPT ![r] = "ask"] /\ UNCHANGED verdict
       ELSE Decide(r, "denied")
    /\ UNCHANGED <<exchange, process, inputs, resp, history>>

\* What the exchange may answer now; "other" is any other status and no answer at all.
MayAnswer(r) ==
    IF ~Trusted THEN {"tls"}
    ELSE {"other"} \cup (IF ValidIn(r, role, key)
                         THEN {role[cred[r].org][cred[r].user]} ELSE {"unauthorized"})

\* Mutant: the client is built anew for every request.
AskWithNewClient(r) ==
    /\ up
    /\ pc[r] = "ask"
    /\ trust' = Pool(file)
    /\ \E a \in IF Trusts(trust', exCert) THEN MayAnswer(r) \ {"tls"} ELSE {"tls"} :
          resp' = [resp EXCEPT ![r] = a]
    /\ pc' = [pc EXCEPT ![r] = "judge"]
    /\ UNCHANGED <<exchange, file, up, starts, inputs, verdict, history>>

Ask(r) ==
    /\ up
    /\ pc[r] = "ask"
    /\ \E a \in MayAnswer(r) : resp' = [resp EXCEPT ![r] = a]
    /\ pc' = [pc EXCEPT ![r] = "judge"]
    /\ UNCHANGED <<exchange, process, inputs, verdict, history>>

\* Mutant: the users in the answer are not looked at.
JudgeByStatus(r) ==
    /\ up
    /\ pc[r] = "judge"
    /\ \/ resp[r] \in Roles /\ Decide(r, "admitted")
       \/ resp[r] = "unauthorized" /\ Decide(r, "denied")
       \/ resp[r] \in {"other", "tls"} /\ Decide(r, "error")
    /\ UNCHANGED <<exchange, process, inputs, resp, history>>

\* Mutant: a status that is not expected is handed on as it is.
JudgeHandsOn(r) ==
    /\ up
    /\ pc[r] = "judge"
    /\ Decide(r, IF resp[r] = "user" THEN "admitted" ELSE resp[r])
    /\ UNCHANGED <<exchange, process, inputs, resp, history>>

\* Mutant: one call confirms the credentials, another one asks for the role.
JudgeInTwoCalls(r) ==
    /\ up
    /\ pc[r] = "judge"
    /\ LET now == role[cred[r].org][cred[r].user]
       IN  \/ resp[r] \in Roles /\ (IsRoot(r) \/ now = "user") /\ Decide(r, "admitted")
           \/ resp[r] \in Roles /\ ~IsRoot(r) /\ now # "user" /\ Decide(r, "denied")
           \/ resp[r] = "unauthorized" /\ Decide(r, "denied")
           \/ resp[r] \in {"other", "tls"} /\ Decide(r, "error")
    /\ UNCHANGED <<exchange, process, inputs, resp, history>>

\* The body is not read for the root user, and may fail to be read for the others.
Judge(r) ==
    /\ up
    /\ pc[r] = "judge"
    /\ \/ resp[r] \in Roles /\ (IsRoot(r) \/ resp[r] = "user") /\ Decide(r, "admitted")
       \/ resp[r] = "hubAdmin" /\ ~IsRoot(r) /\ Decide(r, "denied")
       \/ resp[r] = "unauthorized" /\ Decide(r, "denied")
       \/ resp[r] \in {"other", "tls"} \cup (IF IsRoot(r) THEN {} ELSE Roles)
          /\ Decide(r, "error")
    /\ UNCHANGED <<exchange, process, inputs, resp, history>>

\* Every request of this behaviour is decided, or the process stays down.
Idle ==
    /\ \/ ~up /\ starts = MaxStarts
       \/ \A r \in Requests : pc[r] = "done"
    /\ UNCHANGED vars

Next ==
    \/ \E o \in Orgs, n \in Names : ChangeAccount(o, n)
    \/ Rotate \/ ReplaceFile
    \/ Start \/ Die
    \/ \E r \in Requests : Send(r) \/ Check(r) \/ Ask(r) \/ Judge(r)
    \/ Idle

Spec == Init /\ [][Next]_vars

----------------------------------------------------------------------------
\* Type invariant.
AuthTypeOK ==
    /\ role \in [Orgs -> [Names -> Roles \cup {"none"}]]
    /\ key \in [Orgs -> [Names -> Passwords]]
    /\ exCert \in Certs \cup {Public}
    /\ changes \in 0 .. MaxChanges
    /\ file \in Certs \cup {NoCert}
    /\ trust \in Certs \cup {Public, NoCert, AnyCert}
    /\ up \in BOOLEAN
    /\ starts \in 0 .. MaxStarts
    /\ cred \in [Requests -> Creds]
    /\ deviceOrg \in [Requests -> Orgs \cup {NoOrg}]
    /\ pc \in [Requests -> {"new", "check", "ask", "judge", "done"}]
    /\ resp \in [Requests -> Answers \cup {"none"}]
    /\ verdict \in [Requests -> Verdicts \cup {"none"}]
    /\ once \subseteq Requests
    /\ always \subseteq Requests
    /\ rotated \in BOOLEAN

\* Nobody is admitted who was not entitled at some moment between the arrival of the request
\* and the verdict, whatever happens to the account meanwhile (outils.go:376, 394, 452): not
\* a user of another organisation, a hub administrator, a deleted or a re-keyed account.
AdmittedWasEntitled == \A r \in Requests : verdict[r] = "admitted" => r \in once

\* Nobody who is entitled all the time is told that his credentials are wrong: while the
\* exchange does not answer, answers oddly or is not trusted, he gets an error
\* (outils.go:395, 431, 460-463).
EntitledIsNotDenied == \A r \in Requests : verdict[r] = "denied" => r \notin always

\* The one client trusts what the file said at this start (outils.go:469): requests fail for
\* the certificate only if the exchange has changed its own since, never because the file
\* was replaced or removed under the running server.
TlsFailsOnlyAfterRotation ==
    \A r \in Requests : pc[r] = "judge" /\ resp[r] = "tls" => rotated

----------------------------------------------------------------------------
\* What the answer a handler holds says of the request.
Opinion(r) ==
    IF resp[r] \in Roles /\ (IsRoot(r) \/ resp[r] = "user") THEN "yes"
    ELSE IF resp[r] \in {"unauthorized", "hubAdmin"} THEN "no" ELSE "none"

Judgement == INSTANCE Admission WITH
    entitled <- {r \in Requests : Entitled(r)},
    waiting  <- {r \in Requests : Waits(r)},
    opinion  <- [r \in Requests |-> Opinion(r)],
    told     <- verdict

\* A request is admitted or denied by what was true of it at one instant of its wait, though
\* the organisation, the name, the status and the body are looked at one after the other
\* (outils.go:376, 394, 431, 452) while accounts change.
JudgedAtOneInstant == Judgement!Spec
=============================================================================
