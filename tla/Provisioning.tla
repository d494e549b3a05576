---------------------------- MODULE Provisioning ----------------------------
(***************************************************************************)
(* Everybody who writes to the one FDO Owner Service, and the devices that *)
(* live from it: the voucher routes (OcsVouchers), the forwarding routes   *)
(* of src/ocs-api/main.go by which an administrator reads and replaces     *)
(* what all devices share, every start of the process, which posts that    *)
(* again, and the device, which onboards and runs                          *)
(* src/ocs-api/scripts/agent-install-wrapper.sh.                           *)
(*                                                                         *)
(* The redirect and the resources that are not a device's have one name    *)
(* each, and are the writer who stored them last: a start of the process   *)
(* or a POST.  No call to the Owner Service has a timeout, and none is set *)
(* on the server, so any call may hang, and any client may keep the rest   *)
(* of its request.  Administrators leave the resources named <uuid>_exec   *)
(* alone.                                                                  *)
(***************************************************************************)
EXTENDS OcsVouchers

CONSTANTS
    Posts,      \* POST .../fdo/{redirect, resource/<name>, svi} requests
    Reads,      \* GET  .../fdo/{redirect, resource/<name>, certificate/<alias>, version} requests
    To0s,       \* GET  .../fdo/to0/{uuid} requests
    Scripts,    \* resources of administrators, for service infos of their own
    Topics,     \* bound: what the posts and reads are about
    MaxStarts,  \* bound: how often the process starts
    MaxHangs,   \* bound: how often a request is kept waiting
    Nobody      \* no writer: the Owner Service does not have it yet

Calls     == Posts \cup Reads \cup To0s
Starts    == 1 .. MaxStarts
Common    == {"crt", "cfg", "wrapper"}  \* agent-install.crt, .cfg and -wrapper.sh
Resources == Common \cup Scripts
Shared    == {"redirect"} \cup Resources
Unstored  == {"certificate", "version"} \* what no route and no start writes

ASSUME CallsAssumption ==
    /\ Posts \cap (Reads \cup To0s) = {}
    /\ Reads \cap To0s = {}
    /\ Calls \cap Requests = {}
ASSUME NamesAssumption ==
    /\ Scripts \cap ({"redirect", "svi"} \cup Common \cup Unstored) = {}
    /\ Posts \cap Starts = {}
    /\ Nobody \notin Starts \cup Posts
ASSUME ProvBoundsAssumption == MaxStarts \in Nat /\ MaxHangs \in Nat

VARIABLES
    main,      \* where the process is: down, posting one of its resources, verify, serving
    starts,    \* how often it was started
    shared,    \* Owner Service: who stored each shared resource last
    target,    \* what each call is about (fixed by the client)
    at,        \* where the handler of each call is
    reply,     \* HTTP status each of these clients got
    got,       \* what a read brought: a writer, or Nobody for anything else
    hung,      \* requests the Owner Service or their own client keeps waiting
    hangs,     \* how often it did
    rv,        \* devices the Owner Service announced to the rendezvous server (TO0)
    boot,      \* where the onboarding of each device is
    plan,      \* the service info it was given: that of the imports, or another one
    script,    \* the text it was given as setup.sh
    good,      \* history: imports answered 200 whose exec file and service info are in place
    overridden,\* history: those of before the last service info of an administrator
    before,    \* history: imports a device can count on, when it begins
    standing,  \* history: posts stored and answered 200, nobody having stored that since
    seen       \* history: the posts about the same that stood when a call was sent

server   == <<main, starts>>
calls    == <<target, at, reply, got>>
waits    == <<hung, hangs>>
device   == <<rv, boot, plan, script>>
promises == <<good, overridden, before, standing, seen>>
provVars == <<vars, server, shared, calls, waits, device, promises>>

ThenPost == [redirect |-> "crt", crt |-> "cfg", cfg |-> "wrapper", wrapper |-> "verify"]

ProvInit ==
    /\ Init
    /\ main = "down"
    /\ starts = 0
    /\ shared = [n \in Shared |-> Nobody]
    /\ target \in [Calls -> Topics \cup Devices]
    /\ \A c \in Posts : target[c] \in Topics \cap (Shared \cup {"svi"})
    /\ \A c \in Reads : target[c] \in Topics \cap (Shared \cup Unstored)
    /\ \A c \in To0s : target[c] \in Devices
    /\ at = [c \in Calls |-> "new"]
    /\ reply = [c \in Calls |-> "none"]
    /\ got = [c \in Reads |-> Nobody]
    /\ hung = {}
    /\ hangs = 0
    /\ rv = {}
    /\ boot = [d \in Devices |-> "off"]
    /\ plan = [d \in Devices |-> "none"]
    /\ script = [d \in Devices |-> {}]
    /\ good = {}
    /\ overridden = {}
    /\ before = [d \in Devices |-> {}]
    /\ standing = {}
    /\ seen = [c \in Calls |-> {}]

\* Writer w, a start or a post, has its text of n stored; a post has then been answered 200
\* or not.
Store(n, w, answered200) ==
    /\ shared' = [shared EXCEPT ![n] = w]
    /\ standing' = {p \in standing : target[p] # n} \cup (IF answered200 THEN {w} ELSE {})

----------------------------------------------------------------------------
(***************************************************************************)
(* The process: started by an operator, it posts and serves until it dies. *)
(***************************************************************************)
\* Mutant: a start clears the directories of imports that did not come to their exec file.
StartTidiesUp ==
    /\ main = "down"
    /\ starts < MaxStarts
    /\ starts' = starts + 1
    /\ main' = "redirect"
    /\ dirs' = {u \in dirs : disk["exec"][u] # NoFile}
    /\ disk' = [f \in Files |-> [u \in Uuids |->
                  IF disk["exec"][u] # NoFile THEN disk[f][u] ELSE NoFile]]
    /\ UNCHANGED <<owner, inputs, locals, history, pc, answer, crashes,
                   shared, calls, waits, device, promises>>

\* Mutant: the start puts the service info of an administrator back.
StartResetsSvi ==
    /\ main = "down"
    /\ starts < MaxStarts
    /\ starts' = starts + 1
    /\ main' = "redirect"
    /\ CustomSvi
    /\ UNCHANGED <<shared, calls, waits, device, promises>>

\* The same container is started again, or another one in its place (no request is in progress
\* while the process is down).
Start ==
    /\ main = "down"
    /\ starts < MaxStarts
    /\ starts' = starts + 1
    /\ main' = "redirect"
    /\ UNCHANGED vars \/ NewContainer
    /\ UNCHANGED <<shared, calls, waits, device, promises>>

\* Stored, turned down with a status nobody reads, or no answer: then main returns.
StartPost ==
    /\ main \in DOMAIN ThenPost
    /\ Store(main, starts, FALSE) \/ UNCHANGED <<shared, standing>>
    /\ main' \in {ThenPost[main], "down"}
    /\ UNCHANGED <<vars, starts, calls, waits, device, good, overridden, before, seen>>

Verify ==
    /\ main = "verify"
    /\ main' \in {"serving", "down"}
    /\ UNCHANGED <<vars, starts, shared, calls, waits, device, promises>>

InProgress(c) == at[c] \in {"auth", "call"}

\* The process dies; connections are lost, and what waits for the Owner Service with them.
Die ==
    /\ main # "down"
    /\ main' = "down"
    /\ IF \E r \in Requests : Active(r) THEN Crash ELSE UNCHANGED vars
    /\ at' = [c \in Calls |-> IF InProgress(c) THEN "done" ELSE at[c]]
    /\ reply' = [c \in Calls |-> IF InProgress(c) THEN "lost" ELSE reply[c]]
    /\ hung' = {}
    /\ UNCHANGED <<starts, shared, target, got, hangs, device, promises>>

----------------------------------------------------------------------------
(***************************************************************************)
(* The handlers.  Each runs in its own goroutine, without a lock.          *)
(***************************************************************************)
\* Mutant: the handlers take KeyImportLock and hold it for the whole request.
MayRunLocked(p) == main = "serving" /\ hung = {}

\* Mutant: the routes are served while the start still posts.
MayRunEarly(p) == main # "down" /\ p \notin hung

MayRun(p) == main = "serving" /\ p \notin hung

\* History: the imports answered with success, the service info theirs at that moment.
ConfirmedNow(r) ==
    IF r \in Imports /\ answer'[r] = "200" /\ r \in stored /\ svi' THEN {r} ELSE {}

Voucher(r) ==
    /\ MayRun(r)
    /\ Send(r) \/ Handle(r)
    /\ good' = good \cup ConfirmedNow(r)
    /\ UNCHANGED <<server, shared, calls, waits, device, overridden, before, standing, seen>>

\* Where a request waits, without a timeout: for the Owner Service, or for its own body.
Waiting(p) ==
    \/ p \in Calls /\ at[p] = "call"
    \/ p \in Posts /\ at[p] = "auth"
    \/ p \in Requests /\ pc[p] \in {"register", "postExec", "postSvi", "askOwner"}
    \/ p \in Imports /\ pc[p] = "auth"

\* The other end keeps a connection open and sends nothing.
Hang(p) ==
    /\ MayRun(p)
    /\ hangs < MaxHangs
    /\ Waiting(p)
    /\ hung' = hung \cup {p}
    /\ hangs' = hangs + 1
    /\ UNCHANGED <<vars, server, shared, calls, device, promises>>

Release(p) ==
    /\ p \in hung
    /\ hung' = hung \ {p}
    /\ UNCHANGED <<vars, server, shared, calls, hangs, device, promises>>

\* GET version asks for no credentials.
SendCall(c) ==
    /\ MayRun(c)
    /\ at[c] = "new"
    /\ at' = [at EXCEPT ![c] = IF target[c] = "version" THEN "call" ELSE "auth"]
    /\ seen' = [seen EXCEPT ![c] = {p \in standing : target[p] = target[c]}]
    /\ UNCHANGED <<vars, server, shared, target, reply, got, waits, device,
                   good, overridden, before, standing>>

Finish(c, code) ==
    /\ at' = [at EXCEPT ![c] = "done"]
    /\ reply' = [reply EXCEPT ![c] = code]

\* Organisation, credentials, alias of a certificate, content type and body: the first that
\* is wrong ends the request.
AuthCall(c) ==
    /\ MayRun(c)
    /\ at[c] = "auth"
    /\ \/ at' = [at EXCEPT ![c] = "call"] /\ UNCHANGED reply
       \/ Finish(c, "denied")
    /\ UNCHANGED <<vars, server, shared, target, got, waits, device, promises>>

CallOwner(c) ==
    /\ MayRun(c)
    /\ at[c] = "call"

\* POST redirect, POST resource: stored or not; answered 200 whatever the status was, 400
\* without an answer, 500 if its body breaks off.
Forward(c, n) ==
    /\ CallOwner(c)
    /\ \E code \in {"200", "400", "500"} :
          /\ Finish(c, code)
          /\ Store(n, c, code = "200") \/ UNCHANGED <<shared, standing>>
    /\ UNCHANGED <<vars, server, target, got, waits, device, good, overridden, before, seen>>

PostRedirect(c) == target[c] = "redirect" /\ Forward(c, "redirect")

PostResource(c) == \E n \in Resources : target[c] = n /\ Forward(c, n)

PostCustomSvi(c) ==
    /\ target[c] = "svi"
    /\ CallOwner(c)
    /\ \E code \in {"200", "400", "500"} : Finish(c, code)
    /\ \/ CustomSvi /\ overridden' = overridden \cup good
       \/ UNCHANGED <<vars, overridden>>
    /\ UNCHANGED <<server, shared, target, got, waits, device, good, before, standing, seen>>

\* A read brings what is stored, or the text of an error under a 200 as well.
Fetched(c, found200, codes) ==
    /\ CallOwner(c)
    /\ \/ Finish(c, "200") /\ got' = [got EXCEPT ![c] = found200]
       \/ \E code \in codes : Finish(c, code) /\ UNCHANGED got
    /\ UNCHANGED <<vars, server, shared, target, waits, device, promises>>

GetRedirect(c) ==
    /\ target[c] = "redirect"
    /\ \E w \in {shared["redirect"], Nobody} : Fetched(c, w, {"400", "500"})

\* Mutant: the name is that of the wrapper, as in main.
GetResourceMisnamed(c) ==
    \E n \in Resources :
        /\ target[c] = n
        /\ \E w \in {shared["wrapper"], Nobody} : Fetched(c, w, {"400", "500"})

GetResource(c) ==
    \E n \in Resources :
        /\ target[c] = n
        /\ \E w \in {shared[n], Nobody} : Fetched(c, w, {"400", "500"})

\* Mutant: the request itself is sent back, not the answer.
GetPublicKeyEcho(c) == target[c] = "certificate" /\ Fetched(c, c, {"400"})

GetPublicKey(c) == target[c] = "certificate" /\ Fetched(c, Nobody, {"400"})

GetFdoVersion(c) == target[c] = "version" /\ Fetched(c, Nobody, {"400"})

\* The Owner Service announces a device whose voucher it has.
GetTo0(c) ==
    /\ CallOwner(c)
    /\ \/ target[c] \in held /\ rv' = rv \cup {target[c]}
       \/ UNCHANGED rv
    /\ \E code \in {"200", "400", "500"} : Finish(c, code)
    /\ UNCHANGED <<vars, server, shared, target, got, waits, boot, plan, script, promises>>

Call(c) ==
    \/ AuthCall(c)
    \/ c \in Posts /\ (PostRedirect(c) \/ PostResource(c) \/ PostCustomSvi(c))
    \/ c \in Reads /\ (GetRedirect(c) \/ GetResource(c) \/ GetPublicKey(c) \/ GetFdoVersion(c))
    \/ c \in To0s /\ GetTo0(c)

----------------------------------------------------------------------------
(***************************************************************************)
(* A device: TO1 and TO2, then the script it was given.                    *)
(***************************************************************************)
\* The Owner Service starts TO0 by itself when it gets a voucher, or soon after.
AutoTo0(d) ==
    /\ d \in held \ rv
    /\ rv' = rv \cup {d}
    /\ UNCHANGED <<vars, server, shared, calls, waits, boot, plan, script, promises>>

\* It boots, finds its owner, and is given the service info of this moment.
Begin(d) ==
    /\ d \in rv
    /\ boot[d] = "off"
    /\ boot' = [boot EXCEPT ![d] = "onboarding"]
    /\ plan' = [plan EXCEPT ![d] = IF svi THEN "standard" ELSE "other"]
    /\ before' = [before EXCEPT ![d] = {r \in good \ overridden : uuid[r] = d}]
    /\ UNCHANGED <<vars, server, shared, calls, waits, rv, script,
                   good, overridden, standing, seen>>

\* The service info of the imports: the three common files, and $(guid)_exec as setup.sh.
Download(d) ==
    /\ boot[d] = "onboarding"
    /\ plan[d] = "standard"
    /\ resource[d] # NoFile
    /\ \A n \in Common : shared[n] # Nobody
    /\ script' = [script EXCEPT ![d] = resource[d]]
    /\ boot' = [boot EXCEPT ![d] = "downloaded"]
    /\ UNCHANGED <<vars, server, shared, calls, waits, rv, plan, promises>>

\* In the container of the native client the wrapper copies the files out, and is run again.
Wrapper(d) ==
    /\ \/ boot[d] = "downloaded" /\ boot' \in {[boot EXCEPT ![d] = s] : s \in {"copied", "done"}}
       \/ boot[d] = "copied" /\ boot' = [boot EXCEPT ![d] = "done"]
    /\ UNCHANGED <<vars, server, shared, calls, waits, rv, plan, script, promises>>

FollowOther(d) ==
    /\ boot[d] = "onboarding"
    /\ plan[d] = "other"
    /\ boot' = [boot EXCEPT ![d] = "done"]
    /\ script' = [script EXCEPT ![d] = {}]
    /\ UNCHANGED <<vars, server, shared, calls, waits, rv, plan, promises>>

\* A download, an argument or the package is missing; it may be booted again.
Break(d) ==
    /\ boot[d] \in {"onboarding", "downloaded", "copied"}
    /\ boot' = [boot EXCEPT ![d] = "off"]
    /\ UNCHANGED <<vars, server, shared, calls, waits, rv, plan, script, promises>>

Device(d) ==
    AutoTo0(d) \/ Begin(d) \/ Download(d) \/ Wrapper(d) \/ FollowOther(d) \/ Break(d)

----------------------------------------------------------------------------
\* The process is not started again, and every device that could is set up.
Rest == main = "down" /\ starts = MaxStarts /\ UNCHANGED provVars

ProvNext ==
    \/ Start \/ StartPost \/ Verify \/ Die
    \/ \E r \in Requests : Voucher(r)
    \/ \E c \in Calls : SendCall(c) \/ Call(c)
    \/ \E p \in Requests \cup Calls : Hang(p) \/ Release(p)
    \/ \E d \in Devices : Device(d)
    \/ Rest

ProvSpec == ProvInit /\ [][ProvNext]_provVars

\* A goroutine that can take a step is scheduled; a call or a body that is not kept back, and
\* every call to the exchange, whose client has a timeout, comes to an end.
ProvFairness ==
    /\ \A r \in Requests : WF_provVars(pc[r] # "new" /\ Voucher(r))
    /\ \A c \in Calls : WF_provVars(Call(c))

ProvFairSpec == ProvSpec /\ ProvFairness

----------------------------------------------------------------------------
\* Type invariant of what this module adds to OcsVouchers.
ProvTypeOK ==
    /\ main \in {"down", "verify", "serving"} \cup DOMAIN ThenPost
    /\ starts \in 0 .. MaxStarts
    /\ shared \in [Shared -> Starts \cup Posts \cup {Nobody}]
    /\ target \in [Calls -> Topics \cup Devices]
    /\ at \in [Calls -> {"new", "auth", "call", "done"}]
    /\ reply \in [Calls -> Codes \cup {"none"}]
    /\ got \in [Reads -> Starts \cup Posts \cup {Nobody}]
    /\ hung \subseteq Requests \cup Calls
    /\ hangs \in 0 .. MaxHangs
    /\ rv \subseteq Devices
    /\ boot \in [Devices -> {"off", "onboarding", "downloaded", "copied", "done"}]
    /\ plan \in [Devices -> {"none", "standard", "other"}]
    /\ script \in [Devices -> SUBSET Imports]
    /\ overridden \subseteq good
    /\ good \subseteq Imports
    /\ before \in [Devices -> SUBSET Imports]
    /\ standing \subseteq Posts
    /\ seen \in [Calls -> SUBSET Posts]

----------------------------------------------------------------------------
(***************************************************************************)
(* Properties.                                                             *)
(***************************************************************************)
\* A device set up by the service info of the imports.
Installed(d) == boot[d] = "done" /\ plan[d] = "standard"

\* A client who was answered with success, whose resource and service info the Owner Service
\* stored, can count on it: a device that begins to onboard then runs the very token it was
\* told (main.go:522-525), across restarts (main.go:100-165), other imports and hanging
\* calls, unless an administrator posted another service info first (main.go:1096) or the
\* device was imported again.
ConfirmedImportOnboards ==
    \A d \in Devices : \A r \in before[d] :
        /\ plan[d] = "standard"
        /\ Installed(d) /\ Solo(r) => script[d] = {r}

\* What a device runs is what the OCS DB and the Owner Service have on record of it, wherever
\* among failing (main.go:475), interrupted and overlapping imports it boots: it was handed
\* a token of its own, or an empty text if imports of it overlapped; and an undisturbed
\* import whose token it has is the one whose voucher and organisation the OCS DB holds
\* whole (main.go:598, 689), until the container goes.
InstalledAsRecorded ==
    \A d \in Devices :
        /\ Installed(d) =>
              /\ d \in held
              /\ script[d] = {} => \E q, r \in Imports : Overlapped(q, r) /\ uuid[q] = d
        /\ \A q \in script[d] :
              /\ uuid[q] = d
              /\ Solo(q) /\ q \notin forgotten => \A f \in Files : disk[f][d] = {q}

\* A device that is only ever imported into one organisation, by one administrator or by two
\* at once, with retries and crashes, is never given the start of one token and the end of
\* another, nor another device's (main.go:455, 464, 476), wherever among them it boots.
DeviceRunsOneToken ==
    \A d \in Devices :
        (\A q, r \in Imports : uuid[q] = d /\ uuid[r] = d => org[q] = org[r]) =>
            \A q, r \in script[d] : q = r

\* An administrator who reads what he posted gets it back (main.go:949, 1025): if his post was
\* stored and answered 200 before the read was sent, and neither another administrator nor a
\* restart (main.go:100, 126, 147, 165) stored that name since.
ReadYourPosts ==
    \A c \in Reads : \A p \in seen[c] \cap standing :
        got[c] \in {p, Nobody}

\* With devices, administrators, restarts, new containers and hanging calls around them, the
\* voucher routes still do only what OcsVouchers says, so that all that holds there holds
\* here: a start finds the OCS DB as it was left, or none, and no request in progress.
VouchersImplemented == Spec

Coming == INSTANCE StartSequence WITH
    stage <- main,
    fresh <- {n \in Common : main # "down" /\ shared[n] = starts}

\* No request gets between the posts of a start: what they stored is still there when the
\* server comes up (main.go:100-209), and only administrators replace it after that; what an
\* earlier start stored never counts as this one's.
StartIsUndisturbed == Coming!Spec

\* Every request that reaches the server ends, whatever the others do, but those the Owner
\* Service or their own client keeps waiting; the others do not wait for these (main.go:42,
\* 382, 400).
EveryRequestEnds ==
    /\ \A r \in Requests : pc[r] = "auth" ~> pc[r] = "done" \/ r \in hung
    /\ \A c \in Calls : at[c] = "auth" ~> at[c] = "done" \/ c \in hung

=============================================================================
