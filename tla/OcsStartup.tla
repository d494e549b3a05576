----------------------------- MODULE OcsStartup -----------------------------
(***************************************************************************)
(* How ocs-api comes up: the script of its container                       *)
(* (src/docker/start-fdo-owner-service.sh), main and createConfigFiles in  *)
(* src/ocs-api/main.go, VerifyExchangeConnection in                        *)
(* src/ocs-api/outils/outils.go.                                           *)
(*                                                                         *)
(* One thread of control, but a state that outlives it: the common         *)
(* config files in the OCS DB, a directory of the container, and their     *)
(* copies at the FDO Owner Service.  Every start may meet what an          *)
(* interrupted one left and may be interrupted itself.  Another            *)
(* environment or image means another container, whose directory is empty, *)
(* but for an operator who passes the script a directory outside of it (as *)
(* its first argument; tools/start-ocs-api.sh takes one, too).             *)
(*                                                                         *)
(* The posts to the Owner Service have no timeout, so it may keep a start  *)
(* waiting with each of them; the calls to the exchange have one.          *)
(*                                                                         *)
(* A file is NoFile, Empty (truncated, not written yet), or a text.  The   *)
(* *_name files next to them have a constant text nobody reads and are     *)
(* left out, as is creds/publicKeys, which stays empty.                    *)
(***************************************************************************)
EXTENDS Naturals

CONSTANTS
    Certs,     \* values of HZN_MGMT_HUB_CERT
    NoCert,    \* HZN_MGMT_HUB_CERT is not set
    Hubs,      \* addresses of the management hub (HZN_EXCHANGE_URL, FDO_OPS_SVC_HOST, ...)
    Images,    \* images of the container, each with its agent-install-wrapper.sh
    Retries,   \* EXCHANGE_INTERNAL_RETRIES
    MaxStarts, \* bound: how often the container is started
    NoFile,    \* the file, the resource or the redirect does not exist
    Empty      \* the file is truncated

ASSUME CertsAssumption == NoCert \notin Certs
ASSUME BoundsAssumption == Retries \in Nat /\ MaxStarts \in Nat

Envs  == [cert : Certs \cup {NoCert}, hub : Hubs, image : Images]
Files == {"crt", "cfg", "wrapper"}
Cfgs  == [hub : Hubs, named : BOOLEAN]  \* named: HZN_MGMT_HUB_CERT_PATH is in it

ASSUME TextsAssumption == {NoFile, Empty} \cap (Certs \cup Cfgs \cup Images) = {}
ASSUME NoFileAssumption == NoFile # Empty /\ NoFile \notin Hubs

VARIABLES
    env,      \* environment and image of this start (the last one, when down)
    values,   \* OCS DB: v1/values/agent-install.{crt,cfg}, agent-install-wrapper.sh
    owner,    \* Owner Service: the resources of the same names
    redirect, \* Owner Service: the TO2 address
    pc,       \* where the script of the container, and then main, is
    tries,    \* exchange connections tried
    hung,     \* is the Owner Service keeping a post waiting?
    starts,   \* how often the container was started
    exit,     \* how the last process ended
    stored,   \* history: resources the Owner Service stored in this start
    refused,  \* history: resources it left unstored in this start
    certLost, \* history: did it ever leave the certificate unstored?
    failed    \* history: a system call or request of this start failed

service == <<owner, redirect>>
told    == <<stored, refused, certLost>>
history == <<told, failed>>
vars    == <<env, values, service, pc, tries, hung, starts, exit, history>>

\* What this start writes to each file.
Cfg     == [hub |-> env.hub, named |-> env.cert # NoCert]
Text(f) == CASE f = "crt" -> env.cert [] f = "cfg" -> Cfg [] f = "wrapper" -> env.image

Absent   == {NoFile, Empty}
Contents == [crt |-> Certs \cup Absent, cfg |-> Cfgs \cup Absent, wrapper |-> Images \cup Absent]
AnyText  == Certs \cup Cfgs \cup Images \cup Absent

OpenAt  == [crt |-> "openCrt",  cfg |-> "openCfg",     wrapper |-> "openWrapper"]
WriteAt == [crt |-> "writeCrt", cfg |-> "writeCfg",    wrapper |-> "writeWrapper"]
NextAt  == [crt |-> "openCfg",  cfg |-> "openWrapper", wrapper |-> "redirect"]
PostAt  == [crt |-> "postCrt",  cfg |-> "postCfg",     wrapper |-> "postWrapper"]

\* Mutant: the wrapper is not posted, it being the same in most images.
ThenAtShort == [crt |-> "postCfg", cfg |-> "trust", wrapper |-> "trust"]

ThenAt  == [crt |-> "postCfg",  cfg |-> "postWrapper", wrapper |-> "trust"]

\* The steps of main that come after the write of each file.
AfterWrapper == {"redirect", "postCrt", "postCfg", "postWrapper", "trust",
                 "verify", "listen", "serving"}
AfterCfg     == {"openWrapper", "writeWrapper"} \cup AfterWrapper
AfterCrt     == {"openCfg", "writeCfg"} \cup AfterCfg
After        == [crt |-> AfterCrt, cfg |-> AfterCfg, wrapper |-> AfterWrapper]
FileSteps    == {"config", "openCrt", "writeCrt", "openCfg", "writeCfg",
                 "openWrapper", "writeWrapper"}
ScriptSteps  == {"container", "health"}
Steps        == {"down"} \cup ScriptSteps \cup FileSteps \cup AfterWrapper

NoValues == [f \in Files |-> NoFile]

Init ==
    /\ env \in Envs
    /\ values = NoValues
    /\ owner = [f \in Files |-> NoFile]
    /\ redirect = NoFile
    /\ pc = "down"
    /\ tries = 0
    /\ hung = FALSE
    /\ starts = 0
    /\ exit = "none"
    /\ stored = {}
    /\ refused = {}
    /\ certLost = FALSE
    /\ failed = FALSE

----------------------------------------------------------------------------
\* The same container, as the last start left it.
Restart == UNCHANGED <<env, values>>

\* Another container, with an environment and an image of its own: its OCS DB is empty, or is
\* the one of before in a directory outside.
Replace == env' \in Envs /\ values' \in {values, NoValues}

Start ==
    /\ pc = "down"
    /\ starts < MaxStarts
    /\ Restart \/ Replace
    /\ pc' = "container"
    /\ tries' = 0
    /\ hung' = FALSE
    /\ starts' = starts + 1
    /\ exit' = "none"
    /\ stored' = {}
    /\ refused' = {}
    /\ failed' = FALSE
    /\ UNCHANGED <<service, certLost>>

\* The script ends, or main: outils.Fatal (3), log.Fatal (1), or return (0, nothing printed).
Stop(how) == pc' = "down" /\ exit' = how

----------------------------------------------------------------------------
(***************************************************************************)
(* The script of the container.                                            *)
(***************************************************************************)
\* The Owner Service is configured and started in the background, unless a setting is
\* missing (exit code 0), the password is malformed or an edit of its files fails.
Prepare ==
    /\ pc = "container"
    /\ \/ pc' = "health" /\ UNCHANGED <<exit, failed>>
       \/ Stop("script") /\ failed' = TRUE
    /\ UNCHANGED <<env, values, service, tries, hung, starts, told>>

\* Its health is asked for every two seconds, without a bound; ocs-api starts when it is up.
OwnerIsUp ==
    /\ pc = "health"
    /\ pc' = "config"
    /\ UNCHANGED <<env, values, service, tries, hung, starts, exit, history>>

----------------------------------------------------------------------------
(***************************************************************************)
(* createConfigFiles.                                                      *)
(***************************************************************************)
\* The directories are there; agent-install.crt only if there is a certificate.
Configure ==
    /\ pc = "config"
    /\ pc' = IF env.cert # NoCert THEN "openCrt" ELSE "openCfg"
    /\ UNCHANGED <<env, values, service, tries, hung, starts, exit, history>>

\* Mutant: a file an earlier start has written is kept.
OpenOnce(f) ==
    /\ pc = OpenAt[f]
    /\ values' = [values EXCEPT ![f] = IF @ = NoFile THEN Empty ELSE @]
    /\ pc' = IF values[f] = NoFile THEN WriteAt[f] ELSE NextAt[f]
    /\ UNCHANGED <<env, service, tries, hung, starts, exit, history>>

Open(f) ==
    /\ pc = OpenAt[f]
    /\ values' = [values EXCEPT ![f] = Empty]
    /\ pc' = WriteAt[f]
    /\ UNCHANGED <<env, service, tries, hung, starts, exit, history>>

\* Mutant: the certificate is named whether or not there is one.
WriteAlwaysNamed(f) ==
    /\ pc = WriteAt[f]
    /\ values' = [values EXCEPT ![f] = IF f = "cfg" THEN [Cfg EXCEPT !.named = TRUE] ELSE Text(f)]
    /\ pc' = NextAt[f]
    /\ UNCHANGED <<env, service, tries, hung, starts, exit, history>>

Write(f) ==
    /\ pc = WriteAt[f]
    /\ values' = [values EXCEPT ![f] = Text(f)]
    /\ pc' = NextAt[f]
    /\ UNCHANGED <<env, service, tries, hung, starts, exit, history>>

\* A required variable is missing, a directory or a file cannot be made, written or copied,
\* the certificate of the exchange cannot be written or read.
Fatal ==
    /\ pc \in FileSteps \cup {"redirect", "trust"} /\ ~hung
    /\ Stop("fatal")
    /\ failed' = TRUE
    /\ UNCHANGED <<env, values, service, tries, hung, starts, told>>

----------------------------------------------------------------------------
(***************************************************************************)
(* main: the Owner Service is told.  A request is stored, turned down with *)
(* a status nobody reads, or not answered; then it may be stored as well.  *)
(***************************************************************************)
\* No answer and no error: the client has no timeout.  The answer may still come.
Hang ==
    /\ pc = "redirect" \/ \E f \in Files : pc = PostAt[f] /\ values[f] # NoFile
    /\ ~hung
    /\ hung' = TRUE
    /\ UNCHANGED <<env, values, service, pc, tries, starts, exit, history>>

PostRedirect ==
    /\ pc = "redirect"
    /\ redirect' \in {redirect, env.hub}
    /\ hung' = FALSE
    /\ \/ pc' = "postCrt" /\ UNCHANGED <<exit, failed>>
       \/ Stop("returned") /\ failed' = TRUE
    /\ UNCHANGED <<env, values, owner, tries, starts, told>>

\* Mutant: what this start would have written is posted, not what is in the file.
StoreText(f) ==
    /\ owner' = [owner EXCEPT ![f] = Text(f)]
    /\ stored' = stored \cup {f}
    /\ UNCHANGED <<refused, certLost>>

StoreResource(f) ==
    \/ /\ owner' = [owner EXCEPT ![f] = values[f]]
       /\ stored' = stored \cup {f}
       /\ UNCHANGED <<refused, certLost>>
    \/ /\ refused' = refused \cup {f}
       /\ certLost' = (certLost \/ f = "crt")
       /\ UNCHANGED <<owner, stored>>

\* Mutant: without an answer the start posts everything again.
PostStartsOver(f) ==
    /\ pc = PostAt[f]
    /\ values[f] # NoFile
    /\ StoreResource(f)
    /\ hung' = FALSE
    /\ \/ pc' = ThenAt[f] /\ UNCHANGED failed
       \/ pc' = "redirect" /\ failed' = TRUE
    /\ UNCHANGED <<env, values, redirect, tries, starts, exit>>

\* The file is read and posted.
Post(f) ==
    /\ pc = PostAt[f]
    /\ values[f] # NoFile
    /\ StoreResource(f)
    /\ hung' = FALSE
    /\ \/ pc' = ThenAt[f] /\ UNCHANGED <<exit, failed>>
       \/ Stop("returned") /\ failed' = TRUE
    /\ UNCHANGED <<env, values, redirect, tries, starts>>

\* Mutant: a file that cannot be read is left out.
ReadFailsSkips(f) ==
    /\ pc = PostAt[f] /\ ~hung
    /\ pc' = ThenAt[f]
    /\ failed' = TRUE
    /\ UNCHANGED <<env, values, service, tries, hung, starts, exit, told>>

\* The file cannot be read: because it is not there, or for another reason.
ReadFails(f) ==
    /\ pc = PostAt[f] /\ ~hung
    /\ Stop("returned")
    /\ failed' = (values[f] # NoFile)
    /\ UNCHANGED <<env, values, service, tries, hung, starts, told>>

----------------------------------------------------------------------------
(***************************************************************************)
(* main and VerifyExchangeConnection: the exchange is tried, then served.  *)
(***************************************************************************)
Trust ==
    /\ pc = "trust"
    /\ pc' = "verify"
    /\ UNCHANGED <<env, values, service, tries, hung, starts, exit, history>>

\* Mutant: the last attempt is made twice.
TryOnceMore ==
    /\ pc = "verify"
    /\ tries <= Retries
    /\ \/ pc' = "listen" /\ UNCHANGED <<tries, failed>>
       \/ tries' = tries + 1 /\ failed' = TRUE /\ UNCHANGED pc
    /\ UNCHANGED <<env, values, service, hung, starts, exit, told>>

Try ==
    /\ pc = "verify"
    /\ tries < Retries
    /\ \/ pc' = "listen" /\ UNCHANGED <<tries, failed>>
       \/ tries' = tries + 1 /\ failed' = TRUE /\ UNCHANGED pc
    /\ UNCHANGED <<env, values, service, hung, starts, exit, told>>

\* Mutant: after the last attempt it counts from the start again.
CountAgain ==
    /\ pc = "verify"
    /\ tries = Retries
    /\ tries' = 0
    /\ UNCHANGED <<env, values, service, pc, hung, starts, exit, history>>

GiveUp ==
    /\ pc = "verify"
    /\ tries = Retries
    /\ Stop("fatal")
    /\ UNCHANGED <<env, values, service, tries, hung, starts, history>>

Listen ==
    /\ pc = "listen"
    /\ \/ pc' = "serving" /\ UNCHANGED <<exit, failed>>
       \/ Stop("fatal") /\ failed' = TRUE
    /\ UNCHANGED <<env, values, service, tries, hung, starts, told>>

----------------------------------------------------------------------------
Crash ==
    /\ pc # "down"
    /\ Stop("killed")
    /\ hung' = FALSE
    /\ UNCHANGED <<env, values, service, tries, starts, history>>

\* The container is not started again.
Idle == pc = "down" /\ starts = MaxStarts /\ UNCHANGED vars

Script == Prepare \/ OwnerIsUp

Main ==
    \/ Configure
    \/ \E f \in Files : Open(f) \/ Write(f) \/ Post(f) \/ ReadFails(f)
    \/ Fatal
    \/ PostRedirect
    \/ Trust \/ Try \/ GiveUp \/ Listen

Next == Start \/ Script \/ Main \/ Hang \/ Crash \/ Idle

Spec == Init /\ [][Next]_vars

\* main takes the step it can: file calls return, and so do calls to the exchange, whose
\* client has a timeout.  Nothing is assumed of a post the Owner Service keeps waiting, nor of
\* the script, which may install Java and waits for the Owner Service to come up.
FairSpec == Spec /\ WF_vars(~hung /\ Main)

----------------------------------------------------------------------------
\* Type invariant.
StartupTypeOK ==
    /\ env \in Envs
    /\ values \in [Files -> AnyText]
    /\ owner \in [Files -> AnyText]
    /\ \A f \in Files : values[f] \in Contents[f] /\ owner[f] \in Contents[f]
    /\ redirect \in Hubs \cup {NoFile}
    /\ pc \in Steps
    /\ tries \in 0 .. Retries
    /\ hung \in BOOLEAN
    /\ starts \in 0 .. MaxStarts
    /\ exit \in {"none", "fatal", "returned", "killed", "script"}
    /\ stored \subseteq Files
    /\ refused \subseteq Files
    /\ certLost \in BOOLEAN
    /\ failed \in BOOLEAN

\* What a server runs with is what its own environment says, whole, whatever an earlier start
\* with another environment or image, or an interrupted one, left in the directory
\* (main.go:1198-1272).  Only the certificate may be an older one, if this start has none.
FilesAreOfThisStart ==
    \A f \in Files : pc \in After[f] /\ ~(f = "crt" /\ env.cert = NoCert) =>
        values[f] = Text(f)

\* The cfg among these files has a line for the certificate.
NamesCert(files) == files["cfg"] \notin Absent /\ files["cfg"].named

\* main.go:1245: a cfg that names the certificate file is next to one; in the directory, at any
\* moment and after any interruption, and at the Owner Service, unless it once left the
\* certificate unstored.  The file may be one an interrupted start left empty.
NamedCertificateExists ==
    /\ NamesCert(values) => values["crt"] # NoFile
    /\ NamesCert(owner) => owner["crt"] # NoFile \/ certLost

\* A resource the Owner Service stored in this start is the file in the directory: no start
\* posts what a later step of it then changes (main.go:81 before 112-166).
StoredIsTheFile == \A f \in stored : owner[f] = values[f]

\* When requests are served, every device that onboards gets what this start's environment and
\* image say, whatever earlier starts left in the directory or at the Owner Service: all three
\* files were written (main.go:81), read back and posted (main.go:112-166) before, and
\* only those the Owner Service left unstored just now, with a status nobody reads, are older.
DevicesGetThisStart ==
    pc = "serving" => \A f \in Files : ~(f = "crt" /\ env.cert = NoCert) =>
        /\ f \in stored \cup refused
        /\ f \in stored => owner[f] = Text(f)

\* What the others see of each step of main: before its first post the process is down.
StageAt == [redirect |-> "redirect", postCrt |-> "crt", postCfg |-> "cfg",
            postWrapper |-> "wrapper", trust |-> "verify", verify |-> "verify",
            listen |-> "verify", serving |-> "serving"]

Coming == INSTANCE StartSequence WITH
    stage <- IF pc \in AfterWrapper THEN StageAt[pc] ELSE "down",
    fresh <- IF pc \in AfterWrapper THEN stored ELSE {}

\* With its script, its files, its retries and its exits, a start is to the others the
\* sequence of posts and the server that Provisioning takes it for (main.go:81-209).
StartIsASequence == Coming!Spec

\* How far a start has come.
Place == [container |-> 0, health |-> 1, config |-> 2, openCrt |-> 3, writeCrt |-> 4,
          openCfg |-> 5, writeCfg |-> 6, openWrapper |-> 7, writeWrapper |-> 8,
          redirect |-> 9, postCrt |-> 10, postCfg |-> 11, postWrapper |-> 12,
          trust |-> 13, verify |-> 14, listen |-> 15, serving |-> 16]

\* A start never goes back: until it ends it comes closer to the server with each step, or
\* is kept waiting with a post, once, or tries the exchange once more, which it does Retries
\* times and no more, zero included (outils.go:335-356).  So it takes a bounded number of
\* steps, whatever fails.
StartMovesOn ==
    [][pc # "down" /\ pc' # "down" =>
          \/ Place[pc] < Place[pc'] /\ tries' = tries
          \/ pc' = pc /\ tries' = tries /\ ~hung /\ hung'
          \/ pc = "verify" /\ pc' = pc /\ tries < tries' /\ tries' <= Retries]_vars

\* Every start of the container ends in a server or in an exit, for any number of retries of
\* the exchange (outils.go:335), but for one that is kept waiting: in its script, by the
\* installation of Java or an Owner Service that never comes up (start-fdo-owner-service.sh:159,
\* 234), or in main, by a post that is never answered (main.go:100, 124, 146, 169).
StartEnds ==
    pc = "container" ~> pc \in {"serving", "down"} \/ [](pc \in ScriptSteps) \/ []hung

\* docker/run-fdo-owner-service.sh:11: HZN_MGMT_HUB_CERT may be 'N/A'; and main.go:1244-1246
\* writes a cfg without it.  So a start in which nothing failed does not end on its own.
CertificateIsOptional == exit = "returned" => failed
=============================================================================
