---------------------------- MODULE OcsVouchers ----------------------------
(***************************************************************************)
(* The voucher routes of ocs-api (src/ocs-api/main.go): import a voucher,  *)
(* get one voucher, list the vouchers of an organisation.                  *)
(*                                                                         *)
(* net/http runs every request in a goroutine of its own and the handlers  *)
(* take no lock, so a request is a process with a program counter and the  *)
(* steps of different requests interleave.  They share the OCS DB (a       *)
(* directory of the container, which outlives the process but not the      *)
(* container) and the FDO Owner Service (a separate server, reached over   *)
(* HTTP, with a database of its own).                                      *)
(*                                                                         *)
(* Data abstraction.  A file, or a resource of the Owner Service, is the   *)
(* set of the imports whose bytes are in it: {} is a file truncated and    *)
(* not written yet, {r} a file written by r alone, {r, q} one in which the *)
(* bytes of r overlay the start of the longer text of q.  The node token   *)
(* of an import is the import itself: every import draws a token of its    *)
(* own.  So exec = {r} reads "the exec file has the token and the          *)
(* organisation of import r".  The bytes of several imports in one file    *)
(* have different lengths, shorter over longer, so the set of the          *)
(* organisations' names in an orgid.txt tells its text, which may be the   *)
(* name of a third organisation: 'org1' over 'org20' reads 'org10'.        *)
(***************************************************************************)
EXTENDS Naturals, FiniteSets

CONSTANTS
    Imports,      \* POST /api/orgs/{org}/fdo/vouchers requests (a retry is another one)
    Gets,         \* GET  /api/orgs/{org}/fdo/vouchers/{uuid} requests
    Lists,        \* GET  /api/orgs/{org}/fdo/vouchers requests
    Devices,      \* the guids in valid vouchers
    ErrorBodies,  \* what the Owner Service may answer instead of a guid
    EmptyBody,    \* the empty one of those
    Orgs,         \* organisations
    MixedName,    \* the organisation a text made of these organisations' names reads as, or None
    BodySize,     \* length of the voucher an import sends
    OrgSize,      \* length of the name of an organisation
    MaxCrashes,   \* bound: how often the ocs-api process may die
    None          \* no uuid, no organisation; {None} stands for a file that does not exist

Requests == Imports \cup Gets \cup Lists
Uuids    == Devices \cup ErrorBodies
Files    == {"voucher", "orgid", "exec"}

ASSUME RequestsAssumption ==
    /\ Imports \cap Gets = {}
    /\ Imports \cap Lists = {}
    /\ Gets \cap Lists = {}
ASSUME UuidsAssumption ==
    /\ EmptyBody \in ErrorBodies
    /\ Devices \cap ErrorBodies = {}
    /\ None \notin Uuids
ASSUME SizesAssumption ==
    /\ BodySize \in [Imports -> Nat]
    /\ OrgSize \in [Orgs -> Nat]
ASSUME MixturesAssumption ==
    /\ None \notin Orgs
    /\ MixedName \in [SUBSET Orgs -> Orgs \cup {None}]
    /\ MixedName[{}] = None
    /\ \A o \in Orgs : MixedName[{o}] = o
ASSUME NoneAssumption == None \notin Imports
ASSUME CrashesAssumption == MaxCrashes \in Nat

VARIABLES
    held,      \* Owner Service: devices whose voucher it has
    resource,  \* Owner Service: the stored text of <uuid>_exec
    svi,       \* Owner Service: is the service info the one imports post?
    dirs,      \* OCS DB: the directories v1/devices/<uuid>
    disk,      \* OCS DB: contents of each file of each uuid
    pc,        \* where each handler is
    dev,       \* the device of the voucher an import sends (fixed by the client)
    org,       \* the organisation in the route of a request (fixed by the client)
    uuid,      \* deviceUuid: the Owner Service's answer, or part of the route of a get
    bytes,     \* wrapperFile of an import, voucherBytes of a get
    todo,      \* directories a list has still to look into
    found,     \* vouchers a list has collected
    answer,    \* HTTP status each client got
    crashes,   \* how often the process died
    touched,   \* history: uuids other requests changed since this one arrived
    stored,    \* history: imports whose exec resource the Owner Service stored
    forgotten  \* history: imports whose OCS DB went with an earlier container

owner   == <<held, resource, svi>>
db      == <<dirs, disk>>
inputs  == <<dev, org>>
locals  == <<uuid, bytes, todo, found>>
history == <<touched, stored, forgotten>>
vars    == <<owner, db, inputs, locals, history, pc, answer, crashes>>

NoFile   == {None}
Contents == (SUBSET Imports) \cup {NoFile}
Codes    == {"200", "400", "403", "404", "500", "denied", "lost"}

OpenAt  == [voucher |-> "openVoucher",  orgid |-> "openOrgid",  exec |-> "openExec"]
WriteAt == [voucher |-> "writeVoucher", orgid |-> "writeOrgid", exec |-> "writeExec"]

\* Mutant: the organisation is not recorded.
NextAtUnrecorded == [voucher |-> "openExec", orgid |-> "openExec", exec |-> "readExec"]

NextAt  == [voucher |-> "openOrgid",    orgid |-> "openExec",   exec |-> "readExec"]

\* The steps of an import that come after the write of each file.
AfterExec    == {"readExec", "postExec", "postSvi"}
AfterOrgid   == {"openExec", "writeExec"} \cup AfterExec
AfterVoucher == {"openOrgid", "writeOrgid"} \cup AfterOrgid
After == [voucher |-> AfterVoucher, orgid |-> AfterOrgid, exec |-> AfterExec]

ImportSteps == {"register", "mkdir", "openVoucher", "writeVoucher"} \cup AfterVoucher
GetSteps    == {"readVoucher", "askOwner", "checkOrg"}
ListSteps   == {"askOwner", "readDir", "scan"}
Steps       == {"new", "auth", "done"} \cup ImportSteps \cup GetSteps \cup ListSteps

Active(r) == pc[r] \notin {"new", "done"}

(***************************************************************************)
(* Files.  os.WriteFile opens with O_TRUNC and writes from offset 0, as    *)
(* two system calls: a file two handlers have open keeps the tail of the   *)
(* longer text.                                                            *)
(***************************************************************************)
Size(f, r) == IF f = "voucher" THEN BodySize[r] ELSE OrgSize[org[r]]

Overlay(f, r, text) == {r} \cup {q \in text : Size(f, q) > Size(f, r)}

\* getOrgidTxtStr(u) = o: the handlers compare the text of orgid.txt ("" if it is missing).
BelongsTo(u, o) ==
    /\ disk["orgid"][u] # NoFile
    /\ MixedName[{org[q] : q \in disk["orgid"][u]}] = o

----------------------------------------------------------------------------
Init ==
    /\ held = {}
    /\ resource = [u \in Uuids |-> NoFile]
    /\ svi = FALSE
    /\ dirs = {}
    /\ disk = [f \in Files |-> [u \in Uuids |-> NoFile]]
    /\ pc = [r \in Requests |-> "new"]
    /\ dev \in [Imports -> Devices]
    /\ org \in [Requests -> Orgs]
    /\ uuid \in [Imports \cup Gets -> Uuids \cup {None}]
    /\ \A r \in Imports : uuid[r] = None
    /\ \A r \in Gets : uuid[r] \in Uuids \ {EmptyBody}
    /\ bytes = [r \in Imports \cup Gets |-> {}]
    /\ todo = [r \in Lists |-> {}]
    /\ found = [r \in Lists |-> {}]
    /\ answer = [r \in Requests |-> "none"]
    /\ crashes = 0
    /\ touched = [r \in Requests |-> {}]
    /\ stored = {}
    /\ forgotten = {}

Goto(r, step)  == pc' = [pc EXCEPT ![r] = step] /\ UNCHANGED answer
Reply(r, code) == pc' = [pc EXCEPT ![r] = "done"] /\ answer' = [answer EXCEPT ![r] = code]

\* History only: every other request that has arrived has seen u change since then.
Touch(r, u) ==
    touched' = [q \in Requests |->
                  IF q # r /\ pc[q] # "new" THEN touched[q] \cup {u} ELSE touched[q]]

----------------------------------------------------------------------------
(***************************************************************************)
(* All routes: arrival, then organisation, credentials, content type, body.*)
(***************************************************************************)
Send(r) ==
    /\ pc[r] = "new"
    /\ Goto(r, "auth")
    /\ UNCHANGED <<owner, db, inputs, locals, history, crashes>>

Admit(r) ==
    /\ pc[r] = "auth"
    /\ Goto(r, IF r \in Imports THEN "register"
               ELSE IF r \in Gets THEN "readVoucher" ELSE "askOwner")
    /\ UNCHANGED <<owner, db, inputs, locals, history, crashes>>

\* "denied" is any answer given before the request has an effect: no or bad credentials
\* (401), the exchange's own code or a failing exchange (500), a bad request (400).
Refuse(r) ==
    /\ pc[r] = "auth"
    /\ Reply(r, "denied")
    /\ UNCHANGED <<owner, db, inputs, locals, history, crashes>>

----------------------------------------------------------------------------
(***************************************************************************)
(* postFdoVoucherHandler.                                                  *)
(***************************************************************************)
RegisterAccepted(r) ==
    /\ pc[r] = "register"
    /\ held' = held \cup {dev[r]}
    /\ uuid' = [uuid EXCEPT ![r] = dev[r]]
    /\ Goto(r, "mkdir")
    /\ UNCHANGED <<resource, svi, db, inputs, bytes, todo, found, history, crashes>>

\* The handler does not look at the status: the body of an error is the uuid.
RegisterRefused(r) ==
    /\ pc[r] = "register"
    /\ \E body \in ErrorBodies : uuid' = [uuid EXCEPT ![r] = body]
    /\ Goto(r, "mkdir")
    /\ UNCHANGED <<owner, db, inputs, bytes, todo, found, history, crashes>>

\* Mutant: the error is ignored and the import goes on without a uuid.
RegisterErrorIgnored(r) ==
    /\ pc[r] = "register"
    /\ Goto(r, "mkdir")
    /\ UNCHANGED <<owner, db, inputs, locals, history, crashes>>

\* Mutant: on an error the import goes on with the guid it finds in the voucher.
RegisterErrorGuessed(r) ==
    /\ pc[r] = "register"
    /\ held' \in {held, held \cup {dev[r]}}
    /\ uuid' = [uuid EXCEPT ![r] = dev[r]]
    /\ Goto(r, "mkdir")
    /\ UNCHANGED <<resource, svi, db, inputs, bytes, todo, found, history, crashes>>

\* No answer: the Owner Service may have stored the voucher all the same.
RegisterFails(r) ==
    /\ pc[r] = "register"
    /\ held' \in {held, held \cup {dev[r]}}
    /\ Reply(r, "400")
    /\ UNCHANGED <<resource, svi, db, inputs, locals, history, crashes>>

\* Mutant: only the parent directory is created.
MkdirParent(r) ==
    /\ pc[r] = "mkdir"
    /\ Goto(r, "openVoucher")
    /\ UNCHANGED <<owner, db, inputs, locals, history, crashes>>

MkdirAll(r) ==
    /\ pc[r] = "mkdir"
    /\ dirs' = dirs \cup {uuid[r]}
    /\ Goto(r, "openVoucher")
    /\ UNCHANGED <<owner, disk, inputs, locals, history, crashes>>

\* Mutant: the file is opened without O_TRUNC.
OpenKeepsText(r, f) ==
    /\ pc[r] = OpenAt[f]
    /\ disk' = [disk EXCEPT ![f][uuid[r]] = IF @ = NoFile THEN {} ELSE @]
    /\ Touch(r, uuid[r])
    /\ Goto(r, WriteAt[f])
    /\ UNCHANGED <<owner, dirs, inputs, locals, stored, forgotten, crashes>>

\* Mutant: the file is created, and the text is never flushed to it.
OpenWithoutWrite(r, f) ==
    /\ pc[r] = OpenAt[f]
    /\ disk' = [disk EXCEPT ![f][uuid[r]] = {}]
    /\ Touch(r, uuid[r])
    /\ Goto(r, NextAt[f])
    /\ UNCHANGED <<owner, dirs, inputs, locals, stored, forgotten, crashes>>

Open(r, f) ==
    /\ pc[r] = OpenAt[f]
    /\ disk' = [disk EXCEPT ![f][uuid[r]] = {}]
    /\ Touch(r, uuid[r])
    /\ Goto(r, WriteAt[f])
    /\ UNCHANGED <<owner, dirs, inputs, locals, stored, forgotten, crashes>>

\* Mutant: the file is opened to append, not to overwrite.
WriteAppends(r, f) ==
    /\ pc[r] = WriteAt[f]
    /\ disk' = [disk EXCEPT ![f][uuid[r]] = @ \cup {r}]
    /\ Touch(r, uuid[r])
    /\ Goto(r, NextAt[f])
    /\ UNCHANGED <<owner, dirs, inputs, locals, stored, forgotten, crashes>>

Write(r, f) ==
    /\ pc[r] = WriteAt[f]
    /\ disk' = [disk EXCEPT ![f][uuid[r]] = Overlay(f, r, @)]
    /\ Touch(r, uuid[r])
    /\ Goto(r, NextAt[f])
    /\ UNCHANGED <<owner, dirs, inputs, locals, stored, forgotten, crashes>>

\* MkdirAll, WriteFile or GenerateNodeToken fails.
DiskFails(r) ==
    /\ pc[r] \in {"mkdir"} \cup {OpenAt[f] : f \in Files} \cup {WriteAt[f] : f \in Files}
    /\ Reply(r, "500")
    /\ UNCHANGED <<owner, db, inputs, locals, history, crashes>>

ReadExec(r) ==
    /\ pc[r] = "readExec"
    /\ \/ /\ disk["exec"][uuid[r]] # NoFile
          /\ bytes' = [bytes EXCEPT ![r] = disk["exec"][uuid[r]]]
          /\ Goto(r, "postExec")
       \/ /\ Reply(r, "404")
          /\ UNCHANGED bytes
    /\ UNCHANGED <<owner, db, inputs, uuid, todo, found, history, crashes>>

\* Mutant: the exec resources of all devices have one name.
StoreSharedExec(r) ==
    /\ resource' = [u \in Uuids |-> bytes[r]]
    /\ stored' = stored \cup {r}
    /\ Touch(r, uuid[r])
    /\ UNCHANGED forgotten

StoreExec(r) ==
    /\ resource' = [resource EXCEPT ![uuid[r]] = bytes[r]]
    /\ stored' = stored \cup {r}
    /\ Touch(r, uuid[r])
    /\ UNCHANGED forgotten

\* Mutant: without an answer the file is read and posted again.
PostExecRetries(r) ==
    /\ pc[r] = "postExec"
    /\ \/ StoreExec(r)
       \/ UNCHANGED <<resource, history>>
    /\ \/ Goto(r, "postSvi")
       \/ Goto(r, "readExec")
    /\ UNCHANGED <<held, svi, db, inputs, locals, crashes>>

\* Stored, turned down with a status nobody reads, or no answer.
PostExec(r) ==
    /\ pc[r] = "postExec"
    /\ \/ StoreExec(r)
       \/ UNCHANGED <<resource, history>>
    /\ \/ Goto(r, "postSvi")
       \/ Reply(r, "400")
    /\ UNCHANGED <<held, svi, db, inputs, locals, crashes>>

PostSvi(r) ==
    /\ pc[r] = "postSvi"
    /\ svi' \in {svi, TRUE}
    /\ \E code \in {"200", "400", "500"} : Reply(r, code)
    /\ UNCHANGED <<held, resource, db, inputs, locals, history, crashes>>

Import(r) ==
    \/ RegisterAccepted(r) \/ RegisterRefused(r) \/ RegisterFails(r)
    \/ MkdirAll(r)
    \/ \E f \in Files : Open(r, f) \/ Write(r, f)
    \/ DiskFails(r)
    \/ ReadExec(r) \/ PostExec(r) \/ PostSvi(r)

----------------------------------------------------------------------------
(***************************************************************************)
(* getFdoVoucherHandler.                                                   *)
(***************************************************************************)
ReadVoucher(r) ==
    /\ pc[r] = "readVoucher"
    /\ \/ /\ disk["voucher"][uuid[r]] # NoFile
          /\ bytes' = [bytes EXCEPT ![r] = disk["voucher"][uuid[r]]]
          /\ Goto(r, "askOwner")
       \/ /\ Reply(r, "404")
          /\ UNCHANGED bytes
    /\ UNCHANGED <<owner, db, inputs, uuid, todo, found, history, crashes>>

\* Mutant: an organisation that is not known yet is not a wrong one.
CheckOrgIfKnown(r) ==
    /\ pc[r] = "checkOrg"
    /\ \/ /\ BelongsTo(uuid[r], org[r]) \/ disk["orgid"][uuid[r]] \in {{}, NoFile}
          /\ Reply(r, "200")
       \/ ~BelongsTo(uuid[r], org[r]) /\ Reply(r, "403")
    /\ UNCHANGED <<owner, db, inputs, locals, history, crashes>>

CheckOrg(r) ==
    /\ pc[r] = "checkOrg"
    /\ \/ BelongsTo(uuid[r], org[r]) /\ Reply(r, "200")
       \/ ~BelongsTo(uuid[r], org[r]) /\ Reply(r, "403")
       \/ Reply(r, "500")
    /\ UNCHANGED <<owner, db, inputs, locals, history, crashes>>

\* Both GET routes ask the Owner Service and use nothing of its answer.
AskOwner(r) ==
    /\ pc[r] = "askOwner"
    /\ \/ Goto(r, IF r \in Gets THEN "checkOrg" ELSE "readDir")
       \/ Reply(r, "400")
       \/ r \in Gets /\ Reply(r, "500")
    /\ UNCHANGED <<owner, db, inputs, locals, history, crashes>>

Get(r) == ReadVoucher(r) \/ AskOwner(r) \/ CheckOrg(r)

----------------------------------------------------------------------------
(***************************************************************************)
(* getFdoVouchersHandler.                                                  *)
(***************************************************************************)
\* A rejected import with an empty answer wrote into v1/devices itself: not a directory.
ReadDir(r) ==
    /\ pc[r] = "readDir"
    /\ \/ todo' = [todo EXCEPT ![r] = dirs \ {EmptyBody}] /\ Goto(r, "scan")
       \/ Reply(r, "500") /\ UNCHANGED todo
    /\ UNCHANGED <<owner, db, inputs, uuid, bytes, found, history, crashes>>

\* Mutant: the loop ends at the first voucher of the organisation.
ScanStopsEarly(r) ==
    /\ pc[r] = "scan"
    /\ \E u \in todo[r] :
         /\ todo' = [todo EXCEPT ![r] = IF BelongsTo(u, org[r]) THEN {} ELSE @ \ {u}]
         /\ found' = [found EXCEPT ![r] = IF BelongsTo(u, org[r]) THEN @ \cup {u} ELSE @]
    /\ Goto(r, "scan")
    /\ UNCHANGED <<owner, db, inputs, uuid, bytes, history, crashes>>

Scan(r) ==
    /\ pc[r] = "scan"
    /\ \E u \in todo[r] :
         /\ todo' = [todo EXCEPT ![r] = @ \ {u}]
         /\ found' = [found EXCEPT ![r] = IF BelongsTo(u, org[r]) THEN @ \cup {u} ELSE @]
    /\ Goto(r, "scan")
    /\ UNCHANGED <<owner, db, inputs, uuid, bytes, history, crashes>>

\* One orgid.txt that cannot be read fails the whole list.
ScanFails(r) ==
    /\ pc[r] = "scan"
    /\ todo[r] # {}
    /\ Reply(r, "500")
    /\ UNCHANGED <<owner, db, inputs, locals, history, crashes>>

SendList(r) ==
    /\ pc[r] = "scan"
    /\ todo[r] = {}
    /\ Reply(r, "200")
    /\ UNCHANGED <<owner, db, inputs, locals, history, crashes>>

List(r) == AskOwner(r) \/ ReadDir(r) \/ Scan(r) \/ ScanFails(r) \/ SendList(r)

----------------------------------------------------------------------------
\* The process dies and its container is started again: every connection is lost, the
\* OCS DB and the Owner Service stay as they are.
Crash ==
    /\ crashes < MaxCrashes
    /\ \E r \in Requests : Active(r)
    /\ crashes' = crashes + 1
    /\ pc' = [r \in Requests |-> IF Active(r) THEN "done" ELSE pc[r]]
    /\ answer' = [r \in Requests |-> IF Active(r) THEN "lost" ELSE answer[r]]
    /\ UNCHANGED <<owner, db, inputs, locals, history>>

\* A new container takes the place of the one that stopped.  The OCS DB is in the container
\* (ocsDbDir of the start script is ocs-db/, the image passes it no argument), so it starts
\* empty; what the Owner Service has is in its own database and stays.  A container that
\* stops amid requests is a Crash before this step.
NewContainer ==
    /\ \A r \in Requests : ~Active(r)
    /\ dirs' = {}
    /\ disk' = [f \in Files |-> [u \in Uuids |-> NoFile]]
    /\ forgotten' = {r \in Imports : pc[r] = "done"}
    /\ UNCHANGED <<owner, inputs, locals, touched, stored, pc, answer, crashes>>

\* POST /api/orgs/{org}/fdo/svi: an administrator's own service info takes the place of
\* the one imports post (module Provisioning has the route).
CustomSvi ==
    /\ svi' = FALSE
    /\ UNCHANGED <<held, resource, db, inputs, locals, history, pc, answer, crashes>>

\* Every request of this behaviour has been answered; the server waits.
Idle == (\A r \in Requests : pc[r] = "done") /\ UNCHANGED vars

Handle(r) ==
    \/ Admit(r)
    \/ Refuse(r)
    \/ r \in Imports /\ Import(r)
    \/ r \in Gets /\ Get(r)
    \/ r \in Lists /\ List(r)

Next ==
    \/ \E r \in Requests : Send(r) \/ Handle(r)
    \/ Crash
    \/ NewContainer
    \/ CustomSvi
    \/ Idle

Spec == Init /\ [][Next]_vars

----------------------------------------------------------------------------
\* Type invariant of the OCS DB, the Owner Service and the handlers' locals.
TypeOK ==
    /\ held \subseteq Devices
    /\ resource \in [Uuids -> Contents]
    /\ svi \in BOOLEAN
    /\ dirs \subseteq Uuids
    /\ disk \in [Files -> [Uuids -> Contents]]
    /\ pc \in [Requests -> Steps]
    /\ dev \in [Imports -> Devices]
    /\ org \in [Requests -> Orgs]
    /\ uuid \in [Imports \cup Gets -> Uuids \cup {None}]
    /\ bytes \in [Imports \cup Gets -> SUBSET Imports]
    /\ todo \in [Lists -> SUBSET Uuids]
    /\ found \in [Lists -> SUBSET Uuids]
    /\ answer \in [Requests -> Codes \cup {"none"}]
    /\ crashes \in 0 .. MaxCrashes
    /\ touched \in [Requests -> SUBSET Uuids]
    /\ stored \subseteq Imports
    /\ forgotten \subseteq Imports

----------------------------------------------------------------------------
(***************************************************************************)
(* Safety.                                                                 *)
(***************************************************************************)
Answered200(r) == answer[r] = "200"

\* No other request has changed the files or the resource of this uuid since r arrived.
Solo(r) == uuid[r] \notin touched[r]

\* What one system has implies what the other has, across crashes, lost answers, failing
\* steps and new containers: an exec resource at the Owner Service comes from an import of
\* that uuid, after its three files, which only a new container takes away; the files come
\* after the device directory, and the directory and the resource of a device after its
\* voucher is at the Owner Service (main.go:400-474, each step after the one before it).
ImportOrder ==
    /\ \A r \in stored \ forgotten : \A f \in Files : disk[f][uuid[r]] # NoFile
    /\ \A u \in Uuids :
        /\ resource[u] # NoFile => \E r \in stored : uuid[r] = u
        /\ \A f \in Files : disk[f][u] # NoFile => u \in dirs
        /\ u \in Devices /\ (u \in dirs \/ resource[u] # NoFile) => u \in held

\* Import r finds what its step of the handler relies on.
Agrees(r) ==
    /\ pc[r] \in {"new", "auth", "register"} => uuid[r] = None
    /\ pc[r] \in ImportSteps \ {"register"} =>
          uuid[r] \in Uuids /\ (uuid[r] \in Devices => uuid[r] \in held)
    /\ pc[r] \in ImportSteps \ {"register", "mkdir"} => uuid[r] \in dirs
    /\ \A f \in Files : pc[r] \in {WriteAt[f]} \cup After[f] => disk[f][uuid[r]] # NoFile

\* What makes ImportOrder inductive: where each handler is tells what is already there.
\* An import knows no uuid before the Owner Service answered; from then on the voucher of
\* its device is there, then the directory, then each file from its open on, so that the
\* reads of main.go:464 and 653 and the posts that follow find what they need.
HandlersAgree ==
    /\ \A r \in Imports : Agrees(r)
    /\ \A r \in Gets : uuid[r] \in Uuids

\* A token, organisation or voucher never reaches the files or the resource of a device
\* other than the one the Owner Service named for that import, nor the client that asks
\* for another device (paths of main.go:421-474 and 652).
BytesStayWithTheirDevice ==
    /\ \A u \in Uuids :
        /\ \A f \in Files, q \in Imports :
              q \in disk[f][u] => uuid[q] = u
        /\ \A q \in Imports : q \in resource[u] => uuid[q] = u
    /\ \A r \in Imports \cup Gets : \A q \in bytes[r] : uuid[q] = uuid[r]

\* An import no other request disturbed finds its own bytes, whole, in all the files it has
\* written, posts them, and leaves them at the Owner Service; once it was answered with
\* success, or its resource was stored, the files stay until the next import of the device
\* or the end of the container, and the resource until the next import.
Lands(r) ==
    Solo(r) =>
        /\ \A f \in Files :
              pc[r] \in After[f] \/ (r \notin forgotten /\ (Answered200(r) \/ r \in stored))
                  => disk[f][uuid[r]] = {r}
        /\ pc[r] \in {"postExec", "postSvi"} => bytes[r] = {r}
        /\ (pc[r] = "postSvi" \/ Answered200(r)) /\ r \in stored => resource[uuid[r]] = {r}

\* The nodeToken of the response (main.go:522-525) is the token the device will use, as long
\* as imports of a device do not overlap, whatever earlier imports, failures and crashes left
\* in the same files, and until the device is imported again; a new container loses the
\* files and not the token.
SoloImportLands == \A r \in Imports : Lands(r)

\* Overlapping imports of one device may leave a mixture in a file, but only of texts of
\* different length; so the exec file a device runs mixes organisations or nothing: as
\* long as a device is imported into one organisation its token comes whole.
MixedOnlyAcrossSizes ==
    \A u \in Uuids : \A q, r \in Imports : q # r =>
        /\ \A f \in Files :
              {q, r} \subseteq disk[f][u] => Size(f, q) # Size(f, r)
        /\ {q, r} \subseteq resource[u] => org[q] # org[r]

\* A file is empty only between the open and the write of some import (main.go:430, 438,
\* 455), or because an import ended there, in an error or with the process: once every
\* import of a device was answered with success, none of its files is empty.
EmptyFileHasAWriter ==
    \A f \in Files, u \in Uuids : disk[f][u] = {} =>
        \E r \in Imports : /\ uuid[r] = u
                           /\ pc[r] = WriteAt[f] \/ answer[r] \in {"500", "lost"}

\* Two imports of one device, both disturbed: if they did not overlap, the later one was so
\* only by a third.
Overlapped(q, r) == q # r /\ uuid[q] = uuid[r] /\ ~Solo(q) /\ ~Solo(r)

\* Imported into o, or into organisations whose names differ in length by imports that
\* overlapped.
MayBelong(u, o) ==
    \/ \E q \in Imports : uuid[q] = u /\ org[q] = o
    \/ \E q, r \in Imports : /\ Overlapped(q, r) /\ uuid[q] = u
                             /\ OrgSize[org[q]] # OrgSize[org[r]]

\* A client is told of a device only if that device was imported into the organisation of
\* the client's route (main.go:598, 689), whatever half-written orgid.txt it met and
\* whatever containers came and went: with one exception, a device that overlapping imports
\* sent into organisations whose names differ in length, for the mixture of the names may
\* be the name of a third.
ReadersStayInTheirOrg ==
    /\ \A r \in Gets : Answered200(r) => MayBelong(uuid[r], org[r])
    /\ \A r \in Lists : \A u \in found[r] : MayBelong(u, org[r])

\* A list collects exactly the vouchers of its organisation, but for devices imported
\* while it runs and the directories it has still to visit: the snapshot of ReadDir and
\* the later reads of orgid.txt (main.go:583-602) do not lose or invent one.
ListIsExact ==
    \A r \in Lists : pc[r] = "scan" =>
        \A u \in Uuids \ (touched[r] \cup todo[r] \cup {EmptyBody}) :
            u \in found[r] <=> BelongsTo(u, org[r])

\* What an undisturbed import recorded is what an undisturbed get of that device is judged
\* by, although the import writes voucher and organisation apart (main.go:430, 438) and the
\* get reads them apart, with a call to the Owner Service in between (main.go:653-689): it
\* is sent the voucher of that very import if it asks in its organisation, and refused only
\* in another.
GetReturnsTheImport ==
    \A r \in Gets, p \in Imports :
        /\ uuid[p] = uuid[r] /\ Solo(p) /\ Solo(r)
        /\ pc[p] \in After["orgid"] \/ Answered200(p)
        => /\ Answered200(r) => bytes[r] = {p} /\ org[p] = org[r]
           /\ answer[r] = "403" => org[p] # org[r]

\* How far a request has come: the steps of each route in the order of its handler.
Place == [new |-> 0, auth |-> 1, register |-> 2, mkdir |-> 3,
          openVoucher |-> 4, writeVoucher |-> 5, openOrgid |-> 6, writeOrgid |-> 7,
          openExec |-> 8, writeExec |-> 9, readExec |-> 10, postExec |-> 11, postSvi |-> 12,
          readVoucher |-> 13, askOwner |-> 14, checkOrg |-> 15, readDir |-> 16, scan |-> 17,
          done |-> 18]

\* No handler goes back, retries, or waits in a loop for what another is writing
\* (main.go:352-705): whatever it does brings it closer to its answer, in the one loop
\* (main.go:589) by a directory less to visit, which no import running meanwhile adds to.
\* So a request takes a bounded number of steps, whatever the others do, and the OCS DB is
\* not taken from under it.
HandlersMoveOn ==
    [][/\ \A r \in Requests : pc'[r] = pc[r] \/ Place[pc[r]] < Place[pc'[r]]
       /\ \A r \in Lists : pc[r] = "scan" => todo'[r] \subseteq todo[r]
       /\ UNCHANGED <<pc, todo>> =>
             /\ UNCHANGED <<held, resource, locals, answer>>
             /\ (\E r \in Requests : Active(r)) => UNCHANGED db]_vars

----------------------------------------------------------------------------
(***************************************************************************)
(* The enrolment of the devices, as DeviceEnrolment specifies it, and what *)
(* stands for its state here.                                              *)
(***************************************************************************)
Enrolment == INSTANCE DeviceEnrolment WITH
    registered  <- held,
    recorded    <- {d \in Devices : disk["orgid"][d] # NoFile},
    provisioned <- {d \in Devices : resource[d] # NoFile},
    confirmed   <- {d \in Devices : \E r \in Imports : uuid[r] = d /\ answer[r] = "200"}

\* Concurrent, failing and interrupted imports implement the enrolment: no step skips a
\* stage, moves two devices, or takes a device out of a stage, but for a new container,
\* which takes the records of all of them and nothing else.
ImplementsEnrolment == Enrolment!Spec

----------------------------------------------------------------------------
(***************************************************************************)
(* Promises of comments and documents that the code does not keep.         *)
(***************************************************************************)
\* README.md:194: a successful import answers with the guid of the voucher.
SuccessReturnsGuid == \A r \in Imports : Answered200(r) => uuid[r] \in Devices

\* main.go:682: the voucher a get sends is in the organisation of the client.
VoucherIsInClientsOrg ==
    \A r \in Gets : Answered200(r) => \A q \in bytes[r] : org[q] = org[r]

\* main.go:682: the organisation check confirms "this voucher/device is in the client's org".
ReaderIsToldOfHisOwn ==
    \A r \in Gets : Answered200(r) => \E q \in Imports : uuid[q] = uuid[r] /\ org[q] = org[r]
=============================================================================
