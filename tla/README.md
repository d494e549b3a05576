# A verification project for FDO-support

FDO-support joins two systems. A device manufactured for FIDO Device Onboard (FDO)
carries an ownership voucher; when it boots at its owner's site it finds the owner's FDO
service and runs what the owner prepared for it. Here that is `agent-install-wrapper.sh`,
which registers the device as an edge node of an Open Horizon organisation. `ocs-api`, a
Go program of one REST server, takes the vouchers of an organisation's administrators,
gives them to the FDO Owner Service, and keeps what it needs to know of them in a
directory, the OCS DB.

This directory specifies that program in TLA+, checks the specification with TLC on small
instances, and proves the properties that matter most with TLAPS for every value of the
constants.

| file | what it is |
| --- | --- |
| `OcsVouchers.tla` | the voucher routes of ocs-api: concurrent imports, gets and lists |
| `DeviceEnrolment.tla` | what importing vouchers promises, without handlers, files or failures |
| `MCOcsVouchers.tla`, `Vouchers*.cfg` | the instances TLC checks |
| `OcsVouchers_proofs.tla`, `OcsTexts_proofs.tla` | theorems about `OcsVouchers`: order, agreement and refinement; what is in the files |
| `Provisioning.tla` | `OcsVouchers` with all who share the Owner Service: administrators, restarts, devices |
| `MCProvisioning.tla`, `Provision.cfg`, `Admin.cfg`, `Live.cfg` | the instances TLC checks |
| `Provisioning_proofs.tla` | theorems about `Provisioning` |
| `ExchangeAuth.tla` | who is admitted: the exchange, its accounts and its certificate, and the one HTTP client |
| `Admission.tla` | what authentication promises, without accounts, certificates or calls |
| `MCExchangeAuth.tla`, `Auth.cfg` | the instance TLC checks |
| `ExchangeAuth_proofs.tla` | theorems about `ExchangeAuth` |
| `OcsStartup.tla` | how ocs-api comes up: the container's script, common config files, posts, exchange check, restarts |
| `StartSequence.tla` | what a start is to everybody else; `OcsStartup` and `Provisioning` both implement it |
| `Startup.cfg`, `StartupNoCert.cfg` | the instances TLC checks |
| `OcsStartup_proofs.tla` | theorems about `OcsStartup` |
| `PROJECT.json` | runs, mutants, the map from definitions to source lines, findings, hazards |

## 1. Inventory

### ocs-api (`src/ocs-api/main.go`, `src/ocs-api/outils/outils.go`)

One process, started in the container by `start-fdo-owner-service.sh` after the Owner
Service is healthy. `net/http` serves each request in a goroutine of its own. No lock is
taken anywhere (`KeyImportLock`, main.go:42, is declared and not used).

State:

- in memory: read-only settings after `main`, and one lazily built HTTP client for the
  exchange (`HttpClient`, outils.go:467);
- the **OCS DB**, a directory: per device
  `v1/devices/<uuid>/ownership_voucher.txt`, `orgid.txt`, `<uuid>_exec`; for all devices
  `v1/values/agent-install.cfg`, `agent-install.crt`, `agent-install-wrapper.sh`. It is in
  the container: the image runs the start script without arguments (Dockerfile:82), the
  script then takes `ocs-db/` (start-fdo-owner-service.sh:9, 244), and ocs-api its second
  argument (main.go:55); nothing reads the path of the volume that run-fdo-owner-service.sh
  mounts. So it outlives the process, if the same container is started again, and not the
  container. It is elsewhere only if the script is given a directory, as its first
  argument, or ocs-api is run by `tools/start-ocs-api.sh` (`FDO_OCS_API_DB_DIR`);
- at the **FDO Owner Service** (another program, Java, not in this repository): vouchers,
  named resources, one service info document, one redirect. They are in a database of its
  own and outlive the container.

| part | operations | state | what makes it correct |
| --- | --- | --- | --- |
| voucher routes | import 352-531, get 622-705, list 535-617 | OCS DB, Owner Service | an import leaves voucher, organisation and exec file of one and the same import; clients see only what is in their organisation; a failure never leaves a later stage without the earlier ones |
| forwarding routes | redirect, resource, svi, to0, certificate, version | Owner Service | the answer of the Owner Service reaches the client with its status; what an administrator posts is not undone by imports and restarts |
| startup | `main` 44-209, `createConfigFiles` 1196-1298, `VerifyExchangeConnection` outils 318-357 | OCS DB, Owner Service | the server listens only when the exchange was reached and the common files are at the Owner Service; a cfg that names a certificate has one |
| exchange authentication | `ExchangeAuthenticate` 358-465, `GetHTTPClient` 467-476 | the HTTP client | nobody is admitted but users of that organisation, hub administrators excepted, and the exchange's root user |
| responses | `WriteJsonResponse`, `WriteResponse`, `NewHttpError` | the connection | one status, its headers, then the body |

How they interact: handlers call the exchange (authentication), then the Owner Service
(digest authentication, no timeout), then the OCS DB, in an order that differs by route.
There are no callbacks, queues or background tasks. All shared state is outside the
process, so that what one request reads another may be in the middle of writing.

### Around it

- **Owner service container** (`src/docker/*.sh`): checks its environment, generates
  keys, starts the Owner Service, polls its health without a bound, then runs ocs-api.
- **Device side** (`src/ocs-api/scripts/agent-install-wrapper.sh`): run by the FDO
  client with the arguments in `<uuid>_exec`; chooses how to install the agent.
- **Samples** (`src/sample-mfg`, `src/sample-rv`): simulate manufacturing and rendezvous.
- **Tools, Makefile, Dockerfiles, SQL and property files**: build and convenience.

### What is hard here

1. *Interleaving.* An import is some twenty steps of file and network I/O without a lock. A client
   that retries, or two administrators, run two imports of one device at once; readers
   run among them.
2. *Atomicity.* `os.WriteFile` is an open that truncates and a write; voucher and
   organisation are two files; the exec file is written and then read back to be posted.
3. *Partial failure.* Each step may fail and none is undone. The status of an
   Owner Service answer is not looked at in an import, only whether there was one.
4. *Crash, restart, replacement.* The files and the Owner Service survive what the process
   was doing. A restart posts redirect and resources again. A new container has none of the
   files, while the Owner Service still has what it was told.
5. *Retries and waiting.* The exchange check at startup, the health loop, calls to the Owner
   Service without a timeout, also those of the start, and bodies of requests without one.

`PROJECT.json` lists each of these at its line under `hazards`, with the properties that
would catch it going wrong.

## 2. Plan

In the order of importance, each on top of the one before:

1. **OcsVouchers**, with the abstract **DeviceEnrolment** it implements: the voucher routes.
2. **OcsStartup**: the container from its start to `ListenAndServe`, with the files and
   resources that survive it and the changing environment.
3. **Provisioning**, which EXTENDS OcsVouchers and is shown to implement it: the forwarding
   routes, the one service info and the one redirect that imports, restarts and
   administrators share, calls that hang, and the device: TO2 and the wrapper it runs.
4. **ExchangeAuth**: `ExchangeAuthenticate` while the exchange changes, and the client the
   check at startup builds once. It says what stands behind `Admit` and `Refuse` in
   OcsVouchers and `AuthCall` in Provisioning. It implements the abstract **Admission**.

OcsStartup has all of a start and nobody else, Provisioning everybody else and of a start
only what they see. The abstract **StartSequence** is what both are shown to implement.

All are written, checked and proved. Section 9 says what was left out of them and why.

## 3. OcsVouchers

### State

| variable | in the program |
| --- | --- |
| `pc[r]` | where the goroutine of request r is |
| `dev[r]`, `org[r]` | the device of the voucher in the body, the organisation in the route: chosen by the client, never changed |
| `uuid[r]` | `deviceUuid`: for an import the body of the Owner Service's answer (main.go:417), for a get the last part of the route |
| `bytes[r]` | `wrapperFile` (464) of an import, `voucherBytes` (653) of a get |
| `todo[r]`, `found[r]` | the rest of `deviceDirs` and the `vouchers` of a list (583-602) |
| `dirs`, `disk[file][u]` | the OCS DB: which device directories exist, and what is in the three files |
| `held`, `resource[u]`, `svi` | the Owner Service: vouchers, the resource `<u>_exec`, whether its service info is the one every import posts |
| `answer[r]` | the status the client got, or "lost" |
| `crashes` | restarts so far, bounded by `MaxCrashes` |
| `touched`, `stored`, `forgotten` | history, read by properties only: which uuids others changed since a request arrived, which imports had their exec resource stored, which were over when a new container took the place of theirs |

### Actions

| action | lines of main.go | step |
| --- | --- | --- |
| `Send`, `Admit`, `Refuse` | 211-243, 352-391 | arrival; everything before the first effect |
| `RegisterAccepted`, `RegisterRefused`, `RegisterFails` | 388-418 | the voucher is posted: stored; turned down, and the error's text taken for the uuid; no answer, though it may be stored |
| `MkdirAll` | 420-425 | |
| `Open(r, f)`, `Write(r, f)` | 427-458 | `os.WriteFile` of the voucher, the organisation, the exec file |
| `DiskFails` | 421-458 | any of these fails: 500, nothing undone |
| `ReadExec`, `PostExec`, `PostSvi` | 460-531 | read back, post the resource, post the service info, answer |
| `ReadVoucher`, `AskOwner`, `CheckOrg` | 643-705 | get: voucher, then Owner Service, then organisation |
| `AskOwner`, `ReadDir`, `Scan`, `ScanFails`, `SendList` | 559-617 | list: a snapshot of the directory, then one file a directory |
| `CustomSvi` | 1086-1104 | an administrator's service info replaces that of the imports; the route itself is in Provisioning |
| `Crash` | | the process dies, open connections are lost, and it is started again in its container |
| `NewContainer` | start-fdo-owner-service.sh:9 | another container, between requests: the OCS DB is empty, the Owner Service as it was |
| `Idle` | | all requests are answered (so a deadlock TLC finds is a real one) |

### Abstractions, and what they leave out

- *Content.* A file is the set of imports whose bytes are in it. `{}` is truncated and not
  yet written, `{r}` the text of r alone, `{r, q}` the text of r over the start of the
  longer text of q (`Overlay`). Both writers write at offset 0, so the later one keeps what
  is longer than its own: hence `BodySize` and `OrgSize`. The exec file's length differs only
  in the organisation's name, since tokens have one length.
- *Tokens.* `GenerateNodeToken` draws from a cryptographic source; tokens are taken to differ, so that
  the import stands for its token.
- *Organisation of a device.* `getOrgidTxtStr` returns the text of the file, and the handlers
  compare it with the name in the route. What a text made of several names reads as is the
  constant `MixedName`: any organisation, or none. All that is assumed is that the empty text
  is no name and a name alone is itself. The case is real: `org1` written over `org20` leaves
  `org10`. (The names in one file differ in length, and each overlays the start of the
  longer ones, so that the set of them tells the text.)
- *A write* is one step after the open; a failing write writes nothing. A read is atomic.
- *A crash* is the death of the process: what it wrote stays written. Loss of the machine's
  page cache is not modelled. The restart is one step; what it posts is OcsStartup's. A
  container that is removed amid requests is a `Crash` and then a `NewContainer`.
- *denied* is any answer before the first effect of the request. Who is denied is
  ExchangeAuth's.
- *Error bodies* are a small set of texts, the empty one among them: with it,
  `v1/devices` itself is the directory of the import. Texts with a slash, which
  would need a parent directory of their own, are not in the set.
- *The Owner Service* stores, turns down or loses each call. It never deletes a voucher:
  ocs-api has no call for it.

### Properties

| property | what it says |
| --- | --- |
| `TypeOK` | types |
| `ImportOrder` | what one system has implies what the other has: exec resource, then files, then directory, then voucher |
| `HandlersAgree` | the same seen from a handler: its position tells what it will find. It makes `ImportOrder` inductive |
| `BytesStayWithTheirDevice` | nothing of an import reaches another device |
| `SoloImportLands` | an import that no other import of its uuid disturbs has its own text in every file it wrote, until the container goes, and at the Owner Service, whatever was there before |
| `MixedOnlyAcrossSizes` | overlapping imports mix texts of different length only; an exec file mixes organisations or nothing |
| `EmptyFileHasAWriter` | a file is empty only while it is written, or because an import ended there |
| `ImplementsEnrolment` | `DeviceEnrolment!Spec` under the mapping below |
| `ReadersStayInTheirOrg` | a client learns of a device only if it was imported into that client's organisation, or by overlapping imports into organisations whose names differ in length: that exception is `mixed_org` |
| `ListIsExact` | a list has every voucher of its organisation and no other, but for devices whose files changed meanwhile |
| `GetReturnsTheImport` | an undisturbed get is judged by what one undisturbed import recorded, in two files: it is sent that import's voucher if it asks in its organisation, and refused only in another |
| `HandlersMoveOn` | action property: no handler goes back, retries, or loops until another has written something, and the OCS DB is not taken from under one; so each takes a bounded number of steps |

"Disturbed" means that some other request wrote a file, or the resource, of that uuid between
this request's arrival and now (`touched`): also after its end, so that `SoloImportLands`
says how long what a client was told stays true. The properties of one import or one get
say what the code guarantees without locks; `MixedOnlyAcrossSizes` and
`EmptyFileHasAWriter` say what is left when requests do overlap.

`DeviceEnrolment` has four sets of devices: registered, recorded,
provisioned, confirmed. A device is recorded only when registered, and provisioned or
confirmed only when recorded; they only grow, but for a new container, which forgets all that is
recorded and nothing else. They are, in turn, `held`, the devices with an `orgid.txt`, the
devices with an exec resource, and the devices for which some import was answered 200.
One step of the handlers is one step of these or none.

## 4. OcsStartup

One thread of control, but with state that outlives it. `pc` walks through the script of
the container (`Prepare`, then the wait for the Owner Service that `OwnerIsUp` ends), and
through main: the three common files are opened and written (`Open`, `Write`, each of
`crt`, `cfg`, `wrapper`), the TO2 address is posted (`PostRedirect`), the files are read
back and posted (`Post`, `ReadFails`), the exchange is tried (`Try`, `GiveUp`), then the
server listens. `values` is what is in `v1/values`, `owner` and `redirect` what the Owner Service
has. `Start` takes the same container again, with its files (`Restart`), or another one
(`Replace`), whose environment and image may be others and whose directory is empty, unless an
operator keeps it outside of the container (section 1). `Crash` stops the container anywhere.
`Hang` leaves main waiting with a post (`hung`): the clients of main.go:97-169 have no timeout, so
that its answer, or its error, need never come. `exit` is how a start ended: `script` for the exits of the
container's script, `fatal` for `outils.Fatal`, `log.Fatal` and `log.Fatalln`,
`returned` for the early returns of `main`, after which the exit code is 0, `killed`.

Abstractions: one address stands for the whole management hub; an empty
`HZN_MGMT_HUB_CERT` is an unset one; the `*_name` files, whose text is constant and which
nothing reads, are left out; a resource is read and posted in one step, since no one else writes
the directory. The edits of the Owner Service's configuration in the script, and the
installation of Java, are one step that succeeds or fails. What administrators
post through the routes while the server runs is in Provisioning.

| property | what it says |
| --- | --- |
| `FilesAreOfThisStart` | from the write of a file on, it is what this start's environment and image say, whatever was there; only the certificate may be an older one, if this start has none |
| `NamedCertificateExists` | a cfg that names the certificate file comes with one, in the directory at any moment, and at the Owner Service unless it ever left a certificate unstored. A file that an interrupted start left empty counts as one here; `FilesAreOfThisStart` says that a server never runs with it |
| `StoredIsTheFile` | what the Owner Service stored in this start is the file in the directory |
| `DevicesGetThisStart` | when requests are served, a device that onboards gets what this start's environment and image say, but for a file the Owner Service left unstored |
| `StartIsASequence` | `StartSequence!Spec`: to the others a start is a sequence of four posts, then a server |
| `StartMovesOn` | action property: until a start ends each step brings it closer to the server, or is one more of `Retries` attempts, or leaves it waiting with a post |
| `StartEnds` | every start ends in a server or an exit, or waits for ever in its script, for Java to be installed or its Owner Service to come up, or with a post the Owner Service never answers |

`StartSequence` has two variables: the stage of a start, and the common resources the Owner
Service has from it. In `OcsStartup` these are the stage main is posting (`StageAt`; down
before the first post) and `stored`; in `Provisioning` they are `main` and the names n with
`shared[n] = starts`. So what Provisioning leaves out of a start (script, files, retries) is
shown to be invisible to the others, and what OcsStartup leaves out (clients) to leave a
start alone.

## 5. Provisioning

### What it composes

`Provisioning` EXTENDS `OcsVouchers`: an import, a get or a list takes its steps through
`Voucher(r)`, in a process that is up. Around it:

| variable | in the program |
| --- | --- |
| `main`, `starts` | the process: down, posting one of its four resources, trying the exchange, serving |
| `shared[n]` | the Owner Service: who stored the redirect, a common resource, or another of an administrator last: a start of the process or a POST |
| `target[c]`, `at[c]`, `reply[c]`, `got[c]` | a request on a forwarding route: what it is about, where its handler is, the status it got, what a read brought |
| `hung`, `hangs` | the requests that are kept waiting, by an Owner Service that does not answer or a client that does not send its body, and a bound on that |
| `rv` | devices announced to the rendezvous server |
| `boot[d]`, `plan[d]`, `script[d]` | a device: where its onboarding is, which service info it was given, and the setup.sh it got |
| `good`, `overridden`, `before`, `standing`, `seen` | history, read by properties only |

| action | source | step |
| --- | --- | --- |
| `Start`, `StartPost`, `Verify`, `Die` | main.go 81-208 | the same container or a new one (`NewContainer`); a start posts redirect, crt, cfg, wrapper, each stored, refused or unanswered; then it serves, until it dies |
| `SendCall`, `AuthCall` | 211-243, and the first part of each handler | arrival; organisation, credentials, content type and body |
| `PostRedirect`, `PostResource`, `PostCustomSvi` | 709-781, 899-971, 1050-1118 | forwarded, and answered 200 whatever the status was |
| `GetRedirect`, `GetResource`, `GetPublicKey`, `GetFdoVersion` | 785-840, 975-1046, 289-349, 263-285 | what is stored comes back, or an error's text under a 200 |
| `GetTo0`, `AutoTo0` | 844-894 | the Owner Service announces a device whose voucher it has; it also does so by itself |
| `Hang`, `Release` | 377-404, for one | a request waits (`Waiting`): no call of these handlers to the Owner Service has a timeout, nor has the reading of a body (main.go:382) |
| `Begin`, `Download`, `FollowOther`, `Break` | 484-494 | a device onboards: it is given the service info of that moment and downloads what that names |
| `Wrapper` | agent-install-wrapper.sh | it runs; in the container of the native client it only copies the files out, and is run again |

### Abstractions, and what they leave out

- *A resource is its last writer.* The texts of redirect and common resources matter to no
  property beyond who wrote them; `OcsStartup` has what a start writes.
- *Credentials* are judged in one step, `AuthCall`: ExchangeAuth has how.
- *Administrators* do not post under the name `<uuid>_exec`. The route would let them, and
  such a post is as good as an import of theirs; nothing is then promised.
- *The process is restarted by an operator.* run-fdo-owner-service.sh gives `docker run` no
  restart policy. So `main = "down"` lasts until `Start`. A start that waits for ever with a post
  is one that takes no further step here.
- *The device* is reduced to the outcome of TO1 and TO2: it is given one service info, and then
  the four files, or breaks off and may boot again. Where agent-install.sh is downloaded
  from (wrapper 57-90) makes no difference to the properties; that it may fail is `Break`.
- *Version and certificate* are what the Owner Service says; nothing here changes them.

### Properties

| property | what it says |
| --- | --- |
| `ProvTypeOK` | types |
| `ConfirmedImportOnboards` | a client who was told a token, and whose resource and service info were stored, finds every device that then begins to onboard running that token, across restarts, hanging calls and failing or later imports of others, until an administrator posts another service info or the device is imported again |
| `InstalledAsRecorded` | an installed device is known to the Owner Service and runs a token of its own, or an empty text only if imports of it overlapped; and if it has the token of an undisturbed import, the voucher, the organisation and the exec file in the OCS DB are that import's, whole, until the container goes. (After that nothing is on record, and the device is installed all the same.) |
| `DeviceRunsOneToken` | a device imported into one organisation only, by overlapping imports or not, is never given a mixture of two tokens |
| `ReadYourPosts` | an administrator who reads gets what he posted, unless another one or a restart stored that name since |
| `VouchersImplemented` | the composed system implements `OcsVouchers!Spec`: all that is checked and proved there holds here too |
| `StartIsUndisturbed` | `StartSequence!Spec`: no request comes between the posts of a start, and only an administrator of a running server replaces them |
| `EveryRequestEnds` | liveness: every request ends, except one the Owner Service or its own client keeps waiting, for which no other waits |

"Was stored" in `ConfirmedImportOnboards` is necessary: the handler answers 200 without looking
at the statuses of its posts. `good` records it at the moment of the answer. "Runs that token" is
claimed of imports that no other import of that device overlaps; `DeviceRunsOneToken`
says what is left of those that do.

## 6. ExchangeAuth

`role` and `key` are the accounts of the exchange, by organisation and name; `exCert` is
its TLS certificate, `file` the certificate file ocs-api was given, `trust` what the one
`HttpClient` trusts. `Start` builds that client (main.go 178-208, outils.go 479-535); a
request is checked without the exchange (`Check`, 359-411), sent to it (`Ask`, 412-432) and
judged by its answer (`Judge`, 430-465). Between any of these the accounts, the
certificate and the file may change (`ChangeAccount`, `Rotate`, `ReplaceFile`).

Abstractions: `cred[r].org = NoOrg` is any header that is no basic auth of the form org/user;
`deviceOrg` is that of the route, since the routes that leave it to `getDeviceOrgId` to find
are no longer registered (main.go 26-33). An API key is a password of its user. Any status but
200, 401 and 403, a failing connection and a body that cannot be read are `other`. The answer
has the one user that was asked for, as outils.go:445 assumes of the exchange. `Trusts` says which
certificates verify which; that one expires is left out, so that `TlsFailsOnlyAfterRotation` is
about certificates that do not.

| property | what it says |
| --- | --- |
| `AdmittedWasEntitled` | who is admitted was entitled at some moment since the request arrived: the root user, or a user of that organisation who is no hub administrator |
| `EntitledIsNotDenied` | who is entitled all that time gets, at worst, an error; never that his credentials are wrong |
| `JudgedAtOneInstant` | `Admission!Spec`: who is admitted or denied was judged by what was true of him at one instant of his wait |
| `TlsFailsOnlyAfterRotation` | certificates fail a request only if the exchange changed its own in this start: never for what happens to the file |

`Admission` has who is entitled now, who waits, what was found of each, and what each was told.
Only the step `Look` reads who is entitled, and only once a request. Entitled are the
requests with `Entitled(r)`; what was found is what the answer of the exchange says
(`Opinion`). So the organisation checked before the call, the status, and the role read
from the body after it never add up to a verdict that was right at no moment. A request
that is denied without the exchange (`Check`) is denied by what is true at that moment.

`EntitledIn` is the reference: it is written from the comments at outils.go:377, 392 and
453, not from the code, and in terms of the accounts, which the code does not see.

## 7. Runs

| run | instance | checks |
| --- | --- | --- |
| `import` | 2 imports, 2 devices, 2 error bodies, 2 organisations, unequal lengths, 1 crash | the invariants of imports, and the refinement |
| `get` | 2 imports, 1 get, 1 device, 3 organisations, the mixed name of the first two being the third | `GetReturnsTheImport`, `ReadersStayInTheirOrg` |
| `list` | 2 imports, 1 list, 2 devices, 2 organisations | `ListIsExact`, `HandlersMoveOn` |
| `guid` | 1 import | `SuccessReturnsGuid`, violated |
| `client_org` | 2 imports, 1 get | `VoucherIsInClientsOrg`, violated |
| `mixed_org` | 2 imports, 1 get, organisations as in `get` | `ReaderIsToldOfHisOwn`, violated |
| `startup` | 3 starts, 2 certificates or none, 2 hubs, 2 images, 2 retries, fair | the properties of OcsStartup: 5 invariants, `StartMovesOn`, the refinement `StartIsASequence`, and `StartEnds` |
| `no_cert` | 1 start | `CertificateIsOptional`, violated |
| `provision` | 2 imports, 1 device, 2 organisations, 1 post of a service info, 1 crash | `ConfirmedImportOnboards`, `InstalledAsRecorded`, `DeviceRunsOneToken` |
| `admin` | 1 import, 1 device, 1 post, 1 read, 2 starts, 5 things they may be about | `ProvTypeOK`, `ConfirmedImportOnboards`, `InstalledAsRecorded`, `ReadYourPosts`, and the refinements `VouchersImplemented` and `StartIsUndisturbed` |
| `live` | 1 import, 1 list, 1 TO0, 2 hanging calls, 1 crash, fair | `EveryRequestEnds` |
| `auth` | 1 request, 2 organisations, 2 names, 2 passwords, 1 private certificate and a public one, 2 starts, 3 changes | the invariants of ExchangeAuth, and the refinement `JudgedAtOneInstant` |

*Why these bounds.* Two imports are the fewest that overlap, repeat (one after the other,
a retry) or disagree, and every property of imports speaks of one or a pair. Two devices,
two organisations and two lengths tell all pairs apart. One crash may fall between any two
steps of either import, and imports sent after it meet what it left. A reader meets every
intermediate state of two imports. The proofs have no such bounds. In `import` neither
imports nor organisations are symmetric, because their sizes differ, and no symmetry is
used there. `get`, `mixed_org` and `list` have vouchers of equal length, and imports as symmetric;
`list` has organisations of equal length, and devices and organisations as symmetric too.

For startup, three starts are a first one, one that is interrupted in its files, and one that meets them;
two values of each setting tell a stale text from a current one; two retries
have a first, a last and an exhausted attempt. `startup` also checks a liveness property, and so uses no symmetry.

`provision`, `admin` and `live` explore only starts whose four posts were all stored (the
constraint `StartStoresAll` of MCProvisioning): no handler reads `shared` to decide what to
do, and a device whose common files are missing only breaks off, so that the other starts
add states and no behaviour of interest; `OcsStartup` has them, and the proofs cover them.
The constraint cuts off whole starts before they serve, so that it hides no request of
`live` from `EveryRequestEnds`. In `provision` the two imports are the two that race for
a device; in `admin` one import is enough, since the interest is in what a second start, in the same
container or a new one, and an administrator do to it. `provision` has one start, which its two
imports come after or which a crash ends; two starts are in `admin` and in the proofs. In `auth` one request suffices, because requests share nothing but
the client, which none of them changes. A private certificate and the public one are the two the exchange may
change between, and a file with the one, or none, the two it may have been changed to; three changes are one to let a request in, one
to throw it out and one of the certificate or the file.

*Fairness.* `ProvFairness` (run `live`) assumes weak fairness of each request's handler: a
goroutine that can run is scheduled, each call to the exchange returns, because its
client has a timeout (outils.go:484), and each call to the Owner Service, and each body of a
client, comes to an end unless it is kept back (`hung`). Nothing is assumed of clients: whether
one sends a request (`SendCall`) or the body of it (main.go:382, with no timeout on the server);
nor of starts, crashes, hanging calls or of which answer a call gives. A hanging call need
never end: `EveryRequestEnds` excepts it
itself and nobody else, which is what running in goroutines without a lock buys (the mutant
takes `KeyImportLock` of main.go:42).

In OcsStartup `FairSpec` assumes weak fairness of `~hung /\ Main`: main, when it is not kept waiting
with a post, takes its next step, for file calls return, and so do the calls to the exchange, whose
client has a timeout. Nothing is assumed of a post that is kept waiting, of `Start` or `Crash`, nor
of the script: it may install Java from the network (start-fdo-owner-service.sh:159-170), and
waits for the Owner Service without a bound (234).

*Mutants.* Each property of a passing run has a mutant: a definition of its module changed
the way a plausible mistake in the code would change it (the operators marked "Mutant", next to
the definition they replace). TLC then finds the property violated under the same cfg, so
none of them holds by the shape of the model.

### Findings

- **`guid`** The import takes any body the Owner Service answers for the uuid, without
  looking at the status (main.go:417). README.md:194 says that a successful import answers with the
  guid. An error body becomes a device directory, files and a resource, and
  is answered 200.
- **`mixed_org`** The organisation check compares the raw text of `orgid.txt` (main.go:598, 689,
  1157-1174). Two overlapping imports into organisations whose names differ in length leave the
  shorter over the start of the longer one (438): `org1` over `org20` is `org10`, and a client of
  `org10` is sent the voucher, although main.go:682 announces the check that it is in his
  organisation. `ReadersStayInTheirOrg` says that this is the only such case.
- **`client_org`** A get reads the voucher, calls the Owner Service, and then reads
  `orgid.txt` (main.go:653, 684); an import writes the two files one after the other
  (430, 438). A re-import into another organisation can come between: the
  check that main.go:682 announces is made against another organisation's file than the voucher that is sent.
- **`no_cert`** `docker/run-fdo-owner-service.sh:11` lets `HZN_MGMT_HUB_CERT` be 'N/A', and
  `createConfigFiles` then writes a cfg without certificate. But `main` reads
  `agent-install.crt` in any case (main.go:114): in a new container it is not there, and `main` returns,
  before it listens, without a message and with exit code 0. In a directory that an earlier start with
  a certificate has left, the old one is there, and the server comes up.

One more needs no run to be seen: `getFdoTo0Handler` answers 200 with whatever body it was sent, and
never looks at the status (main.go:874-893, `GetTo0`), although docs/ocs-api-swagger.yml:232 promises
404 for a device that is not there. The other forwarding routes do the same with every error of the
Owner Service.

## 8. Proofs

`OcsVouchers_proofs.tla`, for all sets of requests, devices, error bodies and
organisations, all lengths and any bound of crashes, from the assumptions named in
`OcsVouchers.tla`: the three kinds of requests are disjoint, guids and error
bodies are disjoint and neither is `None`, lengths are natural numbers, and an
`orgid.txt` with one name reads as that name, an empty one as none. What mixed names read
as is left open.

| theorem | states |
| --- | --- |
| `TypeCorrect` | `Spec => []TypeOK` |
| `AgreementHolds` | `Spec => []HandlersAgree` |
| `OrderHolds` | `Spec => []ImportOrder` |
| `SoloImportsLand` | `Spec => []SoloImportLands` |
| `Implementation` | `Spec => ImplementsEnrolment` |

The argument. `ImportOrder` relates three files, a directory and two databases and is not inductive:
that a write of `openOrgid` finds its directory depends on where the handler is.
`HandlersAgree` adds exactly that, import by import, and is inductive because everything it
asks of `held`, `dirs` and `disk` only grows while requests are in progress (`NextGrows`): another request can
never take it away (`OthersAgree`), and the request's own step establishes it
(`StillAgrees`, `NextAgrees`). A new container does take the files, but then no request is
in progress to miss them, and every import that had its resource stored is `forgotten`.
That a resource still has its voucher then is why `ImportOrder` speaks of resources, too.
It follows step by step (`NextOrder`).
`SoloImportLands` needs no further strengthening beyond `HandlersAgree`: a step of another request either leaves
the files of this uuid alone or puts the uuid into `touched`, which makes the claim vacuous
from then on (`OthersLand`), and the own steps truncate before they write (`NextLands`).
`Implementation` maps each step: `Register` for an accepted or lost registration, `Record` for
the open of `orgid.txt`, `Provision` for a stored exec resource, `Confirm` for the
answer 200, `Forget` for a new container, a stutter for the rest. The guards of `Record`, `Provision` and `Confirm` are
instances of `HandlersAgree` and `ImportOrder`.

`OcsTexts_proofs.tla`, which EXTENDS that module and so stands on the same assumptions, proves
what is said about the texts in the files and about readers:

| theorem | states |
| --- | --- |
| `TextsStay` | `Spec => []BytesStayWithTheirDevice` |
| `MixturesAreAcrossSizes` | `Spec => []MixedOnlyAcrossSizes` |
| `EmptyFilesHaveWriters` | `Spec => []EmptyFileHasAWriter` |
| `GetsReturnTheImport` | `Spec => []GetReturnsTheImport` |
| `ListsAreExact` | `Spec => []ListIsExact` |
| `ReadersStay` | `Spec => []ReadersStayInTheirOrg` |
| `AllMoveOn` | `Spec => HandlersMoveOn` |

Each is close to inductive once `HandlersAgree` is there. Mixtures need the
strengthening that a text read back by an import is a mixture of the same kind; a
list rests on `touched`, which every write of another request adds to.
For `GetsReturnTheImport` two requests are related before they meet: while both are undisturbed,
the get has the voucher of that import, or the import's own steps would have disturbed it
(`GetsMatch`); the files at each of the get's two reads are the import's by `SoloImportLands`, and
a new container, which would take them, finds no get in progress. `ReadersStay` needs that every file
with several texts comes from imports that overlapped (`FilesOverlap`), and that these differ in
length: so a text that reads as a name nobody imported it under has two different names in it.
`AllMoveOn` needs types only: each step of a handler goes up in `Place`, the order of the
steps of all routes, or visits one directory of the snapshot. With the bound this gives,
all that `EveryRequestEnds` needs besides is that a handler which can step does.

`OcsStartup_proofs.tla`, for all certificates, hubs and images, any number of retries and
starts, from the assumptions that the texts of files are neither `NoFile` nor `Empty`:

| theorem | states |
| --- | --- |
| `TypeCorrect` | `Spec => []StartupTypeOK` |
| `FilesHold` | `Spec => []FilesAreOfThisStart` |
| `StoredHolds` | `Spec => []StoredIsTheFile` |
| `NamedHolds` | `Spec => []NamedCertificateExists` |
| `DevicesGetTheirs` | `Spec => []DevicesGetThisStart` |
| `StartImplementsSequence` | `Spec => StartIsASequence` |
| `StartsMoveOn` | `Spec => StartMovesOn` |

Types need `NoCertNoWrite`: the steps that write the certificate are not reached
without one. `FilesAreOfThisStart` is inductive on top of types, since a file is opened only
before the steps that come after its write. `NamedCertificateExists` is not: that a cfg which names the certificate is posted
after the certificate needs the order of the posts (`Posting`), and that it is
written after the certificate needs `FilesAreOfThisStart`. `DevicesGetThisStart` joins
three of these: main passes no post without making it (`Offered`), what was stored is what
is in the directory (`Posting`), and that is what this start wrote (`FilesAreOfThisStart`).
For `StartImplementsSequence` the steps before the first post, those that try the exchange,
and those that only prepare to listen are stutters; that nothing is fresh when the sequence
begins is again `Posting`.

`ExchangeAuth_proofs.tla`, for all requests, organisations, names, passwords and
certificates, from the assumptions that root is an organisation and a name, and that the
constants standing for absence are no others:

| theorem | states |
| --- | --- |
| `TypeCorrect` | `Spec => []AuthTypeOK` |
| `AdmittedOnlyEntitled` | `Spec => []AdmittedWasEntitled` |
| `EntitledNeverDenied` | `Spec => []EntitledIsNotDenied` |
| `TlsFailuresExplained` | `Spec => []TlsFailsOnlyAfterRotation` |
| `AuthImplementsAdmission` | `Spec => JudgedAtOneInstant` |

The invariant they share, `IInv`, has two parts. `TrustedUnlessRotated`: a server that is up trusts
the exchange's certificate, unless that was replaced in this start; nothing after `Start` touches
`trust`. And for each request: from `ask` on its organisation fits its route; while it waits,
entitled now implies `once`, and `always` implies entitled now; an answer that
would admit it was given at a moment it was entitled, and one that would deny it at a
moment it was not; and the verdict keeps that. The accounts may change after
the answer was given, which is why the answer has to be related to the two histories and not to
the accounts.

`AuthImplementsAdmission` maps `Send` to `Arrive`, an `Ask` that brings an answer about the
credentials to `Look`, `Judge` and the denials of `Check` to `Admit`, `Deny` and `Fail`,
`Die` to `LoseAll`, and any change of an account to `Change`; a failing call and a change
nobody's credentials depend on are stutters. Two facts carry it: what the exchange answers
is true when it answers (`OpinionIsTrue`, which needs that the organisation already fits the
route), and a handler that has not asked holds no answer (`Unasked`).

`Provisioning_proofs.tla` EXTENDS `OcsTexts_proofs` and stands on its assumptions, on
disjoint kinds of requests and on names that differ:

| theorem | states |
| --- | --- |
| `VouchersKept` | `ProvSpec => VouchersImplemented` |
| `VouchersSafe` | `ProvSpec` implies `ImplementsEnrolment`, `HandlersMoveOn` and the invariants of imports and readers |
| `ProvTypeCorrect` | `ProvSpec => []ProvTypeOK` |
| `InstalledAreAsRecorded` | `ProvSpec => []InstalledAsRecorded` |
| `OneTokenRuns` | `ProvSpec => []DeviceRunsOneToken` |
| `ConfirmedImportsOnboard` | `ProvSpec => []ConfirmedImportOnboards` |
| `PostsAreRead` | `ProvSpec => []ReadYourPosts` |
| `StartsAreUndisturbed` | `ProvSpec => StartIsUndisturbed` |

`VouchersKept` maps every step to one of `OcsVouchers` or to a stutter; a start to a
`NewContainer`, or a stutter if the container is the same. With it every
property proved there becomes a fact here, which `VouchersSafe` spells out. A device has what the resource
had when it downloaded it (`OwnScript`, `ScriptOrigins`); that it belongs to that device is
`BytesStayWithTheirDevice` at that moment, that the Owner Service knows the device is `ImportOrder`,
which no new container takes away, and that the OCS DB has the same import whole is
`SoloImportLands`, since an undisturbed import whose text a device has did store it. `OneTokenRuns` takes the
strengthening of `MixedOnlyAcrossSizes` through the download: what the Owner Service has of
a device mixes texts of unequal length only, and in one organisation all have one length. `ConfirmedImportOnboards`
needs, of each import in `good \ overridden`, that the service info is still the imports',
and of each import in `good` that its resource is still its own while nobody else
touched the device (`SoloImportLands`); of a device that began, that its plan is the
standard one from then on; and of one that downloaded, that its script was that
resource. `ReadYourPosts` needs that `shared[target[p]] = p` for each post in `standing`,
and that a post a call has seen and which still stands has stood all along: a post that
leaves `standing` is done and never comes back. `StartsAreUndisturbed` needs that no resource is
of a start yet to come (`OfThePast`), so that none counts as a new start's before it posts, and
that a post of an administrator is no start.

*Only model-checked:* `EveryRequestEnds` and `StartEnds`, since liveness under fairness is
outside what the prover supports; what they need of the steps themselves is proved, as
`AllMoveOn` and `StartsMoveOn`. Every invariant, every action property and all five
refinements are proved.

## 9. Not modelled

- *Response helpers.* `WriteJsonResponse`, `WriteResponse`, `NewHttpError`: straight-line
  code. That `WriteHeader` is called before the content type is set, and then again
  by the helper, shows in one test of any route.
- *Connections.* Bodies that are never closed (main.go:481, 509; outils.go:431) cost descriptors
  until the other side or a timeout closes them. The models have no connections.
- *Tokens.* `GenerateNodeToken` (outils.go:126) draws characters from a cryptographic source; that
  two tokens differ is an assumption here.
- *The Owner Service, the exchange and the FDO client* are other programs; they
  appear as far as ocs-api uses them.
- *Scripts.* `run-fdo-owner-service.sh` composes two `docker run` commands;
  `start-fdo-owner-service.sh` edits configuration with sed; the samples in `sample-mfg` and
  `sample-rv` install packages and start other programs, once and in a fixed order.
- *Development tools, Makefile, Dockerfiles, SQL and property files* have no behaviour
  in the running system.
- *Unused code.* `data.go`, `KeyImportLock`, `getNodeTokenTxtStr`, `RunCmd`, `DownloadFile`,
  `MakeExecCmd`, `ParseJsonString`, `ReadJsonBody`, `IsValidPostJson`, `IsValidPostBinary`, `chkHttp` of the start script, and the
  part of `getDeviceOrgId` for routes without an organisation: nothing calls them.
