------------------------- MODULE Provisioning_proofs -------------------------
(***************************************************************************)
(* Proofs about Provisioning, for every number of requests, devices,       *)
(* administrators, restarts, crashes and hanging calls.                    *)
(***************************************************************************)
EXTENDS Provisioning, OcsTexts_proofs

\* The next-state relation, one disjunct per action.
LEMMA ProvCases ==
    ASSUME [ProvNext]_provVars
    PROVE  \/ Start \/ StartPost \/ Verify \/ Die
           \/ \E r \in Requests : Voucher(r)
           \/ \E c \in Calls : SendCall(c) \/ AuthCall(c)
           \/ \E c \in Posts : PostRedirect(c) \/ PostResource(c) \/ PostCustomSvi(c)
           \/ \E c \in Reads : GetRedirect(c) \/ GetResource(c) \/ GetPublicKey(c) \/ GetFdoVersion(c)
           \/ \E c \in To0s : GetTo0(c)
           \/ \E p \in Requests \cup Calls : Hang(p) \/ Release(p)
           \/ \E d \in Devices : \/ AutoTo0(d) \/ Begin(d) \/ Download(d) \/ Wrapper(d)
                                 \/ FollowOther(d) \/ Break(d)
           \/ UNCHANGED provVars
BY DEF ProvNext, Call, Device, Rest

----------------------------------------------------------------------------
(***************************************************************************)
(* The voucher routes do what OcsVouchers says.                            *)
(***************************************************************************)
LEMMA ProvStep == [ProvNext]_provVars => [Next]_vars
<1> SUFFICES ASSUME [ProvNext]_provVars PROVE [Next]_vars
  OBVIOUS
<1>1. ASSUME StartPost \/ Verify
      PROVE  UNCHANGED vars
  BY <1>1 DEF StartPost, Verify
<1>2. ASSUME Start \/ Die
      PROVE  [Next]_vars
  BY <1>2 DEF Start, Die, Next
<1>3. ASSUME NEW r \in Requests, Voucher(r)
      PROVE  Next
  BY <1>3 DEF Voucher, Next
<1>4. ASSUME NEW c \in Calls, SendCall(c) \/ AuthCall(c) \/ GetTo0(c)
      PROVE  UNCHANGED vars
  BY <1>4 DEF SendCall, AuthCall, GetTo0
<1>5. ASSUME NEW c \in Posts, PostRedirect(c) \/ PostResource(c) \/ PostCustomSvi(c)
      PROVE  [Next]_vars
  BY <1>5 DEF PostRedirect, PostResource, PostCustomSvi, Forward, Next
<1>6. ASSUME NEW c \in Reads, GetRedirect(c) \/ GetResource(c) \/ GetPublicKey(c) \/ GetFdoVersion(c)
      PROVE  UNCHANGED vars
  BY <1>6 DEF GetRedirect, GetResource, GetPublicKey, GetFdoVersion, Fetched
<1>7. ASSUME NEW p \in Requests \cup Calls, Hang(p) \/ Release(p)
      PROVE  UNCHANGED vars
  BY <1>7 DEF Hang, Release
<1>8. ASSUME NEW d \in Devices,
             AutoTo0(d) \/ Begin(d) \/ Download(d) \/ Wrapper(d) \/ FollowOther(d) \/ Break(d)
      PROVE  UNCHANGED vars
  BY <1>8 DEF AutoTo0, Begin, Download, Wrapper, FollowOther, Break
<1>9. UNCHANGED provVars => UNCHANGED vars
  BY DEF provVars
<1> QED
  BY <1>1, <1>2, <1>3, <1>4, <1>5, <1>6, <1>7, <1>8, <1>9, ProvCases DEF Calls

\* Whatever else writes to the Owner Service, dies or hangs, and whether a start finds the OCS
\* DB as it was left or a new container, the voucher routes keep to OcsVouchers.
THEOREM VouchersKept == ProvSpec => VouchersImplemented
<1>1. ProvInit => Init
  BY DEF ProvInit
<1> QED
  BY <1>1, ProvStep, PTL DEF ProvSpec, VouchersImplemented, Spec

\* So what is promised of the voucher routes alone is kept among administrators, restarts, new
\* containers, devices and hanging calls: the enrolment of the devices, the progress of each
\* request, what is in the files, and that a reader is sent what was imported and told of his
\* own organisation's devices.
THEOREM VouchersSafe ==
    ProvSpec => /\ ImplementsEnrolment
                /\ HandlersMoveOn
                /\ [](ImportOrder /\ SoloImportLands /\ EmptyFileHasAWriter)
                /\ [](BytesStayWithTheirDevice /\ MixedOnlyAcrossSizes)
                /\ [](GetReturnsTheImport /\ ListIsExact /\ ReadersStayInTheirOrg)
<1>1. Spec => ImplementsEnrolment /\ HandlersMoveOn
  BY Implementation, AllMoveOn
<1>2. Spec => [](ImportOrder /\ SoloImportLands /\ EmptyFileHasAWriter)
  BY OrderHolds, SoloImportsLand, EmptyFilesHaveWriters, PTL
<1>3. Spec => [](BytesStayWithTheirDevice /\ MixedOnlyAcrossSizes)
  BY TextsStay, MixturesAreAcrossSizes, PTL
<1>4. Spec => [](GetReturnsTheImport /\ ListIsExact /\ ReadersStayInTheirOrg)
  BY GetsReturnTheImport, ListsAreExact, ReadersStay, PTL
<1> QED
  BY <1>1, <1>2, <1>3, <1>4, VouchersKept DEF VouchersImplemented

----------------------------------------------------------------------------
(***************************************************************************)
(* What is known of the voucher routes, in every state of Provisioning.    *)
(***************************************************************************)
VInv ==
    /\ TypeOK /\ HandlersAgree /\ HistoryAgrees /\ AnsweredDone /\ AllLand
    /\ Unread /\ BytesStayWithTheirDevice /\ FilesUnequal /\ ExecsUnequal /\ FilesOverlap
    /\ Touchers /\ ResourceOrigins /\ ImportOrder

LEMMA VouchersInit == Init => VInv
<1>1. Init => ImportOrder
  BY DEF Init, ImportOrder, Files
<1> QED
  BY <1>1, InitTell DEF VInv, TextsTell

LEMMA VouchersNext == VInv /\ [Next]_vars => VInv'
<1>1. VInv <=> TextsTell /\ ImportOrder
  BY DEF VInv, TextsTell
<1>2. VInv' <=> TextsTell' /\ ImportOrder'
  BY DEF VInv, TextsTell
<1> QED
  BY <1>1, <1>2, NextTell, NextOrder DEF VInv

\* What an import was told, what it stored and whom it is about stay as they are.
LEMMA ImportsKept ==
    ASSUME VInv, [Next]_vars
    PROVE  /\ OwnerGrows
           /\ \A q \in Imports : uuid[q] \in Uuids => uuid'[q] = uuid[q]
           /\ \A q \in Imports : Answered200(q) => Answered200(q)'
           /\ stored \subseteq stored'
           /\ \A q \in Imports : touched[q] \subseteq touched'[q]
<1>1. OwnerGrows
  BY NextGrows DEF VInv
<1>2. \A q \in Imports : uuid[q] \in Uuids => uuid'[q] = uuid[q]
  BY UuidStep DEF VInv
<1>3. \A q \in Imports : Answered200(q) => Answered200(q)'
  <2> SUFFICES ASSUME NEW q \in Imports, Answered200(q) PROVE answer'[q] = answer[q]
    BY DEF Answered200
  <2>1. q \in Requests /\ pc[q] = "done"
    BY DEF VInv, AnsweredDone, Answered200, Requests
  <2> QED
    BY <2>1, OwnStep, HandleMoves DEF VInv
<1>4. stored \subseteq stored'
  <2>1. ASSUME NEW r \in Imports, PostExec(r)
        PROVE  stored \subseteq stored'
    BY <2>1 DEF PostExec, StoreExec, history
  <2>2. ASSUME NEW r \in Imports, NEW f \in Files, Open(r, f) \/ Write(r, f)
        PROVE  UNCHANGED stored
    BY <2>2 DEF Open, Write
  <2>3. ASSUME NEW r \in Requests,
               \/ Send(r) \/ Admit(r) \/ Refuse(r)
               \/ RegisterAccepted(r) \/ RegisterRefused(r) \/ RegisterFails(r) \/ MkdirAll(r)
               \/ DiskFails(r) \/ ReadExec(r) \/ PostSvi(r)
               \/ ReadVoucher(r) \/ CheckOrg(r) \/ AskOwner(r)
               \/ ReadDir(r) \/ Scan(r) \/ ScanFails(r) \/ SendList(r)
        PROVE  UNCHANGED stored
    BY <2>3 DEF Send, Admit, Refuse, RegisterAccepted, RegisterRefused, RegisterFails, MkdirAll,
                DiskFails, ReadExec, PostSvi, ReadVoucher, CheckOrg, AskOwner, ReadDir,
                Scan, ScanFails, SendList, history
  <2>4. ASSUME Crash \/ NewContainer \/ CustomSvi \/ UNCHANGED vars
        PROVE  UNCHANGED stored
    BY <2>4 DEF Crash, NewContainer, CustomSvi, vars, history
  <2> QED
    BY <2>1, <2>2, <2>3, <2>4, NextCases DEF Requests
<1>5. \A q \in Imports : touched[q] \subseteq touched'[q]
  BY TouchStep DEF VInv, Requests
<1> QED
  BY <1>1, <1>2, <1>3, <1>4, <1>5

\* No voucher route takes the service info of the imports back.
LEMMA SviKept ==
    ASSUME NEW r \in Requests, Send(r) \/ Handle(r), svi
    PROVE  svi'
<1>1. ASSUME NEW f \in Files, Open(r, f) \/ Write(r, f)
      PROVE  svi'
  BY <1>1 DEF Open, Write, owner
<1>2. ASSUME \/ RegisterAccepted(r) \/ RegisterRefused(r) \/ RegisterFails(r) \/ MkdirAll(r)
             \/ DiskFails(r) \/ ReadExec(r) \/ PostExec(r)
      PROVE  svi'
  BY <1>2 DEF RegisterAccepted, RegisterRefused, RegisterFails, MkdirAll, DiskFails, ReadExec,
              PostExec, owner
<1>3. PostSvi(r) => svi'
  BY DEF PostSvi
<1>4. ASSUME Send(r) \/ Admit(r) \/ Refuse(r) \/ Get(r) \/ List(r)
      PROVE  svi'
  BY <1>4 DEF Send, Admit, Refuse, Get, List, ReadVoucher, AskOwner, CheckOrg, ReadDir, Scan,
              ScanFails, SendList, owner
<1> QED
  BY <1>1, <1>2, <1>3, <1>4 DEF Handle, Import

LEMMA VouchersInv == ProvSpec => []VInv
<1>1. ProvInit => VInv
  BY VouchersInit DEF ProvInit
<1>2. VInv /\ [ProvNext]_provVars => VInv'
  BY ProvStep, VouchersNext
<1> QED
  BY <1>1, <1>2, PTL DEF ProvSpec

----------------------------------------------------------------------------
(***************************************************************************)
(* Types.                                                                  *)
(***************************************************************************)
LEMMA StartNames ==
    /\ DOMAIN ThenPost = {"redirect", "crt", "cfg", "wrapper"}
    /\ DOMAIN ThenPost \subseteq Shared
    /\ \A m \in DOMAIN ThenPost : ThenPost[m] \in {"crt", "cfg", "wrapper", "verify"}
BY DEF ThenPost, Shared, Resources, Common

\* A process that runs was started.
Started == main # "down" => starts \in Starts

LEMMA ProvInitType == ProvInit => ProvTypeOK /\ Started
<1> SUFFICES ASSUME ProvInit PROVE ProvTypeOK /\ Started
  OBVIOUS
<1>1. main = "down" /\ starts \in 0 .. MaxStarts /\ hangs \in 0 .. MaxHangs
  BY ProvBoundsAssumption DEF ProvInit
<1> QED
  BY <1>1 DEF ProvInit, ProvTypeOK, Started, Codes

LEMMA StoreType ==
    ASSUME ProvTypeOK, NEW n \in Shared, NEW w \in Starts \cup Posts, NEW told \in BOOLEAN,
           told => w \in Posts, Store(n, w, told)
    PROVE  /\ shared' \in [Shared -> Starts \cup Posts \cup {Nobody}]
           /\ standing' \subseteq Posts
BY DEF Store, ProvTypeOK

LEMMA FinishType ==
    ASSUME ProvTypeOK, NEW c \in Calls, NEW code \in Codes, Finish(c, code)
    PROVE  /\ at' \in [Calls -> {"new", "auth", "call", "done"}]
           /\ reply' \in [Calls -> Codes \cup {"none"}]
BY DEF Finish, ProvTypeOK

LEMMA NextStarted == ProvTypeOK /\ Started /\ [ProvNext]_provVars => Started'
<1> SUFFICES ASSUME ProvTypeOK, Started, [ProvNext]_provVars PROVE Started'
  OBVIOUS
<1>1. CASE Start
  BY <1>1, ProvBoundsAssumption DEF Start, ProvTypeOK, Started, Starts
<1>2. CASE StartPost \/ Verify \/ Die
  <2>1. starts' = starts /\ main # "down"
    BY <1>2, StartNames DEF StartPost, Verify, Die
  <2> QED
    BY <2>1 DEF Started
<1>3. ASSUME \/ \E r \in Requests : Voucher(r)
             \/ \E c \in Calls : SendCall(c) \/ AuthCall(c) \/ GetTo0(c)
             \/ \E p \in Requests \cup Calls : Hang(p) \/ Release(p)
             \/ UNCHANGED provVars
      PROVE  UNCHANGED server
  BY <1>3 DEF Voucher, SendCall, AuthCall, GetTo0, Hang, Release, provVars
<1>4. ASSUME NEW c, \/ PostRedirect(c) \/ PostResource(c) \/ PostCustomSvi(c)
                    \/ GetRedirect(c) \/ GetResource(c) \/ GetPublicKey(c) \/ GetFdoVersion(c)
      PROVE  UNCHANGED server
  BY <1>4 DEF PostRedirect, PostResource, Forward, PostCustomSvi, GetRedirect, GetResource,
              GetPublicKey, GetFdoVersion, Fetched
<1>5. ASSUME NEW d \in Devices, \/ AutoTo0(d) \/ Begin(d) \/ Download(d) \/ Wrapper(d)
                               \/ FollowOther(d) \/ Break(d)
      PROVE  UNCHANGED server
  BY <1>5 DEF AutoTo0, Begin, Download, Wrapper, FollowOther, Break
<1> QED
  BY <1>1, <1>2, <1>3, <1>4, <1>5, ProvCases DEF Started, server, Calls

LEMMA ProvNextType == VInv /\ ProvTypeOK /\ Started /\ [ProvNext]_provVars => ProvTypeOK'
<1> SUFFICES ASSUME VInv, ProvTypeOK, Started, [ProvNext]_provVars PROVE ProvTypeOK'
  OBVIOUS
<1> USE DEF ProvTypeOK, calls, waits, device, promises, server
<1>1. CASE Start
  <2>1. starts' \in 0 .. MaxStarts
    BY <1>1, ProvBoundsAssumption DEF Start
  <2>2. main' \in DOMAIN ThenPost
    BY <1>1, StartNames DEF Start
  <2> QED
    BY <1>1, <2>1, <2>2 DEF Start
<1>2. CASE StartPost
  <2>1. main' \in {"down", "verify", "serving"} \cup DOMAIN ThenPost
    BY <1>2, StartNames DEF StartPost
  <2>2. /\ shared' \in [Shared -> Starts \cup Posts \cup {Nobody}]
        /\ standing' \subseteq Posts
    <3>1. CASE Store(main, starts, FALSE)
      <4>1. starts \in Starts /\ main \in Shared
        BY <1>2, StartNames DEF StartPost, Started
      <4> QED
        BY <3>1, <4>1 DEF Store
    <3> QED
      BY <1>2, <3>1 DEF StartPost
  <2> QED
    BY <1>2, <2>1, <2>2 DEF StartPost
<1>3. CASE Verify
  BY <1>3 DEF Verify
<1>4. CASE Die
  <2>1. at' \in [Calls -> {"new", "auth", "call", "done"}]
    BY <1>4 DEF Die
  <2>2. reply' \in [Calls -> Codes \cup {"none"}]
    BY <1>4 DEF Die, Codes
  <2> QED
    BY <1>4, <2>1, <2>2 DEF Die
<1>5. ASSUME NEW r \in Requests, Voucher(r)
      PROVE  ProvTypeOK'
  BY <1>5 DEF Voucher, ConfirmedNow
<1>6. ASSUME NEW c \in Calls, SendCall(c)
      PROVE  ProvTypeOK'
  <2>1. at' \in [Calls -> {"new", "auth", "call", "done"}]
    BY <1>6 DEF SendCall
  <2>2. seen' \in [Calls -> SUBSET Posts]
    BY <1>6 DEF SendCall
  <2> QED
    BY <1>6, <2>1, <2>2 DEF SendCall
<1>7. ASSUME NEW c \in Calls, AuthCall(c)
      PROVE  ProvTypeOK'
  <2>1. /\ at' \in [Calls -> {"new", "auth", "call", "done"}]
        /\ reply' \in [Calls -> Codes \cup {"none"}]
    BY <1>7 DEF AuthCall, Finish, Codes
  <2> QED
    BY <1>7, <2>1 DEF AuthCall
<1>8. ASSUME NEW c \in Posts, NEW n \in Shared, Forward(c, n)
      PROVE  ProvTypeOK'
  <2>1. PICK code \in {"200", "400", "500"} :
          /\ Finish(c, code)
          /\ Store(n, c, code = "200") \/ UNCHANGED <<shared, standing>>
    BY <1>8 DEF Forward
  <2>2. c \in Calls /\ code \in Codes
    BY DEF Calls, Codes
  <2>3. /\ at' \in [Calls -> {"new", "auth", "call", "done"}]
        /\ reply' \in [Calls -> Codes \cup {"none"}]
    BY <2>1, <2>2, FinishType
  <2>4. /\ shared' \in [Shared -> Starts \cup Posts \cup {Nobody}]
        /\ standing' \subseteq Posts
    BY <2>1 DEF Store
  <2> QED
    BY <1>8, <2>3, <2>4 DEF Forward
<1>9. ASSUME NEW c \in Posts, PostRedirect(c) \/ PostResource(c)
      PROVE  ProvTypeOK'
  BY <1>8, <1>9 DEF PostRedirect, PostResource, Shared
<1>10. ASSUME NEW c \in Posts, PostCustomSvi(c)
       PROVE  ProvTypeOK'
  <2>1. /\ at' \in [Calls -> {"new", "auth", "call", "done"}]
        /\ reply' \in [Calls -> Codes \cup {"none"}]
    BY <1>10, FinishType DEF PostCustomSvi, Calls, Codes
  <2>2. overridden' \subseteq good
    BY <1>10 DEF PostCustomSvi
  <2> QED
    BY <1>10, <2>1, <2>2 DEF PostCustomSvi
<1>11. ASSUME NEW c \in Reads, NEW w \in Starts \cup Posts \cup {Nobody},
              Fetched(c, w, {"400", "500"}) \/ Fetched(c, w, {"400"})
       PROVE  ProvTypeOK'
  <2>1. /\ at' \in [Calls -> {"new", "auth", "call", "done"}]
        /\ reply' \in [Calls -> Codes \cup {"none"}]
    BY <1>11, FinishType DEF Fetched, Calls, Codes
  <2>2. got' \in [Reads -> Starts \cup Posts \cup {Nobody}]
    BY <1>11 DEF Fetched
  <2> QED
    BY <1>11, <2>1, <2>2 DEF Fetched
<1>12. ASSUME NEW c \in Reads, GetRedirect(c) \/ GetResource(c) \/ GetPublicKey(c) \/ GetFdoVersion(c)
       PROVE  ProvTypeOK'
  BY <1>11, <1>12 DEF GetRedirect, GetResource, GetPublicKey, GetFdoVersion, Shared
<1>13. ASSUME NEW c \in To0s, GetTo0(c)
       PROVE  ProvTypeOK'
  <2>1. /\ at' \in [Calls -> {"new", "auth", "call", "done"}]
        /\ reply' \in [Calls -> Codes \cup {"none"}]
    BY <1>13, FinishType DEF GetTo0, Calls, Codes
  <2>2. rv' \subseteq Devices
    BY <1>13 DEF GetTo0, VInv, TypeOK
  <2> QED
    BY <1>13, <2>1, <2>2 DEF GetTo0
<1>14. ASSUME NEW p \in Requests \cup Calls, Hang(p) \/ Release(p)
       PROVE  ProvTypeOK'
  <2>1. hangs' \in 0 .. MaxHangs
    BY <1>14, ProvBoundsAssumption DEF Hang, Release
  <2> QED
    BY <1>14, <2>1 DEF Hang, Release
<1>15. ASSUME NEW d \in Devices, AutoTo0(d) \/ Begin(d) \/ Wrapper(d) \/ FollowOther(d) \/ Break(d)
       PROVE  ProvTypeOK'
  <2>1. /\ rv' \subseteq Devices
        /\ boot' \in [Devices -> {"off", "onboarding", "downloaded", "copied", "done"}]
    BY <1>15 DEF AutoTo0, Begin, Wrapper, FollowOther, Break
  <2>2. /\ plan' \in [Devices -> {"none", "standard", "other"}]
        /\ before' \in [Devices -> SUBSET Imports]
    BY <1>15 DEF AutoTo0, Begin, Wrapper, FollowOther, Break
  <2>3. script' \in [Devices -> SUBSET Imports]
    BY <1>15 DEF AutoTo0, Begin, Wrapper, FollowOther, Break
  <2>4. UNCHANGED <<main, starts, shared, target, at, reply, got, hung, hangs, good, overridden,
                    standing, seen>>
    BY <1>15 DEF AutoTo0, Begin, Wrapper, FollowOther, Break
  <2> QED
    BY <2>1, <2>2, <2>3, <2>4
<1>16. ASSUME NEW d \in Devices, Download(d)
       PROVE  ProvTypeOK'
  <2>1. resource[d] \in SUBSET Imports
    BY <1>16 DEF Download, VInv, TypeOK, Contents, Uuids
  <2>2. script' \in [Devices -> SUBSET Imports]
    BY <1>16, <2>1 DEF Download
  <2> QED
    BY <1>16, <2>2 DEF Download
<1>17. CASE UNCHANGED provVars
  BY <1>17 DEF provVars
<1> QED
  BY <1>1, <1>2, <1>3, <1>4, <1>5, <1>6, <1>7, <1>9, <1>10, <1>12, <1>13, <1>14, <1>15, <1>16,
     <1>17, ProvCases

\* Type correctness of what Provisioning adds.
THEOREM ProvTypeCorrect == ProvSpec => []ProvTypeOK
<1>1. ProvInit => ProvTypeOK /\ Started
  BY ProvInitType
<1>2. VInv /\ ProvTypeOK /\ Started /\ [ProvNext]_provVars => (ProvTypeOK /\ Started)'
  BY ProvNextType, NextStarted
<1> QED
  BY <1>1, <1>2, VouchersInv, PTL DEF ProvSpec

----------------------------------------------------------------------------
(***************************************************************************)
(* Devices.                                                                *)
(***************************************************************************)
Underway == {"downloaded", "copied", "done"}

\* What a step does to one device.
Stays(d)     == UNCHANGED <<boot[d], plan[d], script[d], before[d]>>
Begins(d)    == /\ boot'[d] = "onboarding"
                /\ plan'[d] = (IF svi THEN "standard" ELSE "other")
                /\ before'[d] = {r \in good \ overridden : uuid[r] = d}
                /\ UNCHANGED <<vars, good, overridden>>
Downloads(d) == /\ boot'[d] = "downloaded"
                /\ script'[d] = resource[d] /\ resource[d] # NoFile
                /\ UNCHANGED <<plan[d], before[d], vars>>
Proceeds(d)  == /\ boot'[d] \in Underway => boot[d] \in Underway
                /\ UNCHANGED <<plan[d], script[d], before[d]>>
Diverts(d)   == /\ plan[d] = "other"
                /\ script'[d] = {}
                /\ UNCHANGED <<plan[d], before[d]>>

LEMMA DeviceStep ==
    ASSUME ProvTypeOK, [ProvNext]_provVars, NEW d \in Devices
    PROVE  \/ Stays(d)
           \/ Begins(d) /\ script'[d] = script[d]
           \/ Downloads(d) \/ Proceeds(d) \/ Diverts(d)
<1>1. ASSUME \/ Start \/ StartPost \/ Verify \/ Die
             \/ \E r \in Requests : Voucher(r)
             \/ \E c \in Calls : SendCall(c) \/ AuthCall(c)
             \/ \E p \in Requests \cup Calls : Hang(p) \/ Release(p)
             \/ UNCHANGED provVars
      PROVE  Stays(d)
  BY <1>1 DEF Start, StartPost, Verify, Die, Voucher, SendCall, AuthCall, Hang, Release, provVars,
              device, promises, Stays
<1>2. ASSUME NEW c, \/ PostRedirect(c) \/ PostResource(c) \/ PostCustomSvi(c) \/ GetTo0(c)
                    \/ GetRedirect(c) \/ GetResource(c) \/ GetPublicKey(c) \/ GetFdoVersion(c)
      PROVE  Stays(d)
  BY <1>2 DEF PostRedirect, PostResource, Forward, PostCustomSvi, GetTo0, GetRedirect, GetResource,
              GetPublicKey, GetFdoVersion, Fetched, device, promises, Stays
<1>3. ASSUME NEW e \in Devices, AutoTo0(e)
      PROVE  Stays(d)
  BY <1>3 DEF AutoTo0, promises, Stays
<1>4. ASSUME NEW e \in Devices, e # d,
             Begin(e) \/ Download(e) \/ Wrapper(e) \/ FollowOther(e) \/ Break(e)
      PROVE  Stays(d)
  BY <1>4 DEF Begin, Download, Wrapper, FollowOther, Break, promises, Stays, ProvTypeOK
<1>5. CASE Begin(d)
  BY <1>5 DEF Begin, Begins, ProvTypeOK
<1>6. CASE Download(d)
  BY <1>6 DEF Download, Downloads, ProvTypeOK, promises
<1>7. CASE Wrapper(d) \/ Break(d)
  BY <1>7 DEF Wrapper, Break, Proceeds, ProvTypeOK, promises, Underway
<1>8. CASE FollowOther(d)
  BY <1>8 DEF FollowOther, Diverts, ProvTypeOK, promises
<1>9. ASSUME NEW e \in Devices,
             AutoTo0(e) \/ Begin(e) \/ Download(e) \/ Wrapper(e) \/ FollowOther(e) \/ Break(e)
      PROVE  \/ Stays(d)
             \/ Begins(d) /\ script'[d] = script[d]
             \/ Downloads(d) \/ Proceeds(d) \/ Diverts(d)
  <2>1. CASE e = d
    BY <1>3, <1>5, <1>6, <1>7, <1>8, <1>9, <2>1
  <2>2. CASE e # d
    BY <1>3, <1>4, <1>9, <2>2
  <2> QED
    BY <2>1, <2>2
<1> QED
  BY <1>1, <1>2, <1>9, ProvCases

\* A device on the way has texts of its own only, and its exec file is at the Owner Service.
OwnScript(d) == /\ script[d] \subseteq Imports
                /\ \A q \in script[d] : uuid[q] = d
                /\ boot[d] \in Underway /\ plan[d] = "standard" => resource[d] # NoFile

\* An undisturbed import whose text it has did store it, and it has an empty one from imports
\* that overlapped only.
ScriptOrigins(d) ==
    /\ \A q \in script[d] : Solo(q) => q \in stored
    /\ boot[d] \in Underway /\ plan[d] = "standard" /\ script[d] = {}
          => \E q, r \in Imports : Overlapped(q, r) /\ uuid[q] = d

LEMMA NextOwnScript ==
    ASSUME VInv, ProvTypeOK, [ProvNext]_provVars, NEW d \in Devices, OwnScript(d)
    PROVE  OwnScript(d)'
<1>1. /\ \A q \in Imports : uuid[q] \in Uuids => uuid'[q] = uuid[q]
      /\ resource[d] # NoFile => resource'[d] # NoFile
      /\ d \in Uuids
  BY ProvStep, ImportsKept DEF OwnerGrows, Uuids
<1>2. ASSUME script'[d] \in {{}, script[d]}
      PROVE  script'[d] \subseteq Imports /\ \A q \in script'[d] : uuid'[q] = d
  BY <1>1, <1>2 DEF OwnScript
<1>3. CASE Downloads(d)
  <2>1. resource[d] \in SUBSET Imports
    BY <1>1, <1>3 DEF Downloads, VInv, TypeOK, Contents
  <2>2. \A q \in resource[d] : uuid[q] = d
    BY <1>1, <2>1 DEF VInv, BytesStayWithTheirDevice
  <2> QED
    BY <1>1, <1>3, <2>1, <2>2 DEF Downloads, OwnScript
<1>4. CASE Begins(d) /\ script'[d] = script[d]
  BY <1>2, <1>4 DEF Begins, OwnScript, Underway
<1>5. CASE Stays(d) \/ Proceeds(d) \/ Diverts(d)
  BY <1>1, <1>2, <1>5 DEF Stays, Proceeds, Diverts, OwnScript
<1> QED
  BY <1>3, <1>4, <1>5, DeviceStep

LEMMA NextScriptOrigins ==
    ASSUME VInv, ProvTypeOK, [ProvNext]_provVars, NEW d \in Devices,
           OwnScript(d), ScriptOrigins(d)
    PROVE  ScriptOrigins(d)'
<1>1. /\ \A q \in Imports : uuid[q] \in Uuids => uuid'[q] = uuid[q]
      /\ \A q \in Imports : touched[q] \subseteq touched'[q]
      /\ stored \subseteq stored'
      /\ d \in Uuids
  BY ProvStep, ImportsKept DEF Uuids
<1>2. ASSUME \E q, r \in Imports : Overlapped(q, r) /\ uuid[q] = d
      PROVE  \E q, r \in Imports : Overlapped(q, r)' /\ uuid'[q] = d
  BY <1>2, ProvStep, OverlapsStay DEF VInv
<1>3. ASSUME NEW text \in SUBSET Imports, \A q \in text : uuid[q] = d /\ (Solo(q) => q \in stored)
      PROVE  \A q \in text : Solo(q)' => q \in stored'
  BY <1>1, <1>3 DEF Solo
<1>4. CASE Downloads(d)
  <2>1. resource[d] \in SUBSET Imports
    BY <1>1, <1>4 DEF Downloads, VInv, TypeOK, Contents
  <2>2. \A q \in resource[d] : uuid[q] = d /\ (Solo(q) => q \in stored)
    BY <1>1, <2>1 DEF VInv, BytesStayWithTheirDevice, ResourceOrigins
  <2>3. resource[d] = {} => \E q, r \in Imports : Overlapped(q, r) /\ uuid[q] = d
    BY <1>1 DEF VInv, ResourceOrigins
  <2> QED
    BY <1>2, <1>3, <1>4, <2>1, <2>2, <2>3 DEF Downloads, ScriptOrigins
<1>5. CASE Begins(d) /\ script'[d] = script[d]
  BY <1>3, <1>5 DEF Begins, OwnScript, ScriptOrigins, Underway
<1>6. CASE Stays(d) \/ Proceeds(d)
  BY <1>2, <1>3, <1>6 DEF Stays, Proceeds, OwnScript, ScriptOrigins
<1>7. CASE Diverts(d)
  BY <1>7 DEF Diverts, ScriptOrigins
<1> QED
  BY <1>4, <1>5, <1>6, <1>7, DeviceStep

\* No device runs the token of another, or an empty text unless its imports overlapped, and an
\* undisturbed import that gave it its token is the one in the OCS DB: for any number of
\* imports, overlapping or not, failing or not, of crashes and of containers.
THEOREM InstalledAreAsRecorded == ProvSpec => []InstalledAsRecorded
<1> DEFINE IInv == \A d \in Devices : OwnScript(d) /\ ScriptOrigins(d)
<1>1. ProvInit => ProvTypeOK /\ Started /\ IInv
  BY ProvInitType DEF ProvInit, OwnScript, ScriptOrigins, Underway
<1>2. VInv /\ ProvTypeOK /\ Started /\ IInv /\ [ProvNext]_provVars => (ProvTypeOK /\ Started /\ IInv)'
  BY ProvNextType, NextStarted, NextOwnScript, NextScriptOrigins
<1>3. VInv /\ IInv => InstalledAsRecorded
  <2> SUFFICES ASSUME VInv, IInv, NEW d \in Devices
               PROVE  /\ Installed(d) =>
                            /\ d \in held
                            /\ script[d] = {} =>
                                  \E q, r \in Imports : Overlapped(q, r) /\ uuid[q] = d
                      /\ \A q \in script[d] :
                            /\ uuid[q] = d
                            /\ Solo(q) /\ q \notin forgotten => \A f \in Files : disk[f][d] = {q}
    BY DEF InstalledAsRecorded
  <2>1. OwnScript(d) /\ ScriptOrigins(d)
    OBVIOUS
  <2>2. resource[d] # NoFile => d \in held
    BY DEF VInv, ImportOrder, Uuids
  <2>3. ASSUME NEW q \in script[d], Solo(q), q \notin forgotten
        PROVE  \A f \in Files : disk[f][d] = {q}
    <3>1. q \in Imports /\ uuid[q] = d /\ q \in stored
      BY <2>1, <2>3 DEF OwnScript, ScriptOrigins
    <3> QED
      BY <2>3, <3>1 DEF VInv, AllLand, Landing, Lands
  <2> QED
    BY <2>1, <2>2, <2>3 DEF OwnScript, ScriptOrigins, Installed, Underway
<1> QED
  BY <1>1, <1>2, <1>3, VouchersInv, PTL DEF ProvSpec

----------------------------------------------------------------------------
(***************************************************************************)
(* What a device runs when its imports overlap.                            *)
(***************************************************************************)
\* A device is given what the Owner Service has, which mixes texts of unequal length only.
LEMMA NextScriptUnequal ==
    ASSUME VInv, ProvTypeOK, ExecsUnequal, [ProvNext]_provVars,
           NEW d \in Devices, Unequal("exec", script[d])
    PROVE  Unequal("exec", script[d])'
<1>1. \A r \in Imports : Size("exec", r)' = Size("exec", r)
  BY ProvStep, UuidStep DEF VInv, inputs, Size
<1>2. Unequal("exec", script'[d])
  <2>1. Unequal("exec", {})
    BY DEF Unequal
  <2>2. Unequal("exec", resource[d])
    BY DEF ExecsUnequal, Uuids
  <2> QED
    BY <2>1, <2>2, DeviceStep DEF Stays, Begins, Downloads, Proceeds, Diverts
<1> QED
  BY <1>1, <1>2 DEF Unequal

\* A device imported into one organisation runs one whole token or none: for any number of
\* imports that overlap in any way, whatever the lengths of their texts.
THEOREM OneTokenRuns == ProvSpec => []DeviceRunsOneToken
<1> DEFINE IInv == /\ \A d \in Devices : OwnScript(d) /\ Unequal("exec", script[d])
                   /\ FilesUnequal /\ ExecsUnequal
<1>1. ProvInit => ProvTypeOK /\ Started /\ IInv
  BY ProvInitType, NoneAssumption
     DEF ProvInit, Init, OwnScript, Underway, Unequal, FilesUnequal, ExecsUnequal, NoFile
<1>2. VInv /\ ProvTypeOK /\ Started /\ IInv /\ [ProvNext]_provVars => (ProvTypeOK /\ Started /\ IInv)'
  BY ProvNextType, NextStarted, NextOwnScript, NextScriptUnequal, ProvStep, NextUnequal DEF VInv
<1>3. IInv => DeviceRunsOneToken
  <2> SUFFICES ASSUME IInv, NEW d \in Devices,
                      \A q, r \in Imports : uuid[q] = d /\ uuid[r] = d => org[q] = org[r],
                      NEW q \in script[d], NEW r \in script[d], q # r
               PROVE  FALSE
    BY DEF DeviceRunsOneToken
  <2>1. q \in Imports /\ r \in Imports /\ org[q] = org[r]
    BY DEF OwnScript
  <2>2. Size("exec", q) # Size("exec", r)
    BY <2>1 DEF Unequal
  <2> QED
    BY <2>1, <2>2 DEF Size
<1> QED
  BY <1>1, <1>2, <1>3, VouchersInv, PTL DEF ProvSpec

----------------------------------------------------------------------------
(***************************************************************************)
(* What a confirmed import promises.                                       *)
(***************************************************************************)
\* A promised import was answered 200 and stored, and the service info is that of the
\* imports unless an administrator's came after all of them.
Promised ==
    /\ \A r \in good : r \in Imports /\ Answered200(r) /\ r \in stored
    /\ overridden \subseteq good
    /\ good \ overridden # {} => svi

\* A device keeps to the service info it began with, and runs what an undisturbed import gave
\* it from the download on.
KeepsPlan(d) ==
    \A r \in before[d] :
        /\ r \in good /\ uuid[r] = d
        /\ plan[d] = "standard"
        /\ boot[d] \in Underway /\ Solo(r) => script[d] = {r}

LEMMA NextPromised ==
    VInv /\ ProvTypeOK /\ Promised /\ [ProvNext]_provVars => Promised' /\ good \subseteq good'
<1> SUFFICES ASSUME VInv, ProvTypeOK, Promised, [ProvNext]_provVars
             PROVE  Promised' /\ good \subseteq good'
  OBVIOUS
<1>1. /\ \A q \in Imports : Answered200(q) => Answered200(q)'
      /\ stored \subseteq stored'
  BY ProvStep, ImportsKept
<1>2. ASSUME UNCHANGED <<good, overridden>>, svi => svi'
      PROVE  Promised' /\ good \subseteq good'
  BY <1>1, <1>2 DEF Promised
<1>3. ASSUME NEW r \in Requests, Voucher(r)
      PROVE  Promised' /\ good \subseteq good'
  <2>1. good' = good \cup ConfirmedNow(r) /\ overridden' = overridden /\ (Send(r) \/ Handle(r))
    BY <1>3 DEF Voucher
  <2>2. svi => svi'
    BY <2>1, SviKept
  <2>3. CASE ConfirmedNow(r) = {}
    BY <1>2, <2>1, <2>2, <2>3
  <2>4. CASE ConfirmedNow(r) # {}
    <3>1. r \in Imports /\ answer'[r] = "200" /\ r \in stored /\ svi' /\ good' = good \cup {r}
      BY <2>1, <2>4 DEF ConfirmedNow
    <3> QED
      BY <1>1, <2>1, <3>1 DEF Promised, Answered200
  <2> QED
    BY <2>3, <2>4
<1>4. ASSUME NEW c, PostCustomSvi(c)
      PROVE  Promised' /\ good \subseteq good'
  <2>1. good' = good
    BY <1>4 DEF PostCustomSvi
  <2>2. CASE UNCHANGED <<vars, overridden>>
    BY <1>2, <2>1, <2>2 DEF vars, owner
  <2>3. CASE overridden' = overridden \cup good
    BY <1>1, <2>1, <2>3 DEF Promised
  <2> QED
    BY <1>4, <2>2, <2>3 DEF PostCustomSvi
<1>5. ASSUME \/ Start \/ StartPost \/ Verify \/ Die
             \/ \E c \in Calls : SendCall(c) \/ AuthCall(c)
             \/ \E p \in Requests \cup Calls : Hang(p) \/ Release(p)
             \/ UNCHANGED provVars
      PROVE  UNCHANGED <<good, overridden, svi>>
  BY <1>5 DEF Start, StartPost, Verify, Die, SendCall, AuthCall, Hang, Release, provVars,
              promises, vars, owner, Crash, NewContainer
<1>6. ASSUME NEW c, \/ PostRedirect(c) \/ PostResource(c) \/ GetTo0(c)
                    \/ GetRedirect(c) \/ GetResource(c) \/ GetPublicKey(c) \/ GetFdoVersion(c)
      PROVE  UNCHANGED <<good, overridden, svi>>
  BY <1>6 DEF PostRedirect, PostResource, Forward, GetTo0, GetRedirect, GetResource,
              GetPublicKey, GetFdoVersion, Fetched, promises, vars, owner
<1>7. ASSUME NEW d \in Devices, \/ AutoTo0(d) \/ Begin(d) \/ Download(d) \/ Wrapper(d)
                               \/ FollowOther(d) \/ Break(d)
      PROVE  UNCHANGED <<good, overridden, svi>>
  BY <1>7 DEF AutoTo0, Begin, Download, Wrapper, FollowOther, Break, promises, vars, owner
<1> QED
  BY <1>2, <1>3, <1>4, <1>5, <1>6, <1>7, ProvCases

LEMMA NextKeepsPlan ==
    ASSUME VInv, ProvTypeOK, Promised, [ProvNext]_provVars, NEW d \in Devices, KeepsPlan(d)
    PROVE  KeepsPlan(d)'
<1>1. /\ \A q \in Imports : uuid[q] \in Uuids => uuid'[q] = uuid[q]
      /\ \A q \in Imports : touched[q] \subseteq touched'[q]
      /\ d \in Uuids
  BY ProvStep, ImportsKept DEF Uuids
<1>2. good \subseteq good' /\ good \subseteq Imports
  BY NextPromised DEF Promised
<1>3. ASSUME NEW r \in good, uuid[r] = d
      PROVE  r \in good' /\ uuid'[r] = d /\ (Solo(r)' => Solo(r))
  BY <1>1, <1>2, <1>3 DEF Solo
<1>4. CASE Stays(d) \/ Proceeds(d)
  BY <1>3, <1>4 DEF Stays, Proceeds, KeepsPlan
<1>5. CASE Diverts(d)
  BY <1>3, <1>5 DEF Diverts, KeepsPlan
<1>6. CASE Begins(d)
  <2>1. ASSUME NEW r \in before'[d]
        PROVE  r \in good /\ uuid[r] = d /\ plan'[d] = "standard" /\ boot'[d] \notin Underway
    BY <1>6, <2>1 DEF Begins, Promised, Underway
  <2> QED
    BY <1>3, <2>1 DEF KeepsPlan
<1>7. CASE Downloads(d)
  <2>1. ASSUME NEW r \in before[d]
        PROVE  /\ r \in good /\ uuid[r] = d /\ plan[d] = "standard"
               /\ Solo(r) => resource[d] = {r}
    <3>1. r \in good /\ uuid[r] = d /\ plan[d] = "standard"
      BY <2>1 DEF KeepsPlan
    <3>2. r \in Imports /\ Answered200(r) /\ r \in stored
      BY <3>1 DEF Promised
    <3>3. Lands(r)
      BY <3>2 DEF VInv, AllLand, Landing
    <3> QED
      BY <3>1, <3>2, <3>3 DEF Lands
  <2> QED
    BY <1>3, <1>7, <2>1 DEF Downloads, KeepsPlan
<1> QED
  BY <1>4, <1>5, <1>6, <1>7, DeviceStep

\* An import the client was told of, and that nobody disturbed, gives the device its token,
\* for any number of restarts and of other imports, posts and hanging calls.
THEOREM ConfirmedImportsOnboard == ProvSpec => []ConfirmedImportOnboards
<1> DEFINE IInv == Promised /\ \A d \in Devices : KeepsPlan(d)
<1>1. ProvInit => ProvTypeOK /\ Started /\ IInv
  BY ProvInitType DEF ProvInit, Promised, KeepsPlan
<1>2. VInv /\ ProvTypeOK /\ Started /\ IInv /\ [ProvNext]_provVars => (ProvTypeOK /\ Started /\ IInv)'
  BY ProvNextType, NextStarted, NextPromised, NextKeepsPlan
<1>3. IInv => ConfirmedImportOnboards
  BY DEF KeepsPlan, ConfirmedImportOnboards, Installed, Underway
<1> QED
  BY <1>1, <1>2, <1>3, VouchersInv, PTL DEF ProvSpec

----------------------------------------------------------------------------
(***************************************************************************)
(* What an administrator reads.                                            *)
(***************************************************************************)
\* A post that stands has ended and is the last one of its name; those a call saw have ended
\* and are about the same; and a read has brought nothing before it ends, then nothing else
\* than a post that stood before it was sent and still does.
PostsStand ==
    \A p \in standing : /\ p \in Posts /\ at[p] = "done"
                        /\ target[p] \in Shared /\ shared[target[p]] = p
SeenPosts ==
    \A c \in Calls : \A p \in seen[c] : p \in Posts /\ at[p] = "done" /\ target[p] = target[c]
ReadsWait ==
    \A c \in Reads : at[c] # "done" => got[c] = Nobody

Reading == PostsStand /\ SeenPosts /\ ReadsWait /\ ReadYourPosts

\* A step that ends calls, or none, and stores nothing.
LEMMA NothingStored ==
    ASSUME ProvTypeOK, Reading, UNCHANGED <<shared, standing, seen, got, target>>,
           \A c \in Calls : at[c] = "done" => at'[c] = "done"
    PROVE  Reading'
<1>1. PostsStand' /\ SeenPosts'
  BY DEF Reading, PostsStand, SeenPosts, Calls
<1>2. ReadsWait' /\ ReadYourPosts'
  BY DEF Reading, ReadsWait, ReadYourPosts, Calls
<1> QED
  BY <1>1, <1>2 DEF Reading

\* A step that stores n for writer w, who then ends or is no call at all.
LEMMA SomethingStored ==
    ASSUME ProvTypeOK, Reading, UNCHANGED <<seen, got, target>>,
           NEW n \in Shared, NEW w, NEW told \in BOOLEAN, Store(n, w, told),
           told => w \in Posts /\ target[w] = n /\ at[w] # "done" /\ at'[w] = "done",
           \A c \in Calls : at[c] = "done" => at'[c] = "done"
    PROVE  Reading'
<1>1. /\ \A m \in Shared : m # n => shared'[m] = shared[m]
      /\ shared'[n] = w
      /\ \A p \in standing' : (p \in standing /\ target[p] # n) \/ (told /\ p = w)
  BY DEF Store, ProvTypeOK
<1>2. PostsStand'
  BY <1>1 DEF Reading, PostsStand, Calls
<1>3. SeenPosts' /\ ReadsWait'
  BY DEF Reading, SeenPosts, ReadsWait, Calls
<1>4. ReadYourPosts'
  <2>1. ASSUME NEW c \in Reads, NEW p \in seen[c] \cap standing'
        PROVE  p \in standing
    BY <1>1, <2>1 DEF Reading, SeenPosts, Calls
  <2> QED
    BY <2>1 DEF Reading, ReadYourPosts
<1> QED
  BY <1>2, <1>3, <1>4 DEF Reading

LEMMA NextReading == ProvTypeOK /\ Started /\ Reading /\ [ProvNext]_provVars => Reading'
<1> SUFFICES ASSUME ProvTypeOK, Started, Reading, [ProvNext]_provVars PROVE Reading'
  OBVIOUS
<1> DEFINE Ended == \A c \in Calls : at[c] = "done" => at'[c] = "done"
<1>1. ASSUME \/ Start \/ Verify \/ Die
             \/ \E r \in Requests : Voucher(r)
             \/ \E p \in Requests \cup Calls : Hang(p) \/ Release(p)
             \/ UNCHANGED provVars
      PROVE  UNCHANGED <<shared, standing, seen, got, target>> /\ Ended
  BY <1>1 DEF Start, Verify, Die, Voucher, Hang, Release, provVars, calls, promises, InProgress
<1>2. ASSUME NEW d \in Devices, \/ AutoTo0(d) \/ Begin(d) \/ Download(d) \/ Wrapper(d)
                               \/ FollowOther(d) \/ Break(d)
      PROVE  UNCHANGED <<shared, standing, seen, got, target>> /\ Ended
  BY <1>2 DEF AutoTo0, Begin, Download, Wrapper, FollowOther, Break, calls, promises
<1>3. ASSUME NEW c \in Calls, AuthCall(c) \/ PostCustomSvi(c) \/ GetTo0(c)
      PROVE  UNCHANGED <<shared, standing, seen, got, target>> /\ Ended
  BY <1>3 DEF AuthCall, PostCustomSvi, GetTo0, CallOwner, Finish, promises, ProvTypeOK
<1>4. CASE StartPost
  <2>1. main \in Shared /\ UNCHANGED <<seen, got, target, at>>
    BY <1>4, StartNames DEF StartPost, calls
  <2>2. CASE Store(main, starts, FALSE)
    BY <2>1, <2>2, SomethingStored
  <2>3. CASE UNCHANGED <<shared, standing>>
    BY <2>1, <2>3, NothingStored
  <2> QED
    BY <1>4, <2>2, <2>3 DEF StartPost
<1>5. ASSUME NEW c \in Calls, SendCall(c)
      PROVE  Reading'
  <2>1. /\ UNCHANGED <<shared, standing, got, target>>
        /\ at[c] = "new" /\ at'[c] # "done"
        /\ \A b \in Calls : b # c => at'[b] = at[b]
        /\ \A b \in Calls : b # c => seen'[b] = seen[b]
        /\ seen'[c] = {p \in standing : target[p] = target[c]}
    BY <1>5 DEF SendCall, ProvTypeOK
  <2>2. PostsStand' /\ ReadsWait'
    BY <2>1 DEF Reading, PostsStand, ReadsWait, Calls
  <2>3. SeenPosts'
    BY <2>1 DEF Reading, SeenPosts, PostsStand, Calls
  <2>4. ReadYourPosts'
    BY <2>1 DEF Reading, ReadYourPosts, ReadsWait, Calls
  <2> QED
    BY <2>2, <2>3, <2>4 DEF Reading
<1>6. ASSUME NEW c \in Posts, NEW n \in Shared, target[c] = n, Forward(c, n)
      PROVE  Reading'
  <2>1. PICK code \in {"200", "400", "500"} :
          /\ Finish(c, code)
          /\ Store(n, c, code = "200") \/ UNCHANGED <<shared, standing>>
    BY <1>6 DEF Forward
  <2>2. at[c] = "call" /\ at'[c] = "done" /\ Ended /\ UNCHANGED <<seen, got, target>>
    BY <1>6, <2>1 DEF Forward, CallOwner, Finish, ProvTypeOK, Calls
  <2>3. CASE Store(n, c, code = "200")
    <3>1. (code = "200") \in BOOLEAN
      OBVIOUS
    <3> QED
      BY <1>6, <2>2, <2>3, <3>1, SomethingStored
  <2>4. CASE UNCHANGED <<shared, standing>>
    BY <2>2, <2>4, NothingStored
  <2> QED
    BY <2>1, <2>3, <2>4
<1>7. ASSUME NEW c \in Posts, PostRedirect(c) \/ PostResource(c)
      PROVE  Reading'
  BY <1>6, <1>7 DEF PostRedirect, PostResource, Shared
<1>8. ASSUME NEW c \in Reads, NEW w, NEW codes, Fetched(c, w, codes),
             w = Nobody \/ (target[c] \in Shared /\ w = shared[target[c]])
      PROVE  Reading'
  <2>1. /\ UNCHANGED <<shared, standing, seen, target>>
        /\ at[c] = "call" /\ at'[c] = "done" /\ Ended
        /\ \A b \in Calls : b # c => at'[b] = at[b]
        /\ \A b \in Reads : b # c => got'[b] = got[b]
        /\ got'[c] \in {got[c], w}
    BY <1>8 DEF Fetched, CallOwner, Finish, ProvTypeOK, promises, Calls
  <2>2. PostsStand' /\ SeenPosts'
    BY <2>1 DEF Reading, PostsStand, SeenPosts, Calls
  <2>3. ReadsWait'
    BY <2>1 DEF Reading, ReadsWait, Calls
  <2>4. ReadYourPosts'
    <3>1. ASSUME NEW p \in seen[c] \cap standing
          PROVE  w \in {p, Nobody} /\ got[c] = Nobody
      BY <1>8, <2>1, <3>1 DEF Reading, PostsStand, SeenPosts, ReadsWait, Calls
    <3>2. \A p \in seen[c] \cap standing : got'[c] \in {p, Nobody}
      BY <2>1, <3>1
    <3> QED
      BY <2>1, <3>2 DEF Reading, ReadYourPosts
  <2> QED
    BY <2>2, <2>3, <2>4 DEF Reading
<1>9. ASSUME NEW c \in Reads,
             GetRedirect(c) \/ GetResource(c) \/ GetPublicKey(c) \/ GetFdoVersion(c)
      PROVE  Reading'
  BY <1>8, <1>9 DEF GetRedirect, GetResource, GetPublicKey, GetFdoVersion, Shared
<1> QED
  BY <1>1, <1>2, <1>3, <1>4, <1>5, <1>7, <1>9, ProvCases, NothingStored DEF Calls

\* Administrators read what they posted, for any number of them and of restarts.
THEOREM PostsAreRead == ProvSpec => []ReadYourPosts
<1>1. ProvInit => ProvTypeOK /\ Started /\ Reading
  BY ProvInitType DEF ProvInit, Reading, PostsStand, SeenPosts, ReadsWait, ReadYourPosts, Calls
<1>2. VInv /\ ProvTypeOK /\ Started /\ Reading /\ [ProvNext]_provVars
        => (ProvTypeOK /\ Started /\ Reading)'
  BY ProvNextType, NextStarted, NextReading
<1>3. Reading => ReadYourPosts
  BY DEF Reading
<1> QED
  BY <1>1, <1>2, <1>3, VouchersInv, PTL DEF ProvSpec

----------------------------------------------------------------------------
(***************************************************************************)
(* A start among all the others.                                           *)
(***************************************************************************)
\* No resource is of a start that has not begun.
OfThePast == \A n \in Shared : shared[n] \in Starts => shared[n] <= starts

\* What the Owner Service has from the running process.
Fresh == {n \in Common : main # "down" /\ shared[n] = starts}

\* Neither the process nor what the Owner Service has changes.
LEMMA ComingStays ==
    ASSUME UNCHANGED <<server, shared>>
    PROVE  UNCHANGED Coming!vars /\ (OfThePast => OfThePast')
BY DEF server, Coming!vars, OfThePast

\* A post changes what no start wrote, and only a server takes one.
LEMMA PostStep ==
    ASSUME ProvTypeOK, Started, OfThePast, NEW c \in Posts, NEW n \in Shared, Forward(c, n)
    PROVE  [Coming!Next]_(Coming!vars) /\ OfThePast'
<1>1. /\ main = "serving" /\ UNCHANGED server
      /\ shared' = [shared EXCEPT ![n] = c] \/ shared' = shared
  BY DEF Forward, CallOwner, MayRun, Store
<1>2. c \notin Starts /\ starts \in Nat
  BY NamesAssumption, ProvBoundsAssumption DEF ProvTypeOK
<1>3. CASE shared' = shared
  BY <1>1, <1>3, ComingStays
<1>4. CASE shared' = [shared EXCEPT ![n] = c]
  <2>1. OfThePast'
    BY <1>1, <1>2, <1>4 DEF OfThePast, ProvTypeOK, server
  <2>2. c # starts
    <3>1. starts \in Starts
      BY <1>1 DEF Started
    <3> QED
      BY <1>2, <3>1
  <2>3. main' = main /\ Fresh' = Fresh \ {n}
    BY <1>1, <1>4, <2>2 DEF Fresh, server, ProvTypeOK
  <2>4. CASE n \in Common
    <3>1. Coming!Replace(n)
      BY <1>1, <2>3 DEF Coming!Replace, Fresh
    <3> QED
      BY <2>1, <2>4, <3>1 DEF Coming!Next, Coming!Common, Common
  <2>5. CASE n \notin Common
    <3>1. Fresh' = Fresh
      BY <2>3, <2>5 DEF Fresh
    <3> QED
      BY <2>1, <2>3, <3>1 DEF Coming!vars, Fresh
  <2> QED
    BY <2>4, <2>5
<1> QED
  BY <1>1, <1>3, <1>4

LEMMA NextComing ==
    ProvTypeOK /\ Started /\ OfThePast /\ [ProvNext]_provVars
      => [Coming!Next]_(Coming!vars) /\ OfThePast'
<1> SUFFICES ASSUME ProvTypeOK, Started, OfThePast, [ProvNext]_provVars
             PROVE  [Coming!Next]_(Coming!vars) /\ OfThePast'
  OBVIOUS
<1>1. starts \in Nat /\ Common \subseteq Shared /\ DOMAIN ThenPost \subseteq Shared
  BY ProvBoundsAssumption, StartNames DEF ProvTypeOK, Shared, Resources
<1>2. CASE Start
  <2>1. main = "down" /\ main' = "redirect" /\ starts' = starts + 1 /\ shared' = shared
    BY <1>2 DEF Start
  <2>2. starts' \in Starts
    BY <1>1, <1>2, ProvBoundsAssumption DEF Start, ProvTypeOK, Starts
  <2>3. \A n \in Shared : shared[n] # starts'
    BY <1>1, <2>1, <2>2 DEF OfThePast
  <2>4. Fresh = {} /\ Fresh' = {}
    BY <1>1, <2>1, <2>3 DEF Fresh
  <2>5. Coming!Begin
    BY <2>1, <2>4 DEF Coming!Begin, Fresh
  <2>6. OfThePast'
    BY <1>1, <2>1 DEF OfThePast, Starts
  <2> QED
    BY <2>5, <2>6 DEF Coming!Next
<1>3. CASE StartPost
  <2>1. /\ main \in DOMAIN ThenPost /\ main' \in {ThenPost[main], "down"} /\ starts' = starts
        /\ shared' = [shared EXCEPT ![main] = starts] \/ shared' = shared
    BY <1>3 DEF StartPost, Store
  <2>2. OfThePast'
    BY <1>1, <2>1 DEF OfThePast, ProvTypeOK
  <2>3. CASE main' = "down"
    BY <2>2, <2>3 DEF Coming!Next, Coming!End
  <2>4. CASE main' # "down"
    <3>1. main # "down" /\ main' = Coming!Then[main] /\ main \in DOMAIN Coming!Then
      BY <2>1, <2>4 DEF ThenPost, Coming!Then
    <3>2. Fresh' \in {Fresh, Fresh \cup ({main} \cap Common)}
      <4>1. CASE shared' = shared
        BY <2>1, <2>4, <3>1, <4>1 DEF Fresh
      <4>2. CASE shared' = [shared EXCEPT ![main] = starts]
        BY <1>1, <2>1, <2>4, <3>1, <4>2 DEF Fresh, ProvTypeOK
      <4> QED
        BY <2>1, <4>1, <4>2
    <3>3. Coming!Advance
      BY <3>1, <3>2 DEF Coming!Advance, Coming!Common, Common, Fresh
    <3> QED
      BY <2>2, <3>3 DEF Coming!Next
  <2> QED
    BY <2>3, <2>4
<1>4. CASE Verify
  BY <1>4 DEF Verify, OfThePast, Coming!Next, Coming!Advance, Coming!End, Coming!Then, Coming!Common
<1>5. CASE Die
  BY <1>5 DEF Die, OfThePast, Coming!Next, Coming!End
<1>6. ASSUME NEW c \in Posts, PostRedirect(c) \/ PostResource(c)
      PROVE  [Coming!Next]_(Coming!vars) /\ OfThePast'
  BY <1>6, PostStep DEF PostRedirect, PostResource, Shared
<1>7. ASSUME NEW c, \/ PostCustomSvi(c) \/ GetTo0(c) \/ SendCall(c) \/ AuthCall(c)
                    \/ GetRedirect(c) \/ GetResource(c) \/ GetPublicKey(c) \/ GetFdoVersion(c)
      PROVE  UNCHANGED <<server, shared>>
  BY <1>7 DEF PostCustomSvi, GetTo0, SendCall, AuthCall, GetRedirect, GetResource, GetPublicKey,
              GetFdoVersion, Fetched
<1>8. ASSUME \/ \E r \in Requests : Voucher(r)
             \/ \E p \in Requests \cup Calls : Hang(p) \/ Release(p)
             \/ \E d \in Devices : \/ AutoTo0(d) \/ Begin(d) \/ Download(d) \/ Wrapper(d)
                                   \/ FollowOther(d) \/ Break(d)
             \/ UNCHANGED provVars
      PROVE  UNCHANGED <<server, shared>>
  BY <1>8 DEF Voucher, Hang, Release, AutoTo0, Begin, Download, Wrapper, FollowOther, Break, provVars
<1> QED
  BY <1>2, <1>3, <1>4, <1>5, <1>6, <1>7, <1>8, ComingStays, ProvCases

\* What a start has posted is undisturbed until it serves, whatever clients, devices and the
\* starts before it do.
THEOREM StartsAreUndisturbed == ProvSpec => StartIsUndisturbed
<1>1. ProvInit => ProvTypeOK /\ Started /\ OfThePast /\ Coming!Init
  BY ProvInitType, NamesAssumption DEF ProvInit, OfThePast, Coming!Init
<1>2. VInv /\ ProvTypeOK /\ Started /\ OfThePast /\ [ProvNext]_provVars
        => (ProvTypeOK /\ Started)' /\ OfThePast' /\ [Coming!Next]_(Coming!vars)
  BY ProvNextType, NextStarted, NextComing
<1> QED
  BY <1>1, <1>2, VouchersInv, PTL DEF ProvSpec, StartIsUndisturbed, Coming!Spec
=============================================================================
