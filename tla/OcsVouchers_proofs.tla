------------------------- MODULE OcsVouchers_proofs -------------------------
(***************************************************************************)
(* Proofs about OcsVouchers, for every number of requests, devices and     *)
(* organisations.                                                          *)
(***************************************************************************)
EXTENDS OcsVouchers, TLAPS

\* The next-state relation, one disjunct per action: what every inductive proof splits on.
LEMMA NextCases ==
    ASSUME [Next]_vars
    PROVE  \/ \E r \in Requests : Send(r) \/ Admit(r) \/ Refuse(r)
           \/ \E r \in Imports : \/ RegisterAccepted(r) \/ RegisterRefused(r)
                                 \/ RegisterFails(r) \/ MkdirAll(r) \/ DiskFails(r)
                                 \/ ReadExec(r) \/ PostExec(r) \/ PostSvi(r)
           \/ \E r \in Imports, f \in Files : Open(r, f) \/ Write(r, f)
           \/ \E r \in Gets : ReadVoucher(r) \/ CheckOrg(r)
           \/ \E r \in Gets \cup Lists : AskOwner(r)
           \/ \E r \in Lists : ReadDir(r) \/ Scan(r) \/ ScanFails(r) \/ SendList(r)
           \/ Crash
           \/ NewContainer
           \/ CustomSvi
           \/ UNCHANGED vars
BY DEF Next, Handle, Import, Get, List, Idle

----------------------------------------------------------------------------
LEMMA StepSets ==
    /\ \A f \in Files : /\ OpenAt[f] \in Steps /\ WriteAt[f] \in Steps /\ NextAt[f] \in Steps
    /\ "auth" \in Steps /\ "done" \in Steps
BY DEF Files, OpenAt, WriteAt, NextAt, Steps, ImportSteps, AfterVoucher, AfterOrgid, AfterExec

\* A handler that moves on stays within its steps, and its answer within the codes.
LEMMA GotoType ==
    ASSUME TypeOK, NEW r \in Requests, NEW s \in Steps, Goto(r, s)
    PROVE  pc' \in [Requests -> Steps] /\ answer' \in [Requests -> Codes \cup {"none"}]
BY DEF TypeOK, Goto, Steps

LEMMA ReplyType ==
    ASSUME TypeOK, NEW r \in Requests, NEW c \in Codes, Reply(r, c)
    PROVE  pc' \in [Requests -> Steps] /\ answer' \in [Requests -> Codes \cup {"none"}]
BY StepSets DEF TypeOK, Reply, Steps

LEMMA TouchType ==
    ASSUME TypeOK, NEW r \in Requests, NEW u \in Uuids, Touch(r, u)
    PROVE  touched' \in [Requests -> SUBSET Uuids]
BY DEF TypeOK, Touch

LEMMA FileUpdate ==
    ASSUME disk \in [Files -> [Uuids -> Contents]],
           NEW f \in Files, NEW u \in Uuids, NEW c \in Contents,
           disk' = [disk EXCEPT ![f][u] = c]
    PROVE  /\ disk' \in [Files -> [Uuids -> Contents]]
           /\ disk'[f][u] = c
           /\ \A g \in Files, v \in Uuids : g # f \/ v # u => disk'[g][v] = disk[g][v]
OBVIOUS

LEMMA InitType == Init => TypeOK /\ HandlersAgree
<1> SUFFICES ASSUME Init PROVE TypeOK /\ HandlersAgree
  OBVIOUS
<1>1. TypeOK
  <2>1. NoFile \in Contents
    BY DEF Contents
  <2>2. resource \in [Uuids -> Contents]
    BY <2>1 DEF Init
  <2>3. disk \in [Files -> [Uuids -> Contents]]
    BY <2>1, [u \in Uuids |-> NoFile] \in [Uuids -> Contents] DEF Init
  <2>4. /\ pc \in [Requests -> Steps]
        /\ answer \in [Requests -> Codes \cup {"none"}]
    BY DEF Init, Steps
  <2>5. /\ touched \in [Requests -> SUBSET Uuids]
        /\ todo \in [Lists -> SUBSET Uuids]
        /\ found \in [Lists -> SUBSET Uuids]
        /\ bytes \in [Imports \cup Gets -> SUBSET Imports]
    BY DEF Init
  <2>6. crashes \in 0 .. MaxCrashes
    BY CrashesAssumption DEF Init
  <2>7. /\ held \subseteq Devices /\ dirs \subseteq Uuids
        /\ stored \subseteq Imports /\ forgotten \subseteq Imports
        /\ svi \in BOOLEAN
        /\ dev \in [Imports -> Devices]
        /\ org \in [Requests -> Orgs]
        /\ uuid \in [Imports \cup Gets -> Uuids \cup {None}]
    BY DEF Init
  <2> QED
    BY <2>2, <2>3, <2>4, <2>5, <2>6, <2>7 DEF TypeOK
<1>2. HandlersAgree
  BY DEF Init, HandlersAgree, Agrees, ImportSteps, AfterVoucher, AfterOrgid, AfterExec, After, WriteAt,
         Files, Requests
<1> QED
  BY <1>1, <1>2

LEMMA NextType == TypeOK /\ HandlersAgree /\ [Next]_vars => TypeOK'
<1> SUFFICES ASSUME TypeOK, HandlersAgree, [Next]_vars PROVE TypeOK'
  OBVIOUS
<1>1. ASSUME NEW r \in Requests, Send(r) \/ Admit(r) \/ Refuse(r)
      PROVE  TypeOK'
  <2>1. \/ \E s \in Steps : Goto(r, s)
        \/ \E c \in Codes : Reply(r, c)
    BY <1>1 DEF Send, Admit, Refuse, Steps, Codes, ImportSteps, GetSteps
  <2>2. UNCHANGED <<owner, db, inputs, locals, history, crashes>>
    BY <1>1 DEF Send, Admit, Refuse
  <2> QED
    BY <2>1, <2>2, GotoType, ReplyType DEF TypeOK, owner, db, inputs, locals, history
<1>2. ASSUME NEW r \in Imports, RegisterAccepted(r) \/ RegisterRefused(r) \/ RegisterFails(r)
      PROVE  TypeOK'
  <2>1. Goto(r, "mkdir") \/ Reply(r, "400")
    BY <1>2 DEF RegisterAccepted, RegisterRefused, RegisterFails
  <2>2. pc' \in [Requests -> Steps] /\ answer' \in [Requests -> Codes \cup {"none"}]
    BY <2>1, GotoType, ReplyType DEF Requests, Steps, ImportSteps, Codes
  <2>3. held' \subseteq Devices /\ uuid' \in [Imports \cup Gets -> Uuids \cup {None}]
    BY <1>2 DEF TypeOK, RegisterAccepted, RegisterRefused, RegisterFails, locals, owner, Uuids
  <2>4. UNCHANGED <<resource, svi, db, inputs, bytes, todo, found, history, crashes>>
    BY <1>2 DEF RegisterAccepted, RegisterRefused, RegisterFails, owner, locals
  <2> QED
    BY <2>2, <2>3, <2>4 DEF TypeOK, db, inputs, history
<1>3. ASSUME NEW r \in Imports, MkdirAll(r)
      PROVE  TypeOK'
  <2>1. pc' \in [Requests -> Steps] /\ answer' \in [Requests -> Codes \cup {"none"}]
    BY <1>3, GotoType DEF MkdirAll, Requests, Steps, ImportSteps
  <2>2. dirs' \subseteq Uuids
    BY <1>3 DEF MkdirAll, HandlersAgree, Agrees, TypeOK, ImportSteps
  <2> QED
    BY <1>3, <2>1, <2>2 DEF MkdirAll, TypeOK, owner, inputs, locals, history
<1>4. ASSUME NEW r \in Imports, NEW f \in Files, Open(r, f) \/ Write(r, f)
      PROVE  TypeOK'
  <2>1. uuid[r] \in Uuids
    BY <1>4 DEF Open, Write, HandlersAgree, Agrees, TypeOK, ImportSteps, AfterVoucher, AfterOrgid,
                OpenAt, WriteAt, Files
  <2>2. pc' \in [Requests -> Steps] /\ answer' \in [Requests -> Codes \cup {"none"}]
    BY <1>4, GotoType, StepSets DEF Open, Write, Requests
  <2>3. \E c \in Contents : disk' = [disk EXCEPT ![f][uuid[r]] = c]
    <3>1. CASE Open(r, f)
      BY <3>1, {} \in Contents DEF Open, Contents
    <3>2. CASE Write(r, f)
      <4>1. disk[f][uuid[r]] \in SUBSET Imports
        BY <2>1, <3>2 DEF Write, HandlersAgree, Agrees, TypeOK, Contents
      <4>2. Overlay(f, r, disk[f][uuid[r]]) \in Contents
        BY <4>1 DEF Overlay, Contents
      <4> QED
        BY <3>2, <4>2 DEF Write
    <3> QED
      BY <1>4, <3>1, <3>2
  <2>4. disk' \in [Files -> [Uuids -> Contents]]
    BY <2>1, <2>3, FileUpdate DEF TypeOK
  <2>5. touched' \in [Requests -> SUBSET Uuids]
    BY <1>4, <2>1, TouchType DEF Open, Write, Requests
  <2> QED
    BY <1>4, <2>2, <2>4, <2>5 DEF Open, Write, TypeOK, owner, inputs, locals
<1>5. ASSUME NEW r \in Imports, DiskFails(r)
      PROVE  TypeOK'
  BY <1>5, ReplyType DEF DiskFails, Codes, Requests, TypeOK, owner, db, inputs, locals, history
<1>6. ASSUME NEW r \in Imports, ReadExec(r)
      PROVE  TypeOK'
  <2>1. Goto(r, "postExec") \/ Reply(r, "404")
    BY <1>6 DEF ReadExec
  <2>2. pc' \in [Requests -> Steps] /\ answer' \in [Requests -> Codes \cup {"none"}]
    BY <2>1, GotoType, ReplyType DEF Requests, Steps, ImportSteps, AfterVoucher, AfterOrgid,
                                    AfterExec, Codes
  <2>3. uuid[r] \in Uuids
    BY <1>6 DEF ReadExec, HandlersAgree, Agrees, ImportSteps, AfterVoucher, AfterOrgid, AfterExec
  <2>4. bytes' \in [Imports \cup Gets -> SUBSET Imports]
    <3>1. disk["exec"][uuid[r]] \in Contents
      BY <2>3 DEF TypeOK, Files
    <3> QED
      BY <1>6, <3>1 DEF ReadExec, TypeOK, Contents
  <2> QED
    BY <1>6, <2>2, <2>4 DEF ReadExec, TypeOK, owner, db, inputs, history
<1>7. ASSUME NEW r \in Imports, PostExec(r)
      PROVE  TypeOK'
  <2>1. Goto(r, "postSvi") \/ Reply(r, "400")
    BY <1>7 DEF PostExec
  <2>2. pc' \in [Requests -> Steps] /\ answer' \in [Requests -> Codes \cup {"none"}]
    BY <2>1, GotoType, ReplyType DEF Requests, Steps, ImportSteps, AfterVoucher, AfterOrgid,
                                    AfterExec, Codes
  <2>3. uuid[r] \in Uuids /\ bytes[r] \in Contents
    BY <1>7 DEF PostExec, HandlersAgree, Agrees, TypeOK, Contents, ImportSteps, AfterVoucher, AfterOrgid,
                AfterExec
  <2>4. /\ resource' \in [Uuids -> Contents]
        /\ touched' \in [Requests -> SUBSET Uuids]
        /\ stored' \subseteq Imports /\ forgotten' \subseteq Imports
    <3>1. CASE StoreExec(r)
      BY <2>3, <3>1, TouchType DEF StoreExec, TypeOK, Requests
    <3>2. CASE UNCHANGED <<resource, history>>
      BY <3>2 DEF TypeOK, history
    <3> QED
      BY <1>7, <3>1, <3>2 DEF PostExec
  <2> QED
    BY <1>7, <2>2, <2>4 DEF PostExec, TypeOK, db, inputs, locals
<1>8. ASSUME NEW r \in Imports, PostSvi(r)
      PROVE  TypeOK'
  <2>1. pc' \in [Requests -> Steps] /\ answer' \in [Requests -> Codes \cup {"none"}]
    BY <1>8, ReplyType DEF PostSvi, Requests, Codes
  <2> QED
    BY <1>8, <2>1 DEF PostSvi, TypeOK, db, inputs, locals, history
<1>9. ASSUME NEW r \in Gets, ReadVoucher(r)
      PROVE  TypeOK'
  <2>1. Goto(r, "askOwner") \/ Reply(r, "404")
    BY <1>9 DEF ReadVoucher
  <2>2. pc' \in [Requests -> Steps] /\ answer' \in [Requests -> Codes \cup {"none"}]
    BY <2>1, GotoType, ReplyType DEF Requests, Steps, GetSteps, Codes
  <2>3. bytes' \in [Imports \cup Gets -> SUBSET Imports]
    <3>1. disk["voucher"][uuid[r]] \in Contents
      BY DEF HandlersAgree, TypeOK, Files
    <3> QED
      BY <1>9, <3>1 DEF ReadVoucher, TypeOK, Contents
  <2> QED
    BY <1>9, <2>2, <2>3 DEF ReadVoucher, TypeOK, owner, db, inputs, history
<1>10. ASSUME NEW r \in Requests, CheckOrg(r) \/ AskOwner(r) \/ ScanFails(r) \/ SendList(r)
       PROVE  TypeOK'
  <2>1. \/ \E s \in Steps : Goto(r, s)
        \/ \E c \in Codes : Reply(r, c)
    BY <1>10 DEF CheckOrg, AskOwner, ScanFails, SendList, Steps, Codes, GetSteps, ListSteps
  <2>2. UNCHANGED <<owner, db, inputs, locals, history, crashes>>
    BY <1>10 DEF CheckOrg, AskOwner, ScanFails, SendList
  <2> QED
    BY <2>1, <2>2, GotoType, ReplyType DEF TypeOK, owner, db, inputs, locals, history
<1>11. ASSUME NEW r \in Lists, ReadDir(r) \/ Scan(r)
       PROVE  TypeOK'
  <2>1. Goto(r, "scan") \/ Reply(r, "500")
    BY <1>11 DEF ReadDir, Scan
  <2>2. pc' \in [Requests -> Steps] /\ answer' \in [Requests -> Codes \cup {"none"}]
    BY <2>1, GotoType, ReplyType DEF Requests, Steps, ListSteps, Codes
  <2>3. /\ todo' \in [Lists -> SUBSET Uuids]
        /\ found' \in [Lists -> SUBSET Uuids]
    BY <1>11 DEF ReadDir, Scan, TypeOK
  <2>4. UNCHANGED <<owner, db, inputs, uuid, bytes, history, crashes>>
    BY <1>11 DEF ReadDir, Scan
  <2> QED
    BY <2>2, <2>3, <2>4 DEF TypeOK, owner, db, inputs, history
<1>12. CASE Crash
  <2>1. pc' \in [Requests -> Steps] /\ answer' \in [Requests -> Codes \cup {"none"}]
    BY <1>12 DEF Crash, TypeOK, Steps, Codes
  <2>2. crashes' \in 0 .. MaxCrashes
    BY <1>12, CrashesAssumption DEF Crash, TypeOK
  <2> QED
    BY <1>12, <2>1, <2>2 DEF Crash, TypeOK, owner, db, inputs, locals, history
<1>13. CASE UNCHANGED vars
  BY <1>13 DEF TypeOK, vars, owner, db, inputs, locals, history
<1>14. CASE CustomSvi
  BY <1>14 DEF CustomSvi, TypeOK, db, inputs, locals, history
<1>15. CASE NewContainer
  <2>1. disk' \in [Files -> [Uuids -> Contents]]
    BY <1>15, [u \in Uuids |-> NoFile] \in [Uuids -> Contents] DEF NewContainer, Contents
  <2> QED
    BY <1>15, <2>1 DEF NewContainer, TypeOK, owner, inputs, locals
<1> QED
  BY <1>1, <1>2, <1>3, <1>4, <1>5, <1>6, <1>7, <1>8, <1>9, <1>10, <1>11, <1>12, <1>13, <1>14,
     <1>15, NextCases DEF Requests

----------------------------------------------------------------------------
LEMMA NoFileIsNoText == \A c \in SUBSET Imports : c # NoFile
BY NoneAssumption DEF NoFile

\* Vouchers and resources are never removed from the Owner Service; directories and files
\* are only removed with their container.
OwnerGrows ==
    /\ held \subseteq held'
    /\ \A u \in Uuids : resource[u] # NoFile => resource'[u] # NoFile

DbGrows ==
    /\ dirs \subseteq dirs'
    /\ \A f \in Files, u \in Uuids : disk[f][u] # NoFile => disk'[f][u] # NoFile

Grows == OwnerGrows /\ DbGrows

LEMMA NextGrows ==
    TypeOK /\ HandlersAgree /\ [Next]_vars => OwnerGrows /\ (Grows \/ NewContainer)
<1> SUFFICES ASSUME TypeOK, HandlersAgree, [Next]_vars
             PROVE  Grows \/ (OwnerGrows /\ NewContainer)
  BY DEF Grows
<1> USE DEF OwnerGrows, DbGrows
<1>1. ASSUME NEW r \in Imports, NEW f \in Files, Open(r, f) \/ Write(r, f)
      PROVE  Grows
  <2>1. uuid[r] \in Uuids
    BY <1>1 DEF Open, Write, HandlersAgree, Agrees, ImportSteps, AfterVoucher, AfterOrgid,
                OpenAt, WriteAt, Files
  <2>2. \E c \in SUBSET Imports : disk' = [disk EXCEPT ![f][uuid[r]] = c]
    <3>1. CASE Open(r, f)
      BY <3>1, {} \in SUBSET Imports DEF Open
    <3>2. CASE Write(r, f)
      <4>1. disk[f][uuid[r]] \in SUBSET Imports
        BY <2>1, <3>2 DEF Write, HandlersAgree, Agrees, TypeOK, Contents
      <4>2. Overlay(f, r, disk[f][uuid[r]]) \in SUBSET Imports
        BY <4>1 DEF Overlay
      <4> QED
        BY <3>2, <4>2 DEF Write
    <3> QED
      BY <1>1, <3>1, <3>2
  <2>3. \A g \in Files, v \in Uuids : disk[g][v] # NoFile => disk'[g][v] # NoFile
    BY <2>1, <2>2, FileUpdate, NoFileIsNoText DEF TypeOK, Contents
  <2> QED
    BY <1>1, <2>3 DEF Open, Write, Grows, owner
<1>2. ASSUME NEW r \in Imports, PostExec(r)
      PROVE  Grows
  <2>1. uuid[r] \in Uuids /\ bytes[r] \in SUBSET Imports
    BY <1>2 DEF PostExec, HandlersAgree, Agrees, TypeOK, ImportSteps, AfterVoucher, AfterOrgid,
                AfterExec
  <2> QED
    BY <1>2, <2>1, NoFileIsNoText DEF PostExec, StoreExec, TypeOK, Grows, db
<1>3. ASSUME NEW r \in Imports,
             RegisterAccepted(r) \/ RegisterRefused(r) \/ RegisterFails(r) \/ MkdirAll(r)
      PROVE  Grows
  BY <1>3 DEF RegisterAccepted, RegisterRefused, RegisterFails, MkdirAll, Grows, owner, db
<1>4. CASE UNCHANGED <<held, resource, db>>
  BY <1>4 DEF Grows, db
<1>5. ASSUME NEW r \in Requests,
             \/ Send(r) \/ Admit(r) \/ Refuse(r) \/ DiskFails(r) \/ ReadExec(r) \/ PostSvi(r)
             \/ ReadVoucher(r) \/ CheckOrg(r) \/ AskOwner(r)
             \/ ReadDir(r) \/ Scan(r) \/ ScanFails(r) \/ SendList(r)
      PROVE  UNCHANGED <<held, resource, db>>
  BY <1>5 DEF Send, Admit, Refuse, DiskFails, ReadExec, PostSvi, ReadVoucher, CheckOrg,
              AskOwner, ReadDir, Scan, ScanFails, SendList, owner
<1>6. ASSUME Crash \/ CustomSvi \/ UNCHANGED vars
      PROVE  UNCHANGED <<held, resource, db>>
  BY <1>6 DEF Crash, CustomSvi, vars, owner, db
<1>7. NewContainer => OwnerGrows
  BY DEF NewContainer, owner
<1> QED
  BY <1>1, <1>2, <1>3, <1>4, <1>5, <1>6, <1>7, NextCases DEF Requests

\* A handler that did not move, or that ended, agrees as it did.
LEMMA StillAgrees ==
    ASSUME TypeOK, HandlersAgree, Grows, NEW q \in Imports,
           pc'[q] = "done" \/ (pc'[q] = pc[q] /\ uuid'[q] = uuid[q])
    PROVE  Agrees(q)'
<1>1. CASE pc'[q] = "done"
  BY <1>1 DEF Agrees, ImportSteps, AfterVoucher, AfterOrgid, AfterExec, After, WriteAt, Files
<1>2. CASE pc'[q] = pc[q] /\ uuid'[q] = uuid[q]
  <2>1. Agrees(q)
    BY DEF HandlersAgree
  <2>2. ASSUME NEW f \in Files, pc[q] \in {WriteAt[f]} \cup After[f]
        PROVE  uuid[q] \in Uuids
    BY <2>1, <2>2 DEF Agrees, ImportSteps, AfterVoucher, AfterOrgid, AfterExec, After, WriteAt, Files
  <2>3. \A f \in Files : pc'[q] \in {WriteAt[f]} \cup After[f] => disk'[f][uuid'[q]] # NoFile
    BY <1>2, <2>1, <2>2 DEF Agrees, Grows, DbGrows
  <2> QED
    BY <1>2, <2>1, <2>3 DEF Agrees, Grows, DbGrows, OwnerGrows
<1> QED
  BY <1>1, <1>2

LEMMA OthersAgree ==
    ASSUME TypeOK, HandlersAgree, Grows, NEW r \in Requests,
           (\E s \in Steps : Goto(r, s)) \/ (\E c \in Codes : Reply(r, c)),
           \A q \in Imports \cup Gets : q # r => uuid'[q] = uuid[q]
    PROVE  /\ \A q \in Imports : q # r => Agrees(q)'
           /\ (\E c \in Codes : Reply(r, c)) /\ r \in Imports => Agrees(r)'
BY StillAgrees DEF Goto, Reply, TypeOK, Requests

LEMMA NextAgrees == TypeOK /\ HandlersAgree /\ [Next]_vars => HandlersAgree'
<1> SUFFICES ASSUME TypeOK, HandlersAgree, [Next]_vars PROVE HandlersAgree'
  OBVIOUS
<1> USE DEF HandlersAgree
<1> DEFINE StepOf(r) == (\E s \in Steps : Goto(r, s)) \/ (\E c \in Codes : Reply(r, c))
           OthersKeep(r) == \A q \in Imports \cup Gets : q # r => uuid'[q] = uuid[q]
<1>0. Grows \/ NewContainer
  BY NextGrows
<1>a. CASE NewContainer
  <2>1. uuid' = uuid /\ pc' = pc /\ \A q \in Imports : pc[q] \in {"new", "done"}
    BY <1>a DEF NewContainer, locals, Active, Requests
  <2> QED
    BY <2>1 DEF Agrees, ImportSteps, AfterVoucher, AfterOrgid, AfterExec, After, WriteAt, Files
<1>b. SUFFICES ASSUME ~NewContainer PROVE HandlersAgree'
  BY <1>a
<1>1. ASSUME NEW r \in Requests, Send(r) \/ Admit(r) \/ Refuse(r)
      PROVE  HandlersAgree'
  <2>1. StepOf(r) /\ uuid' = uuid
    BY <1>1 DEF Send, Admit, Refuse, Steps, ImportSteps, GetSteps, Codes, locals
  <2>2. r \in Imports => Agrees(r)'
    BY <1>1, <2>1 DEF Send, Admit, Refuse, Goto, Reply, TypeOK, Agrees, ImportSteps,
                      AfterVoucher, AfterOrgid, AfterExec, After, WriteAt, Files
  <2> QED
    BY <1>0, <1>b, <2>1, <2>2, OthersAgree
<1>2. ASSUME NEW r \in Imports, RegisterFails(r) \/ DiskFails(r) \/ PostSvi(r)
      PROVE  HandlersAgree'
  <2>1. (\E c \in Codes : Reply(r, c)) /\ uuid' = uuid
    BY <1>2 DEF RegisterFails, DiskFails, PostSvi, Codes, locals
  <2> QED
    BY <1>0, <1>b, <2>1, OthersAgree DEF Requests
<1>3. ASSUME NEW r \in Imports, RegisterAccepted(r) \/ RegisterRefused(r)
      PROVE  HandlersAgree'
  <2>1. Goto(r, "mkdir") /\ OthersKeep(r)
    BY <1>3 DEF RegisterAccepted, RegisterRefused, TypeOK
  <2>2. uuid'[r] \in Uuids /\ (uuid'[r] \in Devices => uuid'[r] \in held')
    BY <1>3, UuidsAssumption DEF RegisterAccepted, RegisterRefused, TypeOK, Uuids
  <2>3. Agrees(r)'
    BY <2>1, <2>2 DEF Goto, TypeOK, Agrees, ImportSteps, Requests,
                      AfterVoucher, AfterOrgid, AfterExec, After, WriteAt, Files
  <2>4. StepOf(r)
    BY <2>1 DEF Steps, ImportSteps
  <2>5. \A q \in Imports : Agrees(q)'
    BY <1>0, <1>b, <2>1, <2>3, <2>4, OthersAgree DEF Requests
  <2>6. \A q \in Gets : uuid'[q] \in Uuids
    BY <2>1, RequestsAssumption
  <2> QED
    BY <2>5, <2>6
<1>4. ASSUME NEW r \in Imports, MkdirAll(r)
      PROVE  HandlersAgree'
  <2>1. Goto(r, "openVoucher") /\ uuid' = uuid /\ dirs' = dirs \cup {uuid[r]} /\ held' = held
    BY <1>4 DEF MkdirAll, locals, owner
  <2>2. Agrees(r)'
    BY <1>4, <2>1 DEF MkdirAll, Goto, TypeOK, Agrees, ImportSteps, Requests,
                      AfterVoucher, AfterOrgid, AfterExec, After, WriteAt, Files
  <2>3. StepOf(r)
    BY <2>1 DEF Steps, ImportSteps
  <2> QED
    BY <1>0, <1>b, <2>1, <2>2, <2>3, OthersAgree DEF Requests
<1>5. ASSUME NEW r \in Imports, NEW f \in Files, Open(r, f) \/ Write(r, f)
      PROVE  HandlersAgree'
  <2>1. /\ \/ pc[r] = OpenAt[f] /\ Goto(r, WriteAt[f])
           \/ pc[r] = WriteAt[f] /\ Goto(r, NextAt[f])
        /\ uuid' = uuid /\ held' = held /\ dirs' = dirs
    BY <1>5 DEF Open, Write, locals, owner
  <2>2. uuid[r] \in Uuids
    BY <2>1 DEF Agrees, ImportSteps, AfterVoucher, AfterOrgid, OpenAt, WriteAt, Files
  <2>3. disk'[f][uuid[r]] # NoFile
    <3>1. CASE Open(r, f)
      BY <2>2, <3>1, NoFileIsNoText DEF Open, TypeOK
    <3>2. CASE Write(r, f)
      BY <2>2, <3>2, NoneAssumption DEF Write, TypeOK, Overlay, NoFile
    <3> QED
      BY <1>5, <3>1, <3>2
  <2>4. Agrees(r)'
    BY <1>0, <1>b, <2>1, <2>2, <2>3
       DEF Grows, DbGrows, Goto, TypeOK, Agrees, ImportSteps, Requests,
           AfterVoucher, AfterOrgid, AfterExec, After, OpenAt, WriteAt, NextAt, Files
  <2>5. StepOf(r)
    BY <2>1, StepSets
  <2> QED
    BY <1>0, <1>b, <2>1, <2>4, <2>5, OthersAgree DEF Requests
<1>6. ASSUME NEW r \in Imports, ReadExec(r) \/ PostExec(r)
      PROVE  HandlersAgree'
  <2>1. /\ \/ pc[r] = "readExec" /\ (Goto(r, "postExec") \/ Reply(r, "404"))
           \/ pc[r] = "postExec" /\ (Goto(r, "postSvi") \/ Reply(r, "400"))
        /\ uuid' = uuid /\ held' = held /\ dirs' = dirs /\ disk' = disk
    BY <1>6 DEF ReadExec, PostExec, locals, owner, db
  <2>2. Agrees(r)'
    BY <2>1 DEF Goto, Reply, TypeOK, Agrees, ImportSteps, Requests,
                AfterVoucher, AfterOrgid, AfterExec, After, WriteAt, Files
  <2>3. StepOf(r)
    BY <2>1 DEF Steps, ImportSteps, AfterVoucher, AfterOrgid, AfterExec, Codes
  <2> QED
    BY <1>0, <1>b, <2>1, <2>2, <2>3, OthersAgree DEF Requests
<1>7. ASSUME NEW r \in Requests,
             \/ r \in Gets /\ (ReadVoucher(r) \/ CheckOrg(r))
             \/ r \in Gets \cup Lists /\ AskOwner(r)
             \/ r \in Lists /\ (ReadDir(r) \/ Scan(r) \/ ScanFails(r) \/ SendList(r))
      PROVE  HandlersAgree'
  <2>1. StepOf(r) /\ uuid' = uuid
    BY <1>7 DEF ReadVoucher, CheckOrg, AskOwner, ReadDir, Scan, ScanFails, SendList,
                Steps, GetSteps, ListSteps, Codes, locals
  <2>2. r \notin Imports
    BY <1>7, RequestsAssumption
  <2> QED
    BY <1>0, <1>b, <2>1, <2>2, OthersAgree
<1>8. CASE Crash \/ CustomSvi \/ UNCHANGED vars
  <2>1. /\ uuid' = uuid
        /\ \A q \in Imports : pc'[q] = "done" \/ pc'[q] = pc[q]
    BY <1>8 DEF Crash, CustomSvi, vars, locals, Requests
  <2> QED
    BY <1>0, <1>b, <2>1, StillAgrees
<1> QED
  BY <1>1, <1>2, <1>3, <1>4, <1>5, <1>6, <1>7, <1>8, <1>b, NextCases DEF Requests

----------------------------------------------------------------------------
\* Type correctness, for every number of requests, devices and organisations.
THEOREM TypeCorrect == Spec => []TypeOK
<1>1. Init => TypeOK /\ HandlersAgree
  BY InitType
<1>2. TypeOK /\ HandlersAgree /\ [Next]_vars => (TypeOK /\ HandlersAgree)'
  BY NextType, NextAgrees
<1> QED
  BY <1>1, <1>2, PTL DEF Spec

\* The position of each handler tells what the Owner Service and the OCS DB already have.
THEOREM AgreementHolds == Spec => []HandlersAgree
<1>1. Init => TypeOK /\ HandlersAgree
  BY InitType
<1>2. TypeOK /\ HandlersAgree /\ [Next]_vars => (TypeOK /\ HandlersAgree)'
  BY NextType, NextAgrees
<1> QED
  BY <1>1, <1>2, PTL DEF Spec

----------------------------------------------------------------------------
\* An exec resource is stored by the last but one step of an import, and only a handler that
\* ended can be forgotten.
HistoryAgrees ==
    \A r \in Imports :
        /\ r \in stored => pc[r] \in {"postSvi", "done"} /\ uuid[r] \in Uuids
        /\ r \in forgotten => pc[r] = "done"

LEMMA NextHistory == TypeOK /\ HandlersAgree /\ HistoryAgrees /\ [Next]_vars => HistoryAgrees'
<1> SUFFICES ASSUME TypeOK, HandlersAgree, HistoryAgrees, [Next]_vars,
                    NEW q \in Imports
             PROVE  /\ q \in stored' => pc'[q] \in {"postSvi", "done"} /\ uuid'[q] \in Uuids
                    /\ q \in forgotten' => pc'[q] = "done"
  BY DEF HistoryAgrees
<1>0. /\ q \in stored => pc[q] \in {"postSvi", "done"} /\ uuid[q] \in Uuids
      /\ q \in forgotten => pc[q] = "done"
  BY DEF HistoryAgrees
<1>1. ASSUME NEW r \in Requests,
             \/ Send(r) \/ Admit(r) \/ Refuse(r)
             \/ RegisterAccepted(r) \/ RegisterRefused(r) \/ RegisterFails(r)
             \/ MkdirAll(r) \/ DiskFails(r) \/ ReadExec(r) \/ PostSvi(r)
             \/ \E f \in Files : Open(r, f) \/ Write(r, f)
             \/ ReadVoucher(r) \/ CheckOrg(r) \/ AskOwner(r)
             \/ ReadDir(r) \/ Scan(r) \/ ScanFails(r) \/ SendList(r)
      PROVE  /\ UNCHANGED <<stored, forgotten>>
             /\ pc'[q] = pc[q] \/ pc[q] \notin {"postSvi", "done"} \/ pc'[q] = "done"
             /\ uuid'[q] = uuid[q] \/ pc[q] = "register"
  <2>1. CASE Send(r) \/ Admit(r) \/ Refuse(r) \/ ReadVoucher(r) \/ CheckOrg(r) \/ AskOwner(r)
             \/ ReadDir(r) \/ Scan(r) \/ ScanFails(r) \/ SendList(r)
    BY <2>1 DEF Send, Admit, Refuse, ReadVoucher, CheckOrg, AskOwner, ReadDir, Scan, ScanFails,
                SendList, Goto, Reply, TypeOK, Requests, locals, history
  <2>2. CASE RegisterAccepted(r) \/ RegisterRefused(r) \/ RegisterFails(r) \/ MkdirAll(r)
             \/ ReadExec(r) \/ PostSvi(r)
    BY <2>2 DEF RegisterAccepted, RegisterRefused, RegisterFails, MkdirAll, ReadExec, PostSvi,
                Goto, Reply, TypeOK, Requests, locals, history
  <2>3. CASE DiskFails(r) \/ \E f \in Files : Open(r, f) \/ Write(r, f)
    BY <2>3 DEF DiskFails, Open, Write, OpenAt, WriteAt, Files, Goto, Reply, TypeOK, Requests,
                locals, history
  <2> QED
    BY <1>1, <2>1, <2>2, <2>3
<1>2. ASSUME NEW r \in Imports, PostExec(r)
      PROVE  /\ UNCHANGED <<uuid, forgotten>>
             /\ r # q => pc'[q] = pc[q] /\ (q \in stored' <=> q \in stored)
             /\ r = q => pc'[q] \in {"postSvi", "done"} /\ uuid[q] \in Uuids /\ pc[q] = "postExec"
  BY <1>2 DEF PostExec, StoreExec, Goto, Reply, TypeOK, Requests, locals, history, HandlersAgree,
              Agrees, ImportSteps, AfterVoucher, AfterOrgid, AfterExec
<1>3. CASE NewContainer
  BY <1>0, <1>3 DEF NewContainer, locals, Active, Requests
<1>4. ASSUME Crash \/ CustomSvi \/ UNCHANGED vars
      PROVE  UNCHANGED <<uuid, stored, forgotten>> /\ (pc'[q] = pc[q] \/ pc'[q] = "done")
  BY <1>4 DEF Crash, CustomSvi, vars, locals, history, Requests
<1> QED
  BY <1>0, <1>1, <1>2, <1>3, <1>4, NextCases DEF Requests

LEMMA NextOrder ==
    TypeOK /\ HandlersAgree /\ HistoryAgrees /\ ImportOrder /\ [Next]_vars => ImportOrder'
<1> SUFFICES ASSUME TypeOK, HandlersAgree, HistoryAgrees, ImportOrder, [Next]_vars
             PROVE  ImportOrder'
  OBVIOUS
<1>0. Grows \/ NewContainer
  BY NextGrows
<1>a. CASE NewContainer
  <2>1. UNCHANGED <<held, resource, uuid, stored>> /\ dirs' = {}
    BY <1>a DEF NewContainer, owner, locals
  <2>2. stored' \ forgotten' = {}
    BY <1>a, <2>1 DEF NewContainer, HistoryAgrees, Active, Requests, TypeOK
  <2>3. \A f \in Files, u \in Uuids : disk'[f][u] = NoFile
    BY <1>a DEF NewContainer
  <2> QED
    BY <2>1, <2>2, <2>3 DEF ImportOrder
<1>b. SUFFICES ASSUME Grows, ~NewContainer PROVE ImportOrder'
  BY <1>0, <1>a
<1>1. ASSUME NEW r \in Imports, NEW f \in Files, Open(r, f) \/ Write(r, f)
      PROVE  ImportOrder'
  <2>1. pc[r] \in ImportSteps \ {"register", "mkdir"}
    BY <1>1 DEF Open, Write, ImportSteps, AfterVoucher, AfterOrgid, OpenAt, WriteAt, Files
  <2>2. uuid[r] \in dirs
    BY <2>1 DEF HandlersAgree, Agrees
  <2>3. \A g \in Files, u \in Uuids : disk'[g][u] # disk[g][u] => u \in dirs
    <3>1. uuid[r] \in Uuids
      BY <2>2 DEF TypeOK
    <3>2. \A g \in Files, u \in Uuids : u # uuid[r] => disk'[g][u] = disk[g][u]
      BY <1>1, <3>1 DEF Open, Write, TypeOK
    <3> QED
      BY <2>2, <3>2
  <2>4. UNCHANGED <<resource, dirs, uuid, stored, forgotten>>
    BY <1>1 DEF Open, Write, owner, locals
  <2>5. \A q \in stored \ forgotten : uuid[q] \in Uuids
    BY DEF HistoryAgrees, TypeOK
  <2> QED
    BY <1>b, <2>3, <2>4, <2>5 DEF ImportOrder, Grows, OwnerGrows, DbGrows
<1>2. ASSUME NEW r \in Imports, PostExec(r)
      PROVE  ImportOrder'
  <2>1. \A f \in Files : disk[f][uuid[r]] # NoFile
    BY <1>2 DEF PostExec, HandlersAgree, Agrees, After, AfterVoucher, AfterOrgid, AfterExec, Files
  <2>2. UNCHANGED <<dirs, disk, uuid, forgotten>>
    BY <1>2 DEF PostExec, StoreExec, db, locals, history
  <2>3. CASE StoreExec(r)
    <3>1. uuid[r] \in Devices => uuid[r] \in held
      BY <1>2 DEF PostExec, HandlersAgree, Agrees, ImportSteps, AfterVoucher, AfterOrgid, AfterExec
    <3> QED
      BY <1>b, <2>1, <2>2, <2>3, <3>1 DEF StoreExec, ImportOrder, TypeOK, Grows, OwnerGrows
  <2>4. CASE UNCHANGED <<resource, history>>
    BY <1>b, <2>2, <2>4 DEF ImportOrder, Grows, OwnerGrows, history
  <2> QED
    BY <1>2, <2>3, <2>4 DEF PostExec
<1>3. ASSUME NEW r \in Imports, MkdirAll(r)
      PROVE  ImportOrder'
  <2>1. uuid[r] \in Devices => uuid[r] \in held
    BY <1>3 DEF MkdirAll, HandlersAgree, Agrees, ImportSteps
  <2> QED
    BY <1>3, <2>1 DEF MkdirAll, ImportOrder, owner, locals, history
<1>4. ASSUME UNCHANGED <<resource, db, stored, forgotten>>,
             \A q \in stored : uuid'[q] = uuid[q]
      PROVE  ImportOrder'
  BY <1>b, <1>4 DEF ImportOrder, Grows, OwnerGrows, db
<1>5. ASSUME NEW r \in Requests,
             \/ RegisterAccepted(r) \/ RegisterRefused(r) \/ RegisterFails(r)
             \/ Send(r) \/ Admit(r) \/ Refuse(r) \/ DiskFails(r) \/ ReadExec(r) \/ PostSvi(r)
             \/ ReadVoucher(r) \/ CheckOrg(r) \/ AskOwner(r)
             \/ ReadDir(r) \/ Scan(r) \/ ScanFails(r) \/ SendList(r)
      PROVE  /\ UNCHANGED <<resource, db, stored, forgotten>>
             /\ \A q \in stored : uuid'[q] = uuid[q]
  <2>1. CASE RegisterAccepted(r) \/ RegisterRefused(r) \/ RegisterFails(r)
    BY <1>5, <2>1 DEF RegisterAccepted, RegisterRefused, RegisterFails, owner, locals, history,
                      HistoryAgrees, TypeOK
  <2> QED
    BY <1>5, <2>1 DEF Send, Admit, Refuse, DiskFails, ReadExec, PostSvi, ReadVoucher, CheckOrg,
                      AskOwner, ReadDir, Scan, ScanFails, SendList, owner, locals, history
<1>6. ASSUME Crash \/ CustomSvi \/ UNCHANGED vars
      PROVE  UNCHANGED <<resource, db, stored, forgotten, uuid>>
  BY <1>6 DEF Crash, CustomSvi, vars, owner, db, locals, history
<1> QED
  BY <1>1, <1>2, <1>3, <1>4, <1>5, <1>6, <1>b, NextCases DEF Requests

\* No crash, lost answer or failing step puts an exec file before the files of the OCS DB,
\* or those before the voucher at the Owner Service.
THEOREM OrderHolds == Spec => []ImportOrder
<1>1. Init => TypeOK /\ HandlersAgree /\ HistoryAgrees /\ ImportOrder
  BY InitType DEF Init, HistoryAgrees, ImportOrder
<1>2. TypeOK /\ HandlersAgree /\ HistoryAgrees /\ ImportOrder /\ [Next]_vars
        => (TypeOK /\ HandlersAgree /\ HistoryAgrees /\ ImportOrder)'
  BY NextType, NextAgrees, NextHistory, NextOrder
<1> QED
  BY <1>1, <1>2, PTL DEF Spec

----------------------------------------------------------------------------
\* A request has an answer only once its handler ended.
AnsweredDone == \A r \in Requests : answer[r] # "none" => pc[r] = "done"

LEMMA NextAnswered == TypeOK /\ AnsweredDone /\ [Next]_vars => AnsweredDone'
<1> SUFFICES ASSUME TypeOK, AnsweredDone, [Next]_vars PROVE AnsweredDone'
  OBVIOUS
<1>1. ASSUME NEW r \in Requests, NEW s, pc[r] # "done", Goto(r, s)
      PROVE  AnsweredDone'
  BY <1>1 DEF Goto, AnsweredDone, TypeOK
<1>2. ASSUME NEW r \in Requests, NEW c, Reply(r, c)
      PROVE  AnsweredDone'
  BY <1>2 DEF Reply, AnsweredDone, TypeOK
<1>3. ASSUME NEW r \in Requests,
             \/ Send(r) \/ Admit(r) \/ Refuse(r)
             \/ RegisterAccepted(r) \/ RegisterRefused(r) \/ RegisterFails(r)
             \/ MkdirAll(r) \/ DiskFails(r) \/ ReadExec(r) \/ PostExec(r) \/ PostSvi(r)
             \/ \E f \in Files : Open(r, f) \/ Write(r, f)
             \/ ReadVoucher(r) \/ CheckOrg(r) \/ AskOwner(r)
             \/ ReadDir(r) \/ Scan(r) \/ ScanFails(r) \/ SendList(r)
      PROVE  AnsweredDone'
  <2>1. pc[r] # "done"
    <3>1. CASE DiskFails(r) \/ \E f \in Files : Open(r, f) \/ Write(r, f)
      BY <3>1 DEF DiskFails, Open, Write, OpenAt, WriteAt, Files
    <3> QED
      BY <1>3, <3>1 DEF Send, Admit, Refuse, RegisterAccepted, RegisterRefused, RegisterFails,
                        MkdirAll, ReadExec, PostExec, PostSvi, ReadVoucher, CheckOrg, AskOwner,
                        ReadDir, Scan, ScanFails, SendList
  <2>2. CASE Send(r) \/ Admit(r) \/ RegisterAccepted(r) \/ RegisterRefused(r) \/ MkdirAll(r)
             \/ (\E f \in Files : Open(r, f) \/ Write(r, f)) \/ Scan(r)
    BY <1>1, <2>1, <2>2 DEF Send, Admit, RegisterAccepted, RegisterRefused, MkdirAll, Open, Write,
                            Scan
  <2>3. CASE Refuse(r) \/ RegisterFails(r) \/ DiskFails(r) \/ PostSvi(r) \/ CheckOrg(r)
             \/ ScanFails(r) \/ SendList(r)
    BY <1>2, <2>3 DEF Refuse, RegisterFails, DiskFails, PostSvi, CheckOrg, ScanFails, SendList
  <2>4. CASE ReadExec(r) \/ PostExec(r) \/ ReadVoucher(r) \/ AskOwner(r) \/ ReadDir(r)
    BY <1>1, <1>2, <2>1, <2>4 DEF ReadExec, PostExec, ReadVoucher, AskOwner, ReadDir
  <2> QED
    BY <1>3, <2>2, <2>3, <2>4
<1>4. CASE Crash
  BY <1>4 DEF Crash, AnsweredDone, Active, TypeOK
<1>5. CASE CustomSvi \/ NewContainer \/ UNCHANGED vars
  BY <1>5 DEF CustomSvi, NewContainer, AnsweredDone, vars
<1> QED
  BY <1>1, <1>2, <1>3, <1>4, <1>5, NextCases DEF Requests

\* What makes SoloImportLands inductive: between the open and the write of a file it is
\* empty, and what a new container takes away does not come back by itself.
Landing(r) ==
    /\ Solo(r) => \A f \in Files : pc[r] = WriteAt[f] => disk[f][uuid[r]] = {}
    /\ Solo(r) /\ r \in forgotten /\ uuid[r] \in Uuids =>
          \A f \in Files : disk[f][uuid[r]] = NoFile
    /\ Answered200(r) => uuid[r] \in Uuids
    /\ Lands(r)

AllLand == \A r \in Imports : Landing(r)

\* A step of q that changes nothing but the files and the resource of its own uuid.
Confined(q) ==
    /\ \A f \in Files, u \in Uuids : u # uuid[q] => disk'[f][u] = disk[f][u]
    /\ \A u \in Uuids : u # uuid[q] => resource'[u] = resource[u]
    /\ Touch(q, uuid[q])

LEMMA OthersLand ==
    ASSUME TypeOK, HandlersAgree, HistoryAgrees, AnsweredDone, AllLand, NEW r \in Imports,
           pc'[r] = pc[r], answer'[r] = answer[r], uuid'[r] = uuid[r], bytes'[r] = bytes[r],
           r \in stored' <=> r \in stored,
           r \in forgotten' <=> r \in forgotten,
           \/ UNCHANGED <<disk, resource, touched>>
           \/ \E q \in Requests : q # r /\ Confined(q)
    PROVE  Landing(r)'
<1>1. Landing(r)
  BY DEF AllLand
<1>2. CASE UNCHANGED <<disk, resource, touched>>
  BY <1>1, <1>2 DEF Landing, Lands, Solo, Answered200
<1>3. ASSUME NEW q \in Requests, q # r, Confined(q)
      PROVE  Landing(r)'
  <2> DEFINE Stays(f) == \/ pc[r] \in {WriteAt[f]} \cup After[f]
                         \/ pc[r] = "done" /\ uuid[r] \in Uuids
  <2>1. touched[r] \subseteq touched'[r]
    BY <1>3 DEF Confined, Touch, TypeOK, Requests
  <2>2. ASSUME Solo(r)', NEW f \in Files, Stays(f)
        PROVE  disk'[f][uuid[r]] = disk[f][uuid[r]] /\ resource'[uuid[r]] = resource[uuid[r]]
    <3>1. pc[r] # "new" /\ (pc[r] \in ImportSteps \ {"register"} \/ uuid[r] \in Uuids)
      BY <2>2 DEF ImportSteps, AfterVoucher, AfterOrgid, AfterExec, After, WriteAt, Files
    <3>2. uuid[q] \in touched'[r]
      BY <1>3, <3>1 DEF Confined, Touch, Requests
    <3>3. uuid[r] \in Uuids /\ uuid[r] # uuid[q]
      BY <2>2, <3>1, <3>2 DEF Solo, HandlersAgree, Agrees
    <3> QED
      BY <1>3, <3>3 DEF Confined
  <2>3. Solo(r)' => Solo(r)
    BY <2>1 DEF Solo
  <2>4. pc[r] = "postSvi" => Stays("exec") /\ Stays("orgid") /\ Stays("voucher")
    BY DEF After, AfterVoucher, AfterOrgid, AfterExec
  <2>5. Answered200(r)' <=> Answered200(r)
    BY DEF Answered200
  <2>6. /\ Answered200(r) => pc[r] = "done" /\ uuid[r] \in Uuids
        /\ r \in stored => (pc[r] = "postSvi" \/ (pc[r] = "done" /\ uuid[r] \in Uuids))
        /\ r \in forgotten => pc[r] = "done"
    BY <1>1 DEF Landing, AnsweredDone, Answered200, HistoryAgrees, Requests
  <2>7. Lands(r)'
    <3>1. SUFFICES ASSUME Solo(r)'
                   PROVE  /\ \A f \in Files :
                                \/ pc[r] \in After[f]
                                \/ r \notin forgotten /\ (Answered200(r) \/ r \in stored)
                                => disk'[f][uuid[r]] = {r}
                          /\ pc[r] \in {"postExec", "postSvi"} => bytes[r] = {r}
                          /\ (pc[r] = "postSvi" \/ Answered200(r)) /\ r \in stored
                                => resource'[uuid[r]] = {r}
      BY <2>5 DEF Lands
    <3>2. Lands(r) /\ Solo(r)
      BY <1>1, <2>3, <3>1 DEF Landing
    <3>3. ASSUME NEW f \in Files,
                 \/ pc[r] \in After[f]
                 \/ r \notin forgotten /\ (Answered200(r) \/ r \in stored)
          PROVE  disk'[f][uuid[r]] = {r}
      <4>1. Stays(f)
        BY <2>4, <2>6, <3>3 DEF Files
      <4> QED
        BY <2>2, <3>1, <3>2, <3>3, <4>1 DEF Lands
    <3>4. pc[r] = "postSvi" \/ Answered200(r) => resource'[uuid[r]] = resource[uuid[r]]
      BY <2>2, <2>4, <2>6, <3>1 DEF Files
    <3> QED
      BY <3>2, <3>3, <3>4 DEF Lands
  <2>8. Solo(r)' /\ r \in forgotten /\ uuid[r] \in Uuids =>
            \A f \in Files : disk'[f][uuid[r]] = NoFile
    BY <1>1, <2>2, <2>3, <2>6 DEF Landing
  <2>9. Solo(r)' => \A f \in Files : pc[r] = WriteAt[f] => disk'[f][uuid[r]] = {}
    BY <1>1, <2>2, <2>3 DEF Landing
  <2> QED
    BY <1>1, <2>5, <2>7, <2>8, <2>9 DEF Landing
<1> QED
  BY <1>2, <1>3

LEMMA NextLands ==
    TypeOK /\ HandlersAgree /\ HistoryAgrees /\ AnsweredDone /\ AllLand /\ [Next]_vars
        => AllLand'
<1> SUFFICES ASSUME TypeOK, HandlersAgree, HistoryAgrees, AnsweredDone, AllLand, [Next]_vars,
                    NEW q \in Imports
             PROVE  Landing(q)'
  BY DEF AllLand
<1>0. /\ Landing(q) /\ pc[q] \in Steps /\ (pc[q] \notin {"postSvi", "done"} => q \notin stored)
      /\ pc[q] # "done" => ~Answered200(q) /\ q \notin forgotten
  BY DEF AllLand, TypeOK, Requests, AnsweredDone, HistoryAgrees, Answered200
<1>1. ASSUME pc'[q] = "done", ~Answered200(q)', q \notin stored', q \notin forgotten'
      PROVE  Landing(q)'
  BY <1>1 DEF Landing, Lands, After, AfterVoucher, AfterOrgid, AfterExec, WriteAt, Files
<1>2. ASSUME pc'[q] \in {"new", "auth", "register", "mkdir", "openVoucher"}, stored' = stored,
             forgotten' = forgotten, pc[q] \notin {"postSvi", "done"}, answer' = answer
      PROVE  Landing(q)'
  BY <1>0, <1>2 DEF Landing, Lands, After, AfterVoucher, AfterOrgid, AfterExec, WriteAt, Files,
                    Answered200
\* An import at its last step ends, with any answer or none.
<1>a. ASSUME pc[q] = "postSvi", pc'[q] = "done",
             UNCHANGED <<disk, resource, touched, stored, forgotten, uuid, bytes>>
      PROVE  Landing(q)'
  <2>1. /\ uuid[q] \in Uuids
        /\ Solo(q) => \A f \in Files : disk[f][uuid[q]] = {q}
        /\ Solo(q) /\ q \in stored => resource[uuid[q]] = {q}
    BY <1>0, <1>a DEF Landing, Lands, HandlersAgree, Agrees, ImportSteps, After, AfterVoucher,
                      AfterOrgid, AfterExec, Files
  <2> QED
    BY <1>0, <1>a, <2>1 DEF Landing, Lands, Solo, After, AfterVoucher, AfterOrgid, AfterExec,
                            WriteAt, Files
<1>3. ASSUME NEW r \in Requests, Send(r) \/ Admit(r) \/ Refuse(r)
      PROVE  Landing(q)'
  <2>1. UNCHANGED <<disk, resource, touched, stored, forgotten, uuid, bytes>>
    BY <1>3 DEF Send, Admit, Refuse, owner, db, locals, history
  <2>2. CASE r = q
    BY <1>0, <1>1, <1>2, <1>3, <2>1, <2>2 DEF Send, Admit, Refuse, Goto, Reply, TypeOK, Answered200
  <2>3. CASE r # q
    <3>1. pc'[q] = pc[q] /\ answer'[q] = answer[q]
      BY <1>3, <2>3 DEF Send, Admit, Refuse, Goto, Reply, TypeOK, Requests
    <3> QED
      BY <2>1, <3>1, OthersLand
  <2> QED
    BY <2>2, <2>3
<1>4. ASSUME NEW r \in Imports,
             \/ RegisterAccepted(r) \/ RegisterRefused(r) \/ RegisterFails(r)
             \/ MkdirAll(r) \/ DiskFails(r) \/ PostSvi(r)
      PROVE  Landing(q)'
  <2>1. UNCHANGED <<disk, resource, touched, stored, forgotten, bytes>>
    BY <1>4 DEF RegisterAccepted, RegisterRefused, RegisterFails, MkdirAll, DiskFails, PostSvi,
                owner, db, locals, history
  <2>2. CASE r = q /\ ~PostSvi(r)
    BY <1>0, <1>1, <1>2, <1>4, <2>1, <2>2
       DEF RegisterAccepted, RegisterRefused, RegisterFails, MkdirAll, DiskFails,
           Goto, Reply, TypeOK, Requests, OpenAt, WriteAt, Files, Answered200
  <2>4. CASE r = q /\ PostSvi(r)
    <3>1. pc[q] = "postSvi" /\ pc'[q] = "done" /\ uuid' = uuid
      BY <2>4 DEF PostSvi, Reply, TypeOK, Requests, locals
    <3> QED
      BY <1>a, <2>1, <3>1
  <2>3. CASE r # q
    <3>1. pc'[q] = pc[q] /\ answer'[q] = answer[q] /\ uuid'[q] = uuid[q]
      BY <1>4, <2>3 DEF RegisterAccepted, RegisterRefused, RegisterFails, MkdirAll, DiskFails,
                        PostSvi, Goto, Reply, TypeOK, Requests, locals
    <3> QED
      BY <2>1, <3>1, OthersLand
  <2> QED
    BY <2>2, <2>3, <2>4
<1>5. ASSUME NEW r \in Imports, NEW f \in Files, Open(r, f) \/ Write(r, f)
      PROVE  Landing(q)'
  <2>1. UNCHANGED <<resource, uuid, bytes, stored, forgotten>> /\ Touch(r, uuid[r])
    BY <1>5 DEF Open, Write, owner, locals
  <2>2. uuid[r] \in Uuids
    BY <1>5 DEF Open, Write, HandlersAgree, Agrees, ImportSteps, AfterVoucher, AfterOrgid,
                OpenAt, WriteAt, Files
  <2>3. \A g \in Files, u \in Uuids : g # f \/ u # uuid[r] => disk'[g][u] = disk[g][u]
    BY <1>5, <2>2 DEF Open, Write, TypeOK
  <2>4. CASE r # q
    <3>1. pc'[q] = pc[q] /\ answer'[q] = answer[q]
      BY <1>5, <2>4 DEF Open, Write, Goto, TypeOK, Requests
    <3>2. Confined(r)
      BY <2>1, <2>3 DEF Confined
    <3> QED
      BY <2>1, <2>4, <3>1, <3>2, OthersLand DEF Requests
  <2>5. CASE r = q
    <3>1. touched'[q] = touched[q]
      BY <2>1, <2>5 DEF Touch, Requests
    <3>2. q \notin stored' /\ ~Answered200(q)'
      BY <1>0, <1>5, <2>1, <2>5 DEF Open, Write, OpenAt, WriteAt, Files, Goto, Answered200
    <3>3. CASE Open(r, f)
      <4>1. pc[q] = OpenAt[f] /\ pc'[q] = WriteAt[f] /\ disk'[f][uuid[q]] = {}
        BY <2>2, <2>5, <3>3 DEF Open, Goto, TypeOK, Requests
      <4> QED
        BY <1>0, <2>1, <2>2, <2>3, <2>5, <3>1, <3>2, <4>1
           DEF Landing, Lands, Solo, After, AfterVoucher, AfterOrgid, AfterExec, OpenAt,
               WriteAt, Files
    <3>4. CASE Write(r, f)
      <4>1. pc[q] = WriteAt[f] /\ pc'[q] = NextAt[f]
        BY <2>5, <3>4 DEF Write, Goto, TypeOK, Requests
      <4>2. Solo(q) => disk'[f][uuid[q]] = {q}
        <5>1. Solo(q) => disk[f][uuid[q]] = {}
          BY <1>0, <4>1 DEF Landing
        <5> QED
          BY <2>2, <2>5, <3>4, <5>1 DEF Write, Overlay, TypeOK
      <4> QED
        BY <1>0, <2>1, <2>2, <2>3, <2>5, <3>1, <3>2, <4>1, <4>2
           DEF Landing, Lands, Solo, After, AfterVoucher, AfterOrgid, AfterExec, NextAt,
               WriteAt, Files
    <3> QED
      BY <1>5, <3>3, <3>4
  <2> QED
    BY <2>4, <2>5
<1>6. ASSUME NEW r \in Imports, ReadExec(r)
      PROVE  Landing(q)'
  <2>1. UNCHANGED <<disk, resource, touched, stored, forgotten, uuid>>
    BY <1>6 DEF ReadExec, owner, db, history
  <2>2. CASE r # q
    <3>1. pc'[q] = pc[q] /\ answer'[q] = answer[q] /\ bytes'[q] = bytes[q]
      BY <1>6, <2>2 DEF ReadExec, Goto, Reply, TypeOK, Requests
    <3> QED
      BY <2>1, <3>1, OthersLand
  <2>3. CASE r = q /\ pc'[q] # "done"
    <3>1. /\ pc[q] = "readExec" /\ pc'[q] = "postExec" /\ answer' = answer
          /\ bytes'[q] = disk["exec"][uuid[q]]
      BY <1>6, <2>3 DEF ReadExec, Goto, Reply, TypeOK, Requests
    <3>2. Solo(q) => disk["exec"][uuid[q]] = {q}
      BY <1>0, <3>1 DEF Landing, Lands, After, AfterExec, Files
    <3> QED
      BY <1>0, <2>1, <3>1, <3>2
         DEF Landing, Lands, Solo, After, AfterVoucher, AfterOrgid, AfterExec, WriteAt, Files,
             Answered200
  <2>4. CASE r = q /\ pc'[q] = "done"
    BY <1>0, <1>1, <1>6, <2>1, <2>4 DEF ReadExec, Goto, Reply, TypeOK, Requests, Answered200
  <2> QED
    BY <2>2, <2>3, <2>4
<1>7. ASSUME NEW r \in Imports, PostExec(r)
      PROVE  Landing(q)'
  <2>1. UNCHANGED <<disk, uuid, bytes, forgotten>>
    BY <1>7 DEF PostExec, StoreExec, db, locals, history
  <2>2. \/ StoreExec(r)
        \/ UNCHANGED <<resource, touched, stored>>
    BY <1>7 DEF PostExec, history
  <2>3. uuid[r] \in Uuids
    BY <1>7 DEF PostExec, HandlersAgree, Agrees, ImportSteps, AfterVoucher, AfterOrgid, AfterExec
  <2>4. CASE r # q
    <3>1. pc'[q] = pc[q] /\ answer'[q] = answer[q]
      BY <1>7, <2>4 DEF PostExec, Goto, Reply, TypeOK, Requests
    <3>2. q \in stored' <=> q \in stored
      BY <2>2, <2>4 DEF StoreExec
    <3>3. UNCHANGED <<disk, resource, touched>> \/ Confined(r)
      BY <2>1, <2>2 DEF StoreExec, Confined, TypeOK
    <3> QED
      BY <2>1, <2>4, <3>1, <3>2, <3>3, OthersLand DEF Requests
  <2>5. CASE r = q
    <3>1. /\ pc[q] = "postExec" /\ touched'[q] = touched[q]
          /\ pc'[q] = "postSvi" \/ pc'[q] = "done"
          /\ answer'[q] \in {answer[q], "400"}
      BY <1>7, <2>2, <2>5 DEF PostExec, StoreExec, Touch, Goto, Reply, TypeOK, Requests
    <3>2. Solo(q) => bytes[q] = {q} /\ \A f \in Files : disk[f][uuid[q]] = {q}
      BY <1>0, <3>1 DEF Landing, Lands, After, AfterVoucher, AfterOrgid, AfterExec, Files
    <3>3. q \in stored' => resource'[uuid[q]] = bytes[q]
      BY <1>0, <2>2, <2>3, <2>5, <3>1 DEF StoreExec, TypeOK
    <3>4. ~Answered200(q)' /\ q \notin forgotten'
      BY <1>0, <2>1, <3>1 DEF Answered200
    <3> QED
      BY <2>1, <3>1, <3>2, <3>3, <3>4 DEF Landing, Lands, Solo, WriteAt, After, AfterVoucher,
                                          AfterOrgid, AfterExec, Files
  <2> QED
    BY <2>4, <2>5
<1>8. ASSUME NEW r \in Requests,
             \/ r \in Gets /\ (ReadVoucher(r) \/ CheckOrg(r))
             \/ r \in Gets \cup Lists /\ AskOwner(r)
             \/ r \in Lists /\ (ReadDir(r) \/ Scan(r) \/ ScanFails(r) \/ SendList(r))
      PROVE  Landing(q)'
  <2>1. r # q
    BY <1>8, RequestsAssumption
  <2>2. UNCHANGED <<disk, resource, touched, stored, forgotten, uuid>>
    BY <1>8 DEF ReadVoucher, CheckOrg, AskOwner, ReadDir, Scan, ScanFails, SendList, owner, db,
                locals, history
  <2>3. pc'[q] = pc[q] /\ answer'[q] = answer[q] /\ bytes'[q] = bytes[q]
    BY <1>8, <2>1 DEF ReadVoucher, CheckOrg, AskOwner, ReadDir, Scan, ScanFails, SendList,
                      Goto, Reply, TypeOK, Requests, locals
  <2> QED
    BY <2>2, <2>3, OthersLand
<1>9. CASE Crash \/ CustomSvi \/ UNCHANGED vars
  <2>1. /\ UNCHANGED <<disk, resource, touched, stored, forgotten, uuid, bytes>>
        /\ \/ pc[q] # "done" /\ pc'[q] = "done" /\ answer'[q] = "lost"
           \/ pc'[q] = pc[q] /\ answer'[q] = answer[q]
    BY <1>9 DEF Crash, CustomSvi, vars, owner, db, locals, history, Active, Requests
  <2> QED
    BY <1>0, <1>1, <1>a, <2>1, OthersLand DEF Answered200
<1>10. CASE NewContainer
  <2>1. /\ UNCHANGED <<resource, touched, stored, uuid, bytes, answer>> /\ pc' = pc
        /\ pc[q] = "new" \/ (pc[q] = "done" /\ q \in forgotten')
        /\ q \in forgotten' => pc[q] = "done"
    BY <1>10 DEF NewContainer, owner, locals, Active, Requests
  <2>2. uuid[q] \in Uuids => \A f \in Files : disk'[f][uuid[q]] = NoFile
    BY <1>10 DEF NewContainer
  <2> QED
    BY <1>0, <2>1, <2>2 DEF Landing, Lands, Solo, Answered200, WriteAt, After, AfterVoucher,
                            AfterOrgid, AfterExec, Files
<1> QED
  BY <1>3, <1>4, <1>5, <1>6, <1>7, <1>8, <1>9, <1>10, NextCases DEF Requests

\* An import that overlaps no other one of its device gives the device the token of its own
\* response, and leaves its own voucher, organisation and exec file until the next import.
THEOREM SoloImportsLand == Spec => []SoloImportLands
<1>1. Init => TypeOK /\ HandlersAgree /\ HistoryAgrees /\ AnsweredDone /\ AllLand
  BY InitType DEF Init, AllLand, Landing, Lands, After, AfterVoucher, AfterOrgid, AfterExec,
                  WriteAt, Files, Requests, HistoryAgrees, AnsweredDone, Answered200
<1>2. TypeOK /\ HandlersAgree /\ HistoryAgrees /\ AnsweredDone /\ AllLand /\ [Next]_vars
        => (TypeOK /\ HandlersAgree /\ HistoryAgrees /\ AnsweredDone /\ AllLand)'
  BY NextType, NextAgrees, NextHistory, NextAnswered, NextLands
<1>3. AllLand => SoloImportLands
  BY DEF AllLand, Landing, SoloImportLands
<1> QED
  BY <1>1, <1>2, <1>3, PTL DEF Spec

----------------------------------------------------------------------------
(***************************************************************************)
(* OcsVouchers implements DeviceEnrolment.                                 *)
(***************************************************************************)
Recorded    == {d \in Devices : disk["orgid"][d] # NoFile}
Provisioned == {d \in Devices : resource[d] # NoFile}
Confirmed   == {d \in Devices : \E r \in Imports : uuid[r] = d /\ answer[r] = "200"}

\* Unless it answers 200, a step confirms nothing and takes nothing back.
LEMMA ConfirmedKept ==
    ASSUME TypeOK, AnsweredDone, NEW r \in Requests, pc[r] # "done",
           (\E s : Goto(r, s)) \/ (\E c : Reply(r, c) /\ c # "200"),
           \A q \in Imports : q # r => uuid'[q] = uuid[q]
    PROVE  Confirmed' = Confirmed
<1>1. answer[r] = "none" /\ answer'[r] # "200"
  BY DEF AnsweredDone, Goto, Reply, TypeOK
<1>2. \A q \in Imports : q # r => answer'[q] = answer[q]
  BY DEF Goto, Reply, TypeOK, Requests
<1> QED
  BY <1>1, <1>2 DEF Confirmed

LEMMA NextEnrols ==
    TypeOK /\ HandlersAgree /\ AnsweredDone /\ [Next]_vars => [Enrolment!Next]_(Enrolment!vars)
<1> SUFFICES ASSUME TypeOK, HandlersAgree, AnsweredDone, [Next]_vars
             PROVE  [Enrolment!Next]_(Enrolment!vars)
  OBVIOUS
<1>0. ASSUME UNCHANGED <<held, Recorded, Provisioned, Confirmed>>
      PROVE  [Enrolment!Next]_(Enrolment!vars)
  BY <1>0 DEF Enrolment!vars, Recorded, Provisioned, Confirmed
<1>a. CASE NewContainer
  BY <1>a DEF NewContainer, Enrolment!Next, Enrolment!Forget, owner, locals, Files, Uuids
<1>b. SUFFICES ASSUME ~NewContainer, Grows PROVE [Enrolment!Next]_(Enrolment!vars)
  BY <1>a, NextGrows
<1>1. ASSUME NEW r \in Imports, RegisterAccepted(r) \/ RegisterRefused(r) \/ RegisterFails(r)
      PROVE  [Enrolment!Next]_(Enrolment!vars)
  <2>1. UNCHANGED <<Recorded, Provisioned>>
    BY <1>1 DEF RegisterAccepted, RegisterRefused, RegisterFails, Recorded, Provisioned, owner, db
  <2>2. Confirmed' = Confirmed
    BY <1>1, ConfirmedKept DEF RegisterAccepted, RegisterRefused, RegisterFails, TypeOK, locals,
                               Requests
  <2>3. dev[r] \in Devices /\ held' \in {held, held \cup {dev[r]}}
    BY <1>1 DEF RegisterAccepted, RegisterRefused, RegisterFails, TypeOK, owner
  <2>4. ASSUME held' = held \cup {dev[r]}
        PROVE  Enrolment!Register(dev[r])
    BY <2>1, <2>2, <2>4 DEF Enrolment!Register, Recorded, Provisioned, Confirmed
  <2> QED
    BY <1>0, <2>1, <2>2, <2>3, <2>4 DEF Enrolment!Next
<1>2. ASSUME NEW r \in Imports, NEW f \in Files, Open(r, f) \/ Write(r, f)
      PROVE  [Enrolment!Next]_(Enrolment!vars)
  <2>1. UNCHANGED <<held, Provisioned>>
    BY <1>2 DEF Open, Write, Provisioned, owner
  <2>2. Confirmed' = Confirmed
    BY <1>2, ConfirmedKept DEF Open, Write, OpenAt, WriteAt, Files, locals, Requests
  <2>3. uuid[r] \in Uuids /\ (uuid[r] \in Devices => uuid[r] \in held)
    BY <1>2 DEF Open, Write, HandlersAgree, Agrees, ImportSteps, AfterVoucher, AfterOrgid,
                OpenAt, WriteAt, Files
  <2>4. \A d \in Devices : d # uuid[r] => disk'["orgid"][d] = disk["orgid"][d]
    BY <1>2, <2>3 DEF Open, Write, TypeOK, Files, Uuids
  <2>5. Recorded \subseteq Recorded'
    BY <1>b DEF Grows, DbGrows, Recorded, Files, Uuids
  <2>6. Recorded' = Recorded \/ (uuid[r] \in Devices /\ Recorded' = Recorded \cup {uuid[r]})
    BY <2>4, <2>5 DEF Recorded
  <2>7. ASSUME NEW d \in Devices, d = uuid[r], Recorded' = Recorded \cup {d}
        PROVE  Enrolment!Record(d)
    BY <2>1, <2>2, <2>3, <2>7 DEF Enrolment!Record, Recorded, Provisioned, Confirmed
  <2>8. CASE Recorded' = Recorded
    BY <1>0, <2>1, <2>2, <2>8
  <2>9. CASE uuid[r] \in Devices /\ Recorded' = Recorded \cup {uuid[r]}
    BY <2>7, <2>9 DEF Enrolment!Next
  <2> QED
    BY <2>6, <2>8, <2>9
<1>3. ASSUME NEW r \in Imports, PostExec(r)
      PROVE  [Enrolment!Next]_(Enrolment!vars)
  <2>1. UNCHANGED <<held, Recorded>>
    BY <1>3 DEF PostExec, Recorded, db
  <2>2. Confirmed' = Confirmed
    BY <1>3, ConfirmedKept DEF PostExec, locals, Requests
  <2>3. disk["orgid"][uuid[r]] # NoFile
    BY <1>3 DEF PostExec, HandlersAgree, Agrees, After, AfterVoucher, AfterOrgid, AfterExec, Files
  <2>4. \A d \in Devices : d # uuid[r] => resource'[d] = resource[d]
    BY <1>3 DEF PostExec, StoreExec, TypeOK, Uuids
  <2>5. Provisioned \subseteq Provisioned'
    BY <1>b DEF Grows, OwnerGrows, Provisioned, Uuids
  <2>6. \/ Provisioned' = Provisioned
        \/ uuid[r] \in Devices /\ Provisioned' = Provisioned \cup {uuid[r]}
    BY <2>4, <2>5 DEF Provisioned
  <2>7. ASSUME NEW d \in Devices, d = uuid[r], Provisioned' = Provisioned \cup {d}
        PROVE  Enrolment!Provision(d)
    BY <2>1, <2>2, <2>3, <2>7 DEF Enrolment!Provision, Recorded, Provisioned, Confirmed
  <2>8. CASE Provisioned' = Provisioned
    BY <1>0, <2>1, <2>2, <2>8
  <2>9. CASE uuid[r] \in Devices /\ Provisioned' = Provisioned \cup {uuid[r]}
    BY <2>7, <2>9 DEF Enrolment!Next
  <2> QED
    BY <2>6, <2>8, <2>9
<1>4. ASSUME NEW r \in Imports, PostSvi(r)
      PROVE  [Enrolment!Next]_(Enrolment!vars)
  <2>1. UNCHANGED <<held, Recorded, Provisioned>> /\ UNCHANGED uuid
    BY <1>4 DEF PostSvi, Recorded, Provisioned, db, locals
  <2>2. disk["orgid"][uuid[r]] # NoFile
    BY <1>4 DEF PostSvi, HandlersAgree, Agrees, After, AfterVoucher, AfterOrgid, AfterExec, Files
  <2>3. CASE Reply(r, "200")
    <3>1. answer[r] = "none"
      BY <1>4 DEF PostSvi, AnsweredDone, Requests
    <3>2. \A q \in Imports : answer'[q] = IF q = r THEN "200" ELSE answer[q]
      BY <2>3 DEF Reply, TypeOK, Requests
    <3>3. Confirmed' = Confirmed \cup {d \in Devices : d = uuid[r]}
      BY <2>1, <3>1, <3>2 DEF Confirmed
    <3>4. CASE uuid[r] \in Devices
      <4>1. ASSUME NEW d \in Devices, d = uuid[r]
            PROVE  Enrolment!Confirm(d)
        <5>1. Confirmed' = Confirmed \cup {d}
          BY <3>3, <4>1
        <5> QED
          BY <2>1, <2>2, <4>1, <5>1 DEF Enrolment!Confirm, Recorded, Provisioned, Confirmed
      <4> QED
        BY <3>4, <4>1 DEF Enrolment!Next
    <3>5. CASE uuid[r] \notin Devices
      <4>1. Confirmed' = Confirmed
        BY <3>3, <3>5
      <4> QED
        BY <1>0, <2>1, <4>1
    <3> QED
      BY <3>4, <3>5
  <2>4. CASE Reply(r, "400") \/ Reply(r, "500")
    BY <1>0, <1>4, <2>1, <2>4, ConfirmedKept DEF PostSvi, Requests
  <2> QED
    BY <1>4, <2>3, <2>4 DEF PostSvi
<1>5. ASSUME NEW r \in Requests,
             \/ Send(r) \/ Admit(r) \/ Refuse(r) \/ MkdirAll(r) \/ DiskFails(r) \/ ReadExec(r)
      PROVE  [Enrolment!Next]_(Enrolment!vars)
  <2>1. UNCHANGED <<held, Recorded, Provisioned>>
    BY <1>5 DEF Send, Admit, Refuse, MkdirAll, DiskFails, ReadExec, Recorded, Provisioned,
                owner, db
  <2>2. Confirmed' = Confirmed
    BY <1>5, ConfirmedKept DEF Send, Admit, Refuse, MkdirAll, DiskFails, ReadExec, locals,
                               OpenAt, WriteAt, Files
  <2> QED
    BY <1>0, <2>1, <2>2
<1>6. ASSUME NEW r \in Gets \cup Lists,
             \/ ReadVoucher(r) \/ CheckOrg(r) \/ AskOwner(r)
             \/ ReadDir(r) \/ Scan(r) \/ ScanFails(r) \/ SendList(r)
      PROVE  [Enrolment!Next]_(Enrolment!vars)
  <2>1. UNCHANGED <<held, Recorded, Provisioned>> /\ UNCHANGED uuid
    BY <1>6 DEF ReadVoucher, CheckOrg, AskOwner, ReadDir, Scan, ScanFails, SendList, Recorded,
                Provisioned, owner, db, locals
  <2>2. \A q \in Imports : answer'[q] = answer[q]
    BY <1>6, RequestsAssumption
       DEF ReadVoucher, CheckOrg, AskOwner, ReadDir, Scan, ScanFails, SendList, Goto, Reply,
           TypeOK, Requests
  <2> QED
    BY <1>0, <2>1, <2>2 DEF Confirmed
<1>7. CASE Crash
  <2>1. \A q \in Imports : (answer'[q] = "200") <=> (answer[q] = "200")
    BY <1>7 DEF Crash, Active, AnsweredDone, Requests
  <2>2. UNCHANGED <<held, Recorded, Provisioned>> /\ UNCHANGED uuid
    BY <1>7 DEF Crash, Recorded, Provisioned, owner, db, locals
  <2> QED
    BY <1>0, <2>1, <2>2 DEF Confirmed
<1>8. CASE CustomSvi \/ UNCHANGED vars
  BY <1>0, <1>8 DEF CustomSvi, vars, owner, db, locals, Recorded, Provisioned, Confirmed
<1> QED
  BY <1>1, <1>2, <1>3, <1>4, <1>5, <1>6, <1>7, <1>8, <1>b, NextCases DEF Requests

\* Concurrent, failing and interrupted imports of any number of devices implement the
\* enrolment of DeviceEnrolment.
THEOREM Implementation == Spec => ImplementsEnrolment
<1>1. Init => TypeOK /\ HandlersAgree /\ AnsweredDone
  BY InitType DEF Init, AnsweredDone
<1>2. TypeOK /\ HandlersAgree /\ AnsweredDone /\ [Next]_vars
        => (TypeOK /\ HandlersAgree /\ AnsweredDone)'
  BY NextType, NextAgrees, NextAnswered
<1>3. Init => Enrolment!Init
  <2>1. Init => Recorded = {} /\ Provisioned = {} /\ Confirmed = {}
    BY DEF Init, Recorded, Provisioned, Confirmed, Files, Uuids, Requests
  <2> QED
    BY <2>1 DEF Init, Enrolment!Init, Recorded, Provisioned, Confirmed
<1>4. TypeOK /\ HandlersAgree /\ AnsweredDone /\ [Next]_vars => [Enrolment!Next]_(Enrolment!vars)
  BY NextEnrols
<1> QED
  BY <1>1, <1>2, <1>3, <1>4, PTL DEF Spec, ImplementsEnrolment, Enrolment!Spec
=============================================================================
