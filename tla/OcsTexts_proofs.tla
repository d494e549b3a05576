--------------------------- MODULE OcsTexts_proofs ---------------------------
(***************************************************************************)
(* Proofs about OcsVouchers: whose texts are in the files, the resources   *)
(* and the handlers' variables, and what a get and a list can make of      *)
(* them, for every number of requests, devices and organisations.          *)
(***************************************************************************)
EXTENDS OcsVouchers_proofs

\* A text of u changed because import r truncated or wrote file f.
Rewrites(r, f, u) ==
    /\ uuid[r] = u
    /\ \/ Open(r, f) /\ disk'[f][u] = {}
       \/ Write(r, f) /\ disk'[f][u] = Overlay(f, r, disk[f][u])

LEMMA StepNames ==
    \A f \in Files : /\ {OpenAt[f], WriteAt[f]} \cup After[f] \subseteq ImportSteps \ {"register"}
                     /\ OpenAt[f] # "new" /\ WriteAt[f] # "new"
BY DEF Files, OpenAt, WriteAt, After, ImportSteps, AfterVoucher, AfterOrgid, AfterExec

\* Only the answer of the Owner Service gives an import its uuid, and nothing changes one.
LEMMA UuidStep ==
    ASSUME TypeOK, HandlersAgree, [Next]_vars
    PROVE  /\ UNCHANGED inputs
           /\ \A q \in Imports \cup Gets : uuid[q] \in Uuids => uuid'[q] = uuid[q]
           /\ \/ UNCHANGED uuid
              \/ UNCHANGED <<disk, resource, bytes, answer, touched, todo, found>>
<1>1. ASSUME NEW r \in Imports, RegisterAccepted(r) \/ RegisterRefused(r)
      PROVE  /\ UNCHANGED inputs
             /\ \A q \in Imports \cup Gets : uuid[q] \in Uuids => uuid'[q] = uuid[q]
             /\ UNCHANGED <<disk, resource, bytes, answer, touched, todo, found>>
  <2>1. pc[r] = "register" /\ uuid[r] \notin Uuids
    BY <1>1, UuidsAssumption DEF RegisterAccepted, RegisterRefused, HandlersAgree, Agrees
  <2>2. \A q \in Imports \cup Gets : q # r => uuid'[q] = uuid[q]
    BY <1>1 DEF RegisterAccepted, RegisterRefused, TypeOK
  <2> QED
    BY <1>1, <2>1, <2>2 DEF RegisterAccepted, RegisterRefused, Goto, owner, db, history
<1>2. ASSUME NEW r \in Requests,
             \/ Send(r) \/ Admit(r) \/ Refuse(r) \/ RegisterFails(r) \/ MkdirAll(r)
             \/ DiskFails(r) \/ ReadExec(r) \/ PostExec(r) \/ PostSvi(r)
             \/ ReadVoucher(r) \/ CheckOrg(r) \/ AskOwner(r)
             \/ ReadDir(r) \/ Scan(r) \/ ScanFails(r) \/ SendList(r)
      PROVE  UNCHANGED <<inputs, uuid>>
  BY <1>2 DEF Send, Admit, Refuse, RegisterFails, MkdirAll, DiskFails, ReadExec, PostExec,
              PostSvi, ReadVoucher, CheckOrg, AskOwner, ReadDir, Scan, ScanFails, SendList,
              locals
<1>3. ASSUME NEW r \in Imports, NEW f \in Files, Open(r, f) \/ Write(r, f)
      PROVE  UNCHANGED <<inputs, uuid>>
  BY <1>3 DEF Open, Write, locals
<1>4. ASSUME Crash \/ NewContainer \/ CustomSvi \/ UNCHANGED vars
      PROVE  UNCHANGED <<inputs, uuid>>
  BY <1>4 DEF Crash, NewContainer, CustomSvi, vars, locals
<1> QED
  BY <1>1, <1>2, <1>3, <1>4, NextCases DEF Requests

\* What a step does to a file of a uuid, and that the other requests are told.
LEMMA DiskStep ==
    ASSUME TypeOK, HandlersAgree, [Next]_vars, NEW f \in Files, NEW u \in Uuids
    PROVE  \/ disk'[f][u] = disk[f][u]
           \/ \E r \in Imports : Rewrites(r, f, u)
           \/ NewContainer /\ disk'[f][u] = NoFile
<1>1. ASSUME NEW r \in Imports, NEW g \in Files, Open(r, g) \/ Write(r, g)
      PROVE  disk'[f][u] = disk[f][u] \/ Rewrites(r, f, u)
  <2>1. CASE g = f /\ uuid[r] = u
    BY <1>1, <2>1 DEF Open, Write, TypeOK, Rewrites
  <2>2. CASE g # f \/ uuid[r] # u
    BY <1>1, <2>2 DEF Open, Write, TypeOK
  <2> QED
    BY <2>1, <2>2
<1>2. ASSUME NEW r \in Requests,
             \/ Send(r) \/ Admit(r) \/ Refuse(r)
             \/ RegisterAccepted(r) \/ RegisterRefused(r) \/ RegisterFails(r) \/ MkdirAll(r)
             \/ DiskFails(r) \/ ReadExec(r) \/ PostExec(r) \/ PostSvi(r)
             \/ ReadVoucher(r) \/ CheckOrg(r) \/ AskOwner(r)
             \/ ReadDir(r) \/ Scan(r) \/ ScanFails(r) \/ SendList(r)
      PROVE  UNCHANGED disk
  BY <1>2 DEF Send, Admit, Refuse, RegisterAccepted, RegisterRefused, RegisterFails, MkdirAll,
              DiskFails, ReadExec, PostExec, PostSvi, ReadVoucher, CheckOrg, AskOwner, ReadDir,
              Scan, ScanFails, SendList, db
<1>3. ASSUME Crash \/ CustomSvi \/ UNCHANGED vars
      PROVE  UNCHANGED disk
  BY <1>3 DEF Crash, CustomSvi, vars, db
<1>4. NewContainer => disk'[f][u] = NoFile
  BY DEF NewContainer
<1> QED
  BY <1>1, <1>2, <1>3, <1>4, NextCases DEF Requests

\* A resource changes only to the wrapper file an import of that uuid has read.
LEMMA ResourceStep ==
    ASSUME TypeOK, HandlersAgree, [Next]_vars, NEW u \in Uuids
    PROVE  \/ resource'[u] = resource[u]
           \/ \E r \in Imports : /\ pc[r] = "postExec" /\ StoreExec(r) /\ UNCHANGED uuid
                                /\ uuid[r] = u /\ resource'[u] = bytes[r]
<1>1. ASSUME NEW r \in Imports, PostExec(r)
      PROVE  \/ resource'[u] = resource[u]
             \/ /\ pc[r] = "postExec" /\ StoreExec(r) /\ UNCHANGED uuid
                /\ uuid[r] = u /\ resource'[u] = bytes[r]
  BY <1>1 DEF PostExec, StoreExec, TypeOK, locals
<1>2. ASSUME NEW r \in Requests,
             \/ Send(r) \/ Admit(r) \/ Refuse(r)
             \/ RegisterAccepted(r) \/ RegisterRefused(r) \/ RegisterFails(r) \/ MkdirAll(r)
             \/ DiskFails(r) \/ ReadExec(r) \/ PostSvi(r)
             \/ ReadVoucher(r) \/ CheckOrg(r) \/ AskOwner(r)
             \/ ReadDir(r) \/ Scan(r) \/ ScanFails(r) \/ SendList(r)
      PROVE  UNCHANGED resource
  BY <1>2 DEF Send, Admit, Refuse, RegisterAccepted, RegisterRefused, RegisterFails, MkdirAll,
              DiskFails, ReadExec, PostSvi, ReadVoucher, CheckOrg, AskOwner, ReadDir,
              Scan, ScanFails, SendList, owner
<1>3. ASSUME NEW r \in Imports, NEW f \in Files, Open(r, f) \/ Write(r, f)
      PROVE  UNCHANGED resource
  BY <1>3 DEF Open, Write, owner
<1>4. ASSUME Crash \/ NewContainer \/ CustomSvi \/ UNCHANGED vars
      PROVE  UNCHANGED resource
  BY <1>4 DEF Crash, NewContainer, CustomSvi, vars, owner
<1> QED
  BY <1>1, <1>2, <1>3, <1>4, NextCases DEF Requests

\* A handler reads only the file of its own uuid that exists.
LEMMA BytesStep ==
    ASSUME TypeOK, HandlersAgree, [Next]_vars, NEW r \in Imports \cup Gets
    PROVE  \/ bytes'[r] = bytes[r]
           \/ /\ UNCHANGED <<disk, uuid>>
              /\ uuid[r] \in Uuids
              /\ \/ r \in Gets /\ bytes'[r] = disk["voucher"][uuid[r]]
                    /\ disk["voucher"][uuid[r]] # NoFile
                 \/ r \in Imports /\ bytes'[r] = disk["exec"][uuid[r]]
                    /\ disk["exec"][uuid[r]] # NoFile
<1> DEFINE Kept == bytes'[r] = bytes[r]
           Read == /\ UNCHANGED <<disk, uuid>>
                   /\ uuid[r] \in Uuids
                   /\ \/ r \in Gets /\ bytes'[r] = disk["voucher"][uuid[r]]
                         /\ disk["voucher"][uuid[r]] # NoFile
                      \/ r \in Imports /\ bytes'[r] = disk["exec"][uuid[r]]
                         /\ disk["exec"][uuid[r]] # NoFile
<1>1. ASSUME NEW q \in Imports, ReadExec(q)
      PROVE  Kept \/ Read
  <2>1. CASE q = r /\ ~Kept
    <3>1. pc[r] \in ImportSteps \ {"register"}
      BY <1>1, <2>1 DEF ReadExec, ImportSteps, AfterVoucher, AfterOrgid, AfterExec
    <3>2. uuid[r] \in Uuids
      BY <2>1, <3>1 DEF HandlersAgree, Agrees
    <3> QED
      BY <1>1, <2>1, <3>2 DEF ReadExec, TypeOK, db
  <2>2. CASE q # r
    BY <1>1, <2>2 DEF ReadExec, TypeOK
  <2> QED
    BY <2>1, <2>2
<1>2. ASSUME NEW q \in Gets, ReadVoucher(q)
      PROVE  Kept \/ Read
  BY <1>2 DEF ReadVoucher, TypeOK, HandlersAgree, db
<1>3. ASSUME NEW q \in Requests,
             \/ Send(q) \/ Admit(q) \/ Refuse(q)
             \/ RegisterAccepted(q) \/ RegisterRefused(q) \/ RegisterFails(q) \/ MkdirAll(q)
             \/ DiskFails(q) \/ PostExec(q) \/ PostSvi(q)
             \/ CheckOrg(q) \/ AskOwner(q)
             \/ ReadDir(q) \/ Scan(q) \/ ScanFails(q) \/ SendList(q)
      PROVE  Kept
  BY <1>3 DEF Send, Admit, Refuse, RegisterAccepted, RegisterRefused, RegisterFails, MkdirAll,
              DiskFails, PostExec, PostSvi, CheckOrg, AskOwner, ReadDir,
              Scan, ScanFails, SendList, locals
<1>4. ASSUME NEW q \in Imports, NEW f \in Files, Open(q, f) \/ Write(q, f)
      PROVE  Kept
  BY <1>4 DEF Open, Write, locals
<1>5. ASSUME Crash \/ NewContainer \/ CustomSvi \/ UNCHANGED vars
      PROVE  Kept
  BY <1>5 DEF Crash, NewContainer, CustomSvi, vars, locals
<1> QED
  BY <1>1, <1>2, <1>3, <1>4, <1>5, NextCases DEF Requests

----------------------------------------------------------------------------
\* Before the Owner Service has answered, an import has read nothing.
Unread == \A r \in Imports : uuid[r] = None => bytes[r] = {}

LEMMA NextStays ==
    TypeOK /\ HandlersAgree /\ Unread /\ BytesStayWithTheirDevice /\ [Next]_vars
      => (Unread /\ BytesStayWithTheirDevice)'
<1> SUFFICES ASSUME TypeOK, HandlersAgree, Unread, BytesStayWithTheirDevice, [Next]_vars
             PROVE  (Unread /\ BytesStayWithTheirDevice)'
  OBVIOUS
<1>0. \A q \in Imports \cup Gets : uuid[q] \in Uuids => uuid'[q] = uuid[q]
  BY UuidStep
<1>1. ASSUME NEW u \in Uuids, NEW f \in Files, NEW q \in Imports, q \in disk'[f][u]
      PROVE  uuid'[q] = u
  <2>1. CASE disk'[f][u] = disk[f][u]
    BY <1>0, <1>1, <2>1 DEF BytesStayWithTheirDevice
  <2>2. ASSUME NEW r \in Imports, Rewrites(r, f, u)
        PROVE  uuid'[q] = u
    <3>1. q = r \/ q \in disk[f][u]
      BY <1>1, <2>2 DEF Rewrites, Overlay
    <3> QED
      BY <1>0, <2>2, <3>1 DEF Rewrites, BytesStayWithTheirDevice
  <2> QED
    BY <1>1, <2>1, <2>2, DiskStep, NoneAssumption DEF NoFile
<1>2. ASSUME NEW u \in Uuids, NEW q \in Imports, q \in resource'[u]
      PROVE  uuid'[q] = u
  BY <1>0, <1>2, ResourceStep DEF BytesStayWithTheirDevice
<1>3. ASSUME NEW r \in Imports \cup Gets, NEW q \in bytes'[r]
      PROVE  uuid'[q] = uuid'[r] /\ uuid'[r] \in Uuids
  <2>0. q \in Imports
    BY <1>3, NextType DEF TypeOK
  <2>1. CASE bytes'[r] = bytes[r]
    <3>1. uuid[r] \in Uuids
      BY <1>3, <2>1 DEF Unread, TypeOK, HandlersAgree
    <3> QED
      BY <1>0, <1>3, <2>0, <2>1, <3>1 DEF BytesStayWithTheirDevice
  <2>2. CASE \E f \in Files : /\ UNCHANGED uuid /\ uuid[r] \in Uuids
                              /\ bytes'[r] = disk[f][uuid[r]]
    BY <1>3, <2>0, <2>2 DEF BytesStayWithTheirDevice
  <2> QED
    BY <2>1, <2>2, BytesStep DEF Files
<1>4. Unread'
  BY <1>3, NextType, UuidsAssumption DEF Unread, TypeOK
<1> QED
  BY <1>1, <1>2, <1>3, <1>4, NextType DEF BytesStayWithTheirDevice, TypeOK

LEMMA InitStays == Init => Unread /\ BytesStayWithTheirDevice
BY NoneAssumption DEF Init, Unread, BytesStayWithTheirDevice, NoFile

\* No step ever brings a token, an organisation or a voucher to another device.
THEOREM TextsStay == Spec => []BytesStayWithTheirDevice
<1>1. Init => TypeOK /\ HandlersAgree /\ Unread /\ BytesStayWithTheirDevice
  BY InitType, InitStays
<1>2. TypeOK /\ HandlersAgree /\ Unread /\ BytesStayWithTheirDevice /\ [Next]_vars
        => (TypeOK /\ HandlersAgree /\ Unread /\ BytesStayWithTheirDevice)'
  BY NextType, NextAgrees, NextStays
<1> QED
  BY <1>1, <1>2, PTL DEF Spec

----------------------------------------------------------------------------
LEMMA SizesAreNats == TypeOK => \A f \in Files, r \in Imports : Size(f, r) \in Nat
BY SizesAssumption DEF TypeOK, Size, Requests

\* Nothing mixes texts of equal length, also in the hands of an import.
Unequal(f, text) == \A q, r \in Imports : q # r /\ {q, r} \subseteq text => Size(f, q) # Size(f, r)

ExecsUnequal ==
    /\ \A u \in Uuids : Unequal("exec", resource[u])
    /\ \A r \in Imports : Unequal("exec", bytes[r])
FilesUnequal == \A f \in Files, u \in Uuids : Unequal(f, disk[f][u])

LEMMA OverlayUnequal ==
    ASSUME TypeOK, NEW f \in Files, NEW r \in Imports, NEW text, Unequal(f, text)
    PROVE  Unequal(f, Overlay(f, r, text))
<1> SUFFICES ASSUME NEW p \in Imports, NEW q \in Imports, p # q,
                    {p, q} \subseteq Overlay(f, r, text)
             PROVE  Size(f, p) # Size(f, q)
  BY DEF Unequal
<1>1. /\ p = r \/ (p \in text /\ Size(f, p) > Size(f, r))
      /\ q = r \/ (q \in text /\ Size(f, q) > Size(f, r))
  BY DEF Overlay
<1>2. Size(f, p) \in Nat /\ Size(f, q) \in Nat /\ Size(f, r) \in Nat
  BY SizesAreNats
<1>3. p \in text /\ q \in text => Size(f, p) # Size(f, q)
  BY DEF Unequal
<1> QED
  BY <1>1, <1>2, <1>3

LEMMA NextUnequal ==
    TypeOK /\ HandlersAgree /\ FilesUnequal /\ ExecsUnequal /\ [Next]_vars
      => (FilesUnequal /\ ExecsUnequal)'
<1> SUFFICES ASSUME TypeOK, HandlersAgree, FilesUnequal, ExecsUnequal, [Next]_vars
             PROVE  (FilesUnequal /\ ExecsUnequal)'
  OBVIOUS
<1>1. \A f \in Files, r \in Imports : Size(f, r)' = Size(f, r)
  BY UuidStep DEF inputs, Size
<1>2. \A f \in Files : \A text : Unequal(f, text) => \A q, r \in Imports :
         q # r /\ {q, r} \subseteq text => Size(f, q)' # Size(f, r)'
  BY <1>1 DEF Unequal
<1>3. ASSUME NEW f \in Files, NEW u \in Uuids
      PROVE  Unequal(f, disk'[f][u])
  <2>1. ASSUME NEW r \in Imports, Rewrites(r, f, u)
        PROVE  Unequal(f, disk'[f][u])
    <3>1. Unequal(f, {}) /\ Unequal(f, disk[f][u])
      BY DEF Unequal, FilesUnequal
    <3> QED
      BY <2>1, <3>1, OverlayUnequal DEF Rewrites
  <2>2. Unequal(f, NoFile)
    BY NoneAssumption DEF Unequal, NoFile
  <2> QED
    BY <2>1, <2>2, DiskStep DEF FilesUnequal
<1>4. ASSUME NEW u \in Uuids
      PROVE  Unequal("exec", resource'[u])
  BY ResourceStep DEF ExecsUnequal
<1>5. ASSUME NEW r \in Imports
      PROVE  Unequal("exec", bytes'[r])
  <2>1. r \notin Gets
    BY RequestsAssumption
  <2> QED
    BY <2>1, BytesStep DEF ExecsUnequal, FilesUnequal, Files
<1>6. FilesUnequal'
  BY <1>2, <1>3 DEF FilesUnequal, Unequal
<1>7. ExecsUnequal'
  BY <1>2, <1>4, <1>5 DEF ExecsUnequal, Unequal, Files
<1> QED
  BY <1>6, <1>7

LEMMA UnequalMixes == FilesUnequal /\ ExecsUnequal => MixedOnlyAcrossSizes
<1> SUFFICES ASSUME FilesUnequal, ExecsUnequal, NEW u \in Uuids,
                    NEW q \in Imports, NEW r \in Imports, q # r
             PROVE  /\ \A f \in Files : {q, r} \subseteq disk[f][u] => Size(f, q) # Size(f, r)
                    /\ {q, r} \subseteq resource[u] => org[q] # org[r]
  BY DEF MixedOnlyAcrossSizes
<1>1. {q, r} \subseteq resource[u] => Size("exec", q) # Size("exec", r)
  BY DEF ExecsUnequal, Unequal
<1> QED
  BY <1>1 DEF FilesUnequal, Unequal, Size

\* However many imports of a device overlap, only texts of different length are mixed, and
\* the exec file a device is given only mixes organisations.
THEOREM MixturesAreAcrossSizes == Spec => []MixedOnlyAcrossSizes
<1>1. Init => TypeOK /\ HandlersAgree /\ FilesUnequal /\ ExecsUnequal
  BY InitType, NoneAssumption DEF Init, FilesUnequal, ExecsUnequal, Unequal, NoFile
<1>2. TypeOK /\ HandlersAgree /\ FilesUnequal /\ ExecsUnequal /\ [Next]_vars
        => (TypeOK /\ HandlersAgree /\ FilesUnequal /\ ExecsUnequal)'
  BY NextType, NextAgrees, NextUnequal
<1> QED
  BY <1>1, <1>2, UnequalMixes, PTL DEF Spec

----------------------------------------------------------------------------
LEMMA HandleMoves ==
    ASSUME NEW r \in Requests, Send(r) \/ Handle(r)
    PROVE  pc[r] # "done" /\ ((\E s : Goto(r, s)) \/ (\E c : Reply(r, c)))
<1>1. ASSUME Send(r) \/ Admit(r) \/ Refuse(r)
      PROVE  pc[r] # "done" /\ ((\E s : Goto(r, s)) \/ (\E c : Reply(r, c)))
  BY <1>1 DEF Send, Admit, Refuse
<1>2. ASSUME Import(r)
      PROVE  pc[r] # "done" /\ ((\E s : Goto(r, s)) \/ (\E c : Reply(r, c)))
  <2>1. ASSUME NEW f \in Files, Open(r, f) \/ Write(r, f)
        PROVE  pc[r] # "done" /\ \E s : Goto(r, s)
    BY <2>1 DEF Open, Write, OpenAt, WriteAt, Files
  <2>2. CASE DiskFails(r)
    BY <2>2 DEF DiskFails, OpenAt, WriteAt, Files
  <2>3. CASE \/ RegisterAccepted(r) \/ RegisterRefused(r) \/ RegisterFails(r) \/ MkdirAll(r)
             \/ ReadExec(r) \/ PostExec(r) \/ PostSvi(r)
    BY <2>3 DEF RegisterAccepted, RegisterRefused, RegisterFails, MkdirAll, ReadExec, PostExec,
                PostSvi
  <2> QED
    BY <1>2, <2>1, <2>2, <2>3 DEF Import
<1>3. ASSUME Get(r) \/ List(r)
      PROVE  pc[r] # "done" /\ ((\E s : Goto(r, s)) \/ (\E c : Reply(r, c)))
  BY <1>3 DEF Get, List, ReadVoucher, AskOwner, CheckOrg, ReadDir, Scan, ScanFails, SendList
<1> QED
  BY <1>1, <1>2, <1>3 DEF Handle

\* A handler moves by a step of its own, or the process dies.
LEMMA OwnStep ==
    ASSUME TypeOK, [Next]_vars, NEW q \in Requests
    PROVE  \/ pc'[q] = pc[q] /\ answer'[q] = answer[q]
           \/ pc[q] \notin {"new", "done"} /\ pc'[q] = "done" /\ answer'[q] = "lost"
              /\ UNCHANGED <<owner, db, inputs, locals, history>>
           \/ Send(q)
           \/ Handle(q)
<1>1. ASSUME NEW r \in Requests, r # q, Send(r) \/ Handle(r)
      PROVE  pc'[q] = pc[q] /\ answer'[q] = answer[q]
  BY <1>1, HandleMoves DEF Goto, Reply, TypeOK
<1>2. CASE Crash
  BY <1>2 DEF Crash, Active
<1>3. CASE NewContainer \/ CustomSvi \/ UNCHANGED vars
  BY <1>3 DEF NewContainer, CustomSvi, vars
<1> QED
  BY <1>1, <1>2, <1>3 DEF Next, Idle

\* An empty file has an import in the middle of it, or one that ended there.
LEMMA NextEmpty ==
    TypeOK /\ HandlersAgree /\ AnsweredDone /\ EmptyFileHasAWriter /\ [Next]_vars
      => EmptyFileHasAWriter'
<1> SUFFICES ASSUME TypeOK, HandlersAgree, AnsweredDone, EmptyFileHasAWriter, [Next]_vars,
                    NEW f \in Files, NEW u \in Uuids, disk'[f][u] = {}
             PROVE  \E r \in Imports : /\ uuid'[r] = u
                                       /\ pc'[r] = WriteAt[f] \/ answer'[r] \in {"500", "lost"}
  BY DEF EmptyFileHasAWriter
<1>1. ASSUME NEW r \in Imports, Rewrites(r, f, u)
      PROVE  uuid'[r] = u /\ pc'[r] = WriteAt[f]
  <2>1. Open(r, f)
    BY <1>1 DEF Rewrites, Overlay
  <2> QED
    BY <1>1, <2>1 DEF Rewrites, Open, Goto, TypeOK, Requests, locals
<1>2. ASSUME disk'[f][u] = disk[f][u],
             NEW r \in Imports, uuid[r] = u, pc[r] = WriteAt[f] \/ answer[r] \in {"500", "lost"}
      PROVE  uuid'[r] = u /\ (pc'[r] = WriteAt[f] \/ answer'[r] \in {"500", "lost"})
  <2>1. uuid'[r] = u
    BY <1>2, UuidStep
  <2>2. r \in Requests /\ (pc[r] = WriteAt[f] \/ pc[r] = "done")
    BY <1>2 DEF AnsweredDone, Requests
  <2>3. CASE Send(r) \/ Handle(r)
    <3>1. pc[r] = WriteAt[f]
      BY <2>2, <2>3, HandleMoves
    <3>2. (\E g \in Files : Write(r, g) /\ pc[r] = WriteAt[g]) \/ DiskFails(r)
      <4>1. pc[r] \in {"writeVoucher", "writeOrgid", "writeExec"}
        BY <3>1 DEF WriteAt, Files
      <4>2. Import(r)
        BY <2>3, <4>1, RequestsAssumption DEF Send, Handle, Admit, Refuse
      <4>3. ~(RegisterAccepted(r) \/ RegisterRefused(r) \/ RegisterFails(r) \/ MkdirAll(r)
              \/ ReadExec(r) \/ PostExec(r) \/ PostSvi(r))
        BY <4>1 DEF RegisterAccepted, RegisterRefused, RegisterFails, MkdirAll, ReadExec,
                    PostExec, PostSvi
      <4>4. \A g \in Files : ~Open(r, g)
        BY <4>1 DEF Open, OpenAt, Files
      <4>5. \A g \in Files : Write(r, g) => pc[r] = WriteAt[g]
        BY DEF Write
      <4> QED
        BY <4>2, <4>3, <4>4, <4>5 DEF Import
    <3>3. CASE DiskFails(r)
      BY <2>1, <2>2, <3>3 DEF DiskFails, Reply, TypeOK
    <3>4. ASSUME NEW g \in Files, Write(r, g), pc[r] = WriteAt[g]
          PROVE  FALSE
      <4>1. g = f
        BY <3>1, <3>4 DEF WriteAt, Files
      <4>2. r \in disk'[f][u]
        BY <1>2, <3>4, <4>1 DEF Write, Overlay, TypeOK
      <4> QED
        BY <4>2
    <3> QED
      BY <3>2, <3>3, <3>4
  <2> QED
    BY <1>2, <2>1, <2>2, <2>3, OwnStep
<1> QED
  BY <1>1, <1>2, DiskStep DEF EmptyFileHasAWriter, NoFile

\* Once all imports of a device ended with success, none of its files is empty.
THEOREM EmptyFilesHaveWriters == Spec => []EmptyFileHasAWriter
<1>1. Init => TypeOK /\ HandlersAgree /\ AnsweredDone /\ EmptyFileHasAWriter
  BY InitType DEF Init, AnsweredDone, EmptyFileHasAWriter, NoFile
<1>2. TypeOK /\ HandlersAgree /\ AnsweredDone /\ EmptyFileHasAWriter /\ [Next]_vars
        => (TypeOK /\ HandlersAgree /\ AnsweredDone /\ EmptyFileHasAWriter)'
  BY NextType, NextAgrees, NextAnswered, NextEmpty
<1> QED
  BY <1>1, <1>2, PTL DEF Spec

----------------------------------------------------------------------------
\* Whoever has arrived is told of every change to a file by another request.
LEMMA TouchStep ==
    ASSUME TypeOK, HandlersAgree, [Next]_vars, NEW q \in Requests
    PROVE  /\ touched[q] \subseteq touched'[q]
           /\ \A f \in Files, u \in Uuids, r \in Imports :
                 Rewrites(r, f, u) /\ q # r /\ pc[q] # "new" => u \in touched'[q]
<1>1. \A r \in Requests : \A u : Touch(r, u) => touched[q] \subseteq touched'[q]
  BY DEF Touch
<1>2. ASSUME NEW r \in Imports, NEW f \in Files, Open(r, f) \/ Write(r, f)
      PROVE  touched[q] \subseteq touched'[q]
  BY <1>1, <1>2 DEF Open, Write, Requests
<1>3. ASSUME NEW r \in Imports, PostExec(r)
      PROVE  touched[q] \subseteq touched'[q]
  BY <1>1, <1>3 DEF PostExec, StoreExec, Requests, history
<1>4. ASSUME NEW r \in Requests,
             \/ Send(r) \/ Admit(r) \/ Refuse(r)
             \/ RegisterAccepted(r) \/ RegisterRefused(r) \/ RegisterFails(r) \/ MkdirAll(r)
             \/ DiskFails(r) \/ ReadExec(r) \/ PostSvi(r)
             \/ ReadVoucher(r) \/ CheckOrg(r) \/ AskOwner(r)
             \/ ReadDir(r) \/ Scan(r) \/ ScanFails(r) \/ SendList(r)
      PROVE  UNCHANGED touched
  BY <1>4 DEF Send, Admit, Refuse, RegisterAccepted, RegisterRefused, RegisterFails, MkdirAll,
              DiskFails, ReadExec, PostSvi, ReadVoucher, CheckOrg, AskOwner, ReadDir,
              Scan, ScanFails, SendList, history
<1>5. ASSUME Crash \/ NewContainer \/ CustomSvi \/ UNCHANGED vars
      PROVE  UNCHANGED touched
  BY <1>5 DEF Crash, NewContainer, CustomSvi, vars, history
<1>6. touched[q] \subseteq touched'[q]
  BY <1>2, <1>3, <1>4, <1>5, NextCases DEF Requests
<1>7. ASSUME NEW f \in Files, NEW u \in Uuids, NEW r \in Imports,
             Rewrites(r, f, u), q # r, pc[q] # "new"
      PROVE  u \in touched'[q]
  BY <1>7 DEF Rewrites, Open, Write, Touch
<1> QED
  BY <1>6, <1>7

\* Only an import of a device disturbs the other requests for it.
LEMMA TouchedBy ==
    ASSUME TypeOK, [Next]_vars, NEW q \in Requests, NEW u \in touched'[q] \ touched[q]
    PROVE  \E r \in Imports : r # q /\ uuid[r] = u
<1>1. ASSUME NEW r \in Imports, Touch(r, uuid[r])
      PROVE  r # q /\ uuid[r] = u
  BY <1>1 DEF Touch
<1>2. ASSUME NEW r \in Requests,
             \/ Send(r) \/ Admit(r) \/ Refuse(r)
             \/ RegisterAccepted(r) \/ RegisterRefused(r) \/ RegisterFails(r) \/ MkdirAll(r)
             \/ DiskFails(r) \/ ReadExec(r) \/ PostSvi(r)
             \/ ReadVoucher(r) \/ CheckOrg(r) \/ AskOwner(r)
             \/ ReadDir(r) \/ Scan(r) \/ ScanFails(r) \/ SendList(r)
      PROVE  UNCHANGED touched
  BY <1>2 DEF Send, Admit, Refuse, RegisterAccepted, RegisterRefused, RegisterFails, MkdirAll,
              DiskFails, ReadExec, PostSvi, ReadVoucher, CheckOrg, AskOwner, ReadDir,
              Scan, ScanFails, SendList, history
<1>3. ASSUME NEW r \in Imports, PostExec(r) \/ \E f \in Files : Open(r, f) \/ Write(r, f)
      PROVE  Touch(r, uuid[r]) \/ UNCHANGED touched
  BY <1>3 DEF PostExec, StoreExec, Open, Write, history
<1>4. ASSUME Crash \/ NewContainer \/ CustomSvi \/ UNCHANGED vars
      PROVE  UNCHANGED touched
  BY <1>4 DEF Crash, NewContainer, CustomSvi, vars, history
<1> QED
  BY <1>1, <1>2, <1>3, <1>4, NextCases DEF Requests

\* A file a reader has not been told of is as it was.
LEMMA UntouchedFile ==
    ASSUME TypeOK, HandlersAgree, [Next]_vars, NEW q \in Gets \cup Lists, Active(q),
           NEW f \in Files, NEW u \in Uuids, u \notin touched'[q]
    PROVE  disk'[f][u] = disk[f][u]
<1>1. q \in Requests /\ q \notin Imports /\ pc[q] # "new"
  BY RequestsAssumption DEF Requests, Active
<1>2. ~NewContainer
  BY <1>1 DEF NewContainer
<1> QED
  BY <1>1, <1>2, DiskStep, TouchStep

\* Only a new container forgets imports, and nothing takes an import out of the history.
LEMMA ForgetStep ==
    ASSUME TypeOK, [Next]_vars
    PROVE  stored \subseteq stored' /\ (UNCHANGED forgotten \/ NewContainer)
<1>1. ASSUME NEW r \in Requests,
             \/ Send(r) \/ Admit(r) \/ Refuse(r)
             \/ RegisterAccepted(r) \/ RegisterRefused(r) \/ RegisterFails(r) \/ MkdirAll(r)
             \/ DiskFails(r) \/ ReadExec(r) \/ PostSvi(r)
             \/ ReadVoucher(r) \/ CheckOrg(r) \/ AskOwner(r)
             \/ ReadDir(r) \/ Scan(r) \/ ScanFails(r) \/ SendList(r)
      PROVE  UNCHANGED <<stored, forgotten>>
  BY <1>1 DEF Send, Admit, Refuse, RegisterAccepted, RegisterRefused, RegisterFails, MkdirAll,
              DiskFails, ReadExec, PostSvi, ReadVoucher, CheckOrg, AskOwner, ReadDir,
              Scan, ScanFails, SendList, history
<1>2. ASSUME NEW r \in Imports, PostExec(r) \/ \E f \in Files : Open(r, f) \/ Write(r, f)
      PROVE  stored \subseteq stored' /\ UNCHANGED forgotten
  BY <1>2 DEF PostExec, StoreExec, Open, Write, history
<1>3. ASSUME Crash \/ CustomSvi \/ UNCHANGED vars
      PROVE  UNCHANGED <<stored, forgotten>>
  BY <1>3 DEF Crash, CustomSvi, vars, history
<1>4. NewContainer => stored \subseteq stored'
  BY DEF NewContainer
<1> QED
  BY <1>1, <1>2, <1>3, <1>4, NextCases DEF Requests

\* A get that does not read has what it had.
LEMMA GetKeepsBytes ==
    ASSUME TypeOK, [Next]_vars, NEW r \in Gets, ~ReadVoucher(r)
    PROVE  bytes'[r] = bytes[r]
<1>1. ASSUME NEW q \in Imports \cup Gets, q # r, ReadExec(q) \/ ReadVoucher(q)
      PROVE  bytes'[r] = bytes[r]
  BY <1>1 DEF ReadExec, ReadVoucher, TypeOK
<1>2. ASSUME NEW q \in Requests,
             \/ Send(q) \/ Admit(q) \/ Refuse(q)
             \/ RegisterAccepted(q) \/ RegisterRefused(q) \/ RegisterFails(q) \/ MkdirAll(q)
             \/ DiskFails(q) \/ PostExec(q) \/ PostSvi(q)
             \/ \E f \in Files : Open(q, f) \/ Write(q, f)
             \/ CheckOrg(q) \/ AskOwner(q)
             \/ ReadDir(q) \/ Scan(q) \/ ScanFails(q) \/ SendList(q)
      PROVE  UNCHANGED bytes
  BY <1>2 DEF Send, Admit, Refuse, RegisterAccepted, RegisterRefused, RegisterFails, MkdirAll,
              DiskFails, PostExec, PostSvi, Open, Write, CheckOrg, AskOwner, ReadDir, Scan,
              ScanFails, SendList, locals
<1>3. ASSUME Crash \/ NewContainer \/ CustomSvi \/ UNCHANGED vars
      PROVE  UNCHANGED bytes
  BY <1>3 DEF Crash, NewContainer, CustomSvi, vars, locals
<1> QED
  BY <1>1, <1>2, <1>3, NextCases, RequestsAssumption DEF Requests

\* What a reader does in its own step.
LEMMA GetStep ==
    ASSUME NEW r \in Gets, Send(r) \/ Handle(r)
    PROVE  Send(r) \/ Admit(r) \/ Refuse(r) \/ ReadVoucher(r) \/ AskOwner(r) \/ CheckOrg(r)
BY RequestsAssumption DEF Handle, Get

LEMMA ListStep ==
    ASSUME NEW r \in Lists, Send(r) \/ Handle(r)
    PROVE  \/ Send(r) \/ Admit(r) \/ Refuse(r) \/ AskOwner(r)
           \/ ReadDir(r) \/ Scan(r) \/ ScanFails(r) \/ SendList(r)
BY RequestsAssumption DEF Handle, List

\* An import comes to have recorded the organisation only by its write of orgid.txt.
LEMMA RecordStep ==
    ASSUME TypeOK, [Next]_vars, NEW p \in Imports,
           pc'[p] \in After["orgid"] \/ Answered200(p)'
    PROVE  pc[p] \in After["orgid"] \/ Answered200(p) \/ Write(p, "orgid")
<1> USE DEF After, AfterOrgid, AfterExec, Answered200
<1>0. p \in Requests
  BY DEF Requests
<1>1. \A s : /\ Goto(p, s) => pc'[p] = s /\ answer'[p] = answer[p]
             /\ Reply(p, s) => pc'[p] = "done" /\ answer'[p] = s
  BY <1>0 DEF Goto, Reply, TypeOK
<1>2. ASSUME Send(p) \/ Admit(p) \/ Refuse(p)
      PROVE  Answered200(p)
  BY <1>1, <1>2 DEF Send, Admit, Refuse
<1>3. ASSUME Import(p), ~Write(p, "orgid")
      PROVE  pc[p] \in After["orgid"] \/ Answered200(p)
  <2>1. ASSUME NEW f \in Files, Open(p, f) \/ Write(p, f)
        PROVE  pc[p] \in After["orgid"] \/ Answered200(p)
    BY <1>1, <1>3, <2>1 DEF Open, Write, OpenAt, WriteAt, NextAt, Files
  <2>2. CASE \/ RegisterAccepted(p) \/ RegisterRefused(p) \/ RegisterFails(p) \/ MkdirAll(p)
             \/ DiskFails(p)
    BY <1>1, <2>2 DEF RegisterAccepted, RegisterRefused, RegisterFails, MkdirAll, DiskFails
  <2>3. CASE ReadExec(p) \/ PostExec(p) \/ PostSvi(p)
    BY <2>3 DEF ReadExec, PostExec, PostSvi
  <2> QED
    BY <1>3, <2>1, <2>2, <2>3 DEF Import
<1>4. Handle(p) => Admit(p) \/ Refuse(p) \/ Import(p)
  BY RequestsAssumption DEF Handle
<1> QED
  BY <1>0, <1>2, <1>3, <1>4, OwnStep

\* What an undisturbed import has recorded is in the files, unless a new container took it.
Arrived(p) == pc[p] \in After["orgid"] \/ Answered200(p)

LEMMA ArrivedLands ==
    ASSUME HistoryAgrees, AllLand, NEW p \in Imports, Arrived(p), Solo(p), uuid[p] \in Uuids
    PROVE  /\ p \in forgotten => \A f \in Files : disk[f][uuid[p]] = NoFile
           /\ p \notin forgotten => /\ disk["voucher"][uuid[p]] = {p}
                                    /\ disk["orgid"][uuid[p]] = {p}
BY DEF AllLand, Landing, Lands, Arrived, After, AfterVoucher, AfterOrgid, Files

\* What makes GetReturnsTheImport inductive: the get has already read that voucher, from an
\* OCS DB that is still there.
GetMatches(r, p) ==
    uuid[p] = uuid[r] /\ Solo(p) /\ Solo(r) /\ Arrived(p) =>
        /\ pc[r] \in {"askOwner", "checkOrg"} => bytes[r] = {p} /\ p \notin forgotten
        /\ Answered200(r) => bytes[r] = {p} /\ org[p] = org[r]
        /\ answer[r] = "403" => org[p] # org[r]

GetsMatch == \A r \in Gets, p \in Imports : GetMatches(r, p)

LEMMA NextMatch ==
    TypeOK /\ HandlersAgree /\ HistoryAgrees /\ AnsweredDone /\ AllLand /\ GetsMatch
    /\ [Next]_vars => GetsMatch'
<1> SUFFICES ASSUME TypeOK, HandlersAgree, HistoryAgrees, AnsweredDone, AllLand, GetsMatch,
                    [Next]_vars, NEW r \in Gets, NEW p \in Imports,
                    uuid'[p] = uuid'[r], Solo(p)', Solo(r)', Arrived(p)'
             PROVE  /\ pc'[r] \in {"askOwner", "checkOrg"} =>
                          bytes'[r] = {p} /\ p \notin forgotten'
                    /\ Answered200(r)' => bytes'[r] = {p} /\ org'[p] = org'[r]
                    /\ answer'[r] = "403" => org'[p] # org'[r]
  BY DEF GetsMatch, GetMatches
<1>1. /\ r \in Requests /\ p \in Requests /\ p # r /\ r \notin Imports
      /\ uuid[r] \in Uuids /\ uuid'[r] = uuid[r] /\ org' = org
  BY UuidStep, RequestsAssumption DEF HandlersAgree, Requests, inputs
<1>2. /\ touched[r] \subseteq touched'[r] /\ touched[p] \subseteq touched'[p]
  BY <1>1, TouchStep
<1>3. ASSUME Write(p, "orgid")
      PROVE  pc'[r] = "new" /\ answer'[r] = "none"
  <2>1. uuid' = uuid /\ uuid[p] = uuid[r]
    BY <1>1, <1>3 DEF Write, locals
  <2>2. pc[r] = "new"
    BY <1>1, <1>3, <2>1 DEF Write, Touch, Solo
  <2>3. answer[r] = "none"
    BY <1>1, <2>2 DEF AnsweredDone
  <2> QED
    BY <1>1, <1>3, <2>2, <2>3 DEF Write, Goto, TypeOK
<1>4. SUFFICES ASSUME Arrived(p), ~Write(p, "orgid") PROVE
                    /\ pc'[r] \in {"askOwner", "checkOrg"} =>
                          bytes'[r] = {p} /\ p \notin forgotten'
                    /\ Answered200(r)' => bytes'[r] = {p} /\ org'[p] = org'[r]
                    /\ answer'[r] = "403" => org'[p] # org'[r]
  BY <1>3, RecordStep DEF Arrived, Answered200
<1>5. uuid[p] \in Uuids /\ uuid[p] = uuid[r] /\ Solo(p) /\ Solo(r)
  <2>1. uuid[p] \in Uuids
    BY <1>4 DEF Arrived, AllLand, Landing, HandlersAgree, Agrees, After, AfterOrgid, AfterExec,
                ImportSteps, AfterVoucher
  <2>2. uuid'[p] = uuid[p]
    BY <2>1, UuidStep
  <2> QED
    BY <1>1, <1>2, <2>1, <2>2 DEF Solo
<1>6. /\ pc[r] \in {"askOwner", "checkOrg"} => bytes[r] = {p} /\ p \notin forgotten
      /\ Answered200(r) => bytes[r] = {p} /\ org[p] = org[r]
      /\ answer[r] = "403" => org[p] # org[r]
  BY <1>4, <1>5 DEF GetsMatch, GetMatches
<1>7. /\ p \in forgotten => \A f \in Files : disk[f][uuid[r]] = NoFile
      /\ p \notin forgotten => /\ disk["voucher"][uuid[r]] = {p}
                               /\ disk["orgid"][uuid[r]] = {p}
  BY <1>4, <1>5, ArrivedLands
<1>8. \A s : /\ Goto(r, s) => pc'[r] = s /\ answer'[r] = answer[r]
             /\ Reply(r, s) => pc'[r] = "done" /\ answer'[r] = s
  BY <1>1 DEF Goto, Reply, TypeOK
<1>9. CASE ReadVoucher(r)
  <2>1. answer[r] = "none" /\ UNCHANGED forgotten
    BY <1>1, <1>9 DEF ReadVoucher, AnsweredDone, history
  <2>2. CASE Goto(r, "askOwner") /\ disk["voucher"][uuid[r]] # NoFile
                                 /\ bytes' = [bytes EXCEPT ![r] = disk["voucher"][uuid[r]]]
    BY <1>1, <1>7, <1>8, <2>1, <2>2 DEF Files, Answered200, TypeOK
  <2>3. CASE Reply(r, "404")
    BY <1>8, <2>3 DEF Answered200
  <2> QED
    BY <1>9, <2>2, <2>3 DEF ReadVoucher
<1>10. CASE CheckOrg(r)
  <2>1. bytes[r] = {p} /\ p \notin forgotten /\ UNCHANGED <<bytes, forgotten>>
    BY <1>6, <1>10 DEF CheckOrg, locals, history
  <2>2. BelongsTo(uuid[r], org[r]) <=> org[p] = org[r]
    <3>1. disk["orgid"][uuid[r]] = {p} /\ {p} # NoFile
      BY <1>7, <2>1, NoneAssumption DEF NoFile
    <3>2. {org[q] : q \in {p}} = {org[p]} /\ org[p] \in Orgs
      BY <1>1 DEF TypeOK
    <3> QED
      BY <3>1, <3>2, MixturesAssumption DEF BelongsTo
  <2> QED
    BY <1>1, <1>8, <1>10, <2>1, <2>2 DEF CheckOrg, Answered200
<1>11. CASE Send(r) \/ Admit(r) \/ Refuse(r) \/ AskOwner(r)
  <2>1. /\ pc'[r] \in {"askOwner", "checkOrg"} => pc[r] = "askOwner"
        /\ answer'[r] \in {answer[r], "denied", "400", "500"}
        /\ UNCHANGED <<bytes, forgotten>>
    BY <1>1, <1>8, <1>11 DEF Send, Admit, Refuse, AskOwner, locals, history
  <2> QED
    BY <1>1, <1>6, <2>1 DEF Answered200
<1>12. CASE pc'[r] = pc[r] /\ answer'[r] = answer[r] /\ ~ReadVoucher(r)
  <2>1. bytes'[r] = bytes[r]
    BY <1>1, <1>12, GetKeepsBytes
  <2>2. pc[r] \in {"askOwner", "checkOrg"} => UNCHANGED forgotten
    BY <1>1, ForgetStep DEF NewContainer, Active
  <2> QED
    BY <1>1, <1>6, <1>12, <2>1, <2>2 DEF Answered200
<1>13. CASE pc'[r] = "done" /\ answer'[r] = "lost"
  BY <1>13 DEF Answered200
<1> QED
  BY <1>1, <1>9, <1>10, <1>11, <1>12, <1>13, OwnStep, GetStep

\* A client that asks for a device after an import of it, and before the next one, is sent
\* that import's voucher if he asks in its organisation, and refused only in another.
THEOREM GetsReturnTheImport == Spec => []GetReturnsTheImport
<1>1. Init => TypeOK /\ HandlersAgree /\ HistoryAgrees /\ AnsweredDone /\ AllLand /\ GetsMatch
  BY InitType DEF Init, HistoryAgrees, AllLand, Landing, Lands, After, AfterVoucher, AfterOrgid,
                  AfterExec, WriteAt, Files, Requests, AnsweredDone, Answered200, GetsMatch,
                  GetMatches
<1>2. TypeOK /\ HandlersAgree /\ HistoryAgrees /\ AnsweredDone /\ AllLand /\ GetsMatch
      /\ [Next]_vars
        => (TypeOK /\ HandlersAgree /\ HistoryAgrees /\ AnsweredDone /\ AllLand /\ GetsMatch)'
  BY NextType, NextAgrees, NextHistory, NextAnswered, NextLands, NextMatch
<1>3. GetsMatch => GetReturnsTheImport
  BY DEF GetsMatch, GetMatches, GetReturnsTheImport, Arrived
<1> QED
  BY <1>1, <1>2, <1>3, PTL DEF Spec

----------------------------------------------------------------------------
\* What a list has collected and has still to visit changes in its own steps.
LEMMA ListVarsStep ==
    ASSUME TypeOK, [Next]_vars, NEW r \in Lists
    PROVE  (todo'[r] = todo[r] /\ found'[r] = found[r]) \/ ReadDir(r) \/ Scan(r)
<1>1. ASSUME NEW q \in Lists, q # r, ReadDir(q) \/ Scan(q)
      PROVE  todo'[r] = todo[r] /\ found'[r] = found[r]
  BY <1>1 DEF ReadDir, Scan, TypeOK
<1>2. ASSUME NEW q \in Requests,
             \/ Send(q) \/ Admit(q) \/ Refuse(q)
             \/ RegisterAccepted(q) \/ RegisterRefused(q) \/ RegisterFails(q) \/ MkdirAll(q)
             \/ DiskFails(q) \/ ReadExec(q) \/ PostExec(q) \/ PostSvi(q)
             \/ ReadVoucher(q) \/ CheckOrg(q) \/ AskOwner(q) \/ ScanFails(q) \/ SendList(q)
      PROVE  UNCHANGED <<todo, found>>
  BY <1>2 DEF Send, Admit, Refuse, RegisterAccepted, RegisterRefused, RegisterFails, MkdirAll,
              DiskFails, ReadExec, PostExec, PostSvi, ReadVoucher, CheckOrg, AskOwner,
              ScanFails, SendList, locals
<1>3. ASSUME NEW q \in Imports, NEW f \in Files, Open(q, f) \/ Write(q, f)
      PROVE  UNCHANGED <<todo, found>>
  BY <1>3 DEF Open, Write, locals
<1>4. ASSUME Crash \/ NewContainer \/ CustomSvi \/ UNCHANGED vars
      PROVE  UNCHANGED <<todo, found>>
  BY <1>4 DEF Crash, NewContainer, CustomSvi, vars, locals
<1> QED
  BY <1>1, <1>2, <1>3, <1>4, NextCases DEF Requests

\* A list has collected nothing before it visits the directories, and no device before it
\* has visited that one.
Uncollected ==
    \A r \in Lists : /\ pc[r] \in {"new", "auth", "askOwner", "readDir"} => found[r] = {}
                     /\ todo[r] \cap found[r] = {}

LEMMA ListPc ==
    ASSUME TypeOK, [Next]_vars, NEW r \in Lists
    PROVE  /\ pc'[r] \in {"new", "auth", "askOwner", "readDir"} =>
                 pc[r] \in {"new", "auth", "askOwner", "readDir"} /\ ~ReadDir(r) /\ ~Scan(r)
           /\ pc'[r] = "scan" => pc[r] = "scan" \/ ReadDir(r)
<1>1. \A s : (Goto(r, s) => pc'[r] = s) /\ (Reply(r, s) => pc'[r] = "done")
  BY DEF Goto, Reply, TypeOK, Requests
<1>2. ASSUME Send(r) \/ Admit(r) \/ Refuse(r) \/ AskOwner(r) \/ ScanFails(r) \/ SendList(r)
      PROVE  /\ ~ReadDir(r) /\ ~Scan(r)
             /\ pc'[r] \in {"new", "auth", "askOwner", "readDir"} =>
                  pc[r] \in {"new", "auth", "askOwner", "readDir"}
             /\ pc'[r] # "scan"
  BY <1>1, <1>2, RequestsAssumption
     DEF Send, Admit, Refuse, AskOwner, ScanFails, SendList, ReadDir, Scan
<1>3. ReadDir(r) => pc'[r] \in {"scan", "done"}
  BY <1>1 DEF ReadDir
<1>4. Scan(r) => pc[r] = "scan" /\ pc'[r] = "scan"
  BY <1>1 DEF Scan
<1>5. pc'[r] = pc[r] => ~ReadDir(r)
  BY <1>3 DEF ReadDir
<1> QED
  BY <1>2, <1>3, <1>4, <1>5, OwnStep, ListStep DEF Requests

LEMMA NextExact ==
    TypeOK /\ HandlersAgree /\ ImportOrder /\ Uncollected /\ ListIsExact /\ [Next]_vars
      => (Uncollected /\ ListIsExact)'
<1> SUFFICES ASSUME TypeOK, HandlersAgree, ImportOrder, Uncollected, ListIsExact, [Next]_vars
             PROVE  (Uncollected /\ ListIsExact)'
  OBVIOUS
<1>1. Uncollected'
  <2>1. ASSUME NEW r \in Lists, pc'[r] \in {"new", "auth", "askOwner", "readDir"}
        PROVE  found'[r] = {}
    BY <2>1, ListPc, ListVarsStep DEF Uncollected
  <2>2. ASSUME NEW r \in Lists
        PROVE  todo'[r] \cap found'[r] = {}
    <3>1. ReadDir(r) => found'[r] = {} \/ UNCHANGED <<todo, found>>
      BY DEF ReadDir, Uncollected
    <3>2. ASSUME Scan(r)
          PROVE  todo'[r] \cap found'[r] = {}
      BY <3>2 DEF Scan, Uncollected, TypeOK
    <3> QED
      BY <3>1, <3>2, ListVarsStep DEF Uncollected
  <2> QED
    BY <2>1, <2>2 DEF Uncollected
<1>2. ASSUME NEW r \in Lists, pc'[r] = "scan",
             NEW u \in Uuids \ (touched'[r] \cup todo'[r] \cup {EmptyBody})
      PROVE  u \in found'[r] <=> BelongsTo(u, org[r])'
  <2>0. org' = org
    BY UuidStep DEF inputs
  <2>1. CASE ReadDir(r)
    <3>1. /\ todo' = [todo EXCEPT ![r] = dirs \ {EmptyBody}]
          /\ found' = found /\ disk' = disk /\ pc[r] = "readDir"
      BY <1>2, <2>1 DEF ReadDir, Reply, TypeOK, Requests, db
    <3>2. u \notin dirs
      BY <1>2, <3>1 DEF TypeOK
    <3>3. disk["orgid"][u] = NoFile
      BY <3>2 DEF ImportOrder, Files
    <3>4. found[r] = {}
      BY <3>1 DEF Uncollected
    <3> QED
      BY <2>0, <3>1, <3>3, <3>4 DEF BelongsTo
  <2>2. CASE ~ReadDir(r)
    <3>1. pc[r] = "scan"
      BY <1>2, <2>2, ListPc
    <3>2. u \notin touched[r]
      BY <1>2, TouchStep DEF Requests
    <3>3. BelongsTo(u, org[r])' <=> BelongsTo(u, org[r])
      <4>1. disk'["orgid"][u] = disk["orgid"][u]
        BY <1>2, <3>1, UntouchedFile DEF Files, Active
      <4> QED
        BY <2>0, <4>1 DEF BelongsTo
    <3>4. CASE Scan(r)
      <4>1. PICK v \in todo[r] :
              /\ todo' = [todo EXCEPT ![r] = @ \ {v}]
              /\ found' = [found EXCEPT ![r] = IF BelongsTo(v, org[r]) THEN @ \cup {v} ELSE @]
        BY <3>4 DEF Scan
      <4>2. todo'[r] = todo[r] \ {v}
        BY <4>1 DEF TypeOK
      <4>3. found'[r] = IF BelongsTo(v, org[r]) THEN found[r] \cup {v} ELSE found[r]
        BY <4>1 DEF TypeOK
      <4>4. CASE u = v
        <5>1. ~BelongsTo(v, org[r]) => v \notin found[r]
          BY DEF Uncollected
        <5> QED
          BY <3>3, <4>3, <4>4, <5>1
      <4>5. CASE u # v
        <5>1. u \notin todo[r]
          BY <1>2, <4>2, <4>5
        <5> QED
          BY <1>2, <3>1, <3>2, <3>3, <4>3, <4>5, <5>1 DEF ListIsExact
      <4> QED
        BY <4>4, <4>5
    <3>5. CASE ~Scan(r)
      BY <1>2, <2>2, <3>1, <3>2, <3>3, <3>5, ListVarsStep DEF ListIsExact
    <3> QED
      BY <3>4, <3>5
  <2> QED
    BY <2>1, <2>2
<1> QED
  BY <1>1, <1>2 DEF ListIsExact

\* A list loses and invents nothing but what is imported while it runs.
THEOREM ListsAreExact == Spec => []ListIsExact
<1>1. Init => TypeOK /\ HandlersAgree /\ HistoryAgrees /\ ImportOrder
              /\ Uncollected /\ ListIsExact
  BY InitType DEF Init, HistoryAgrees, ImportOrder, Uncollected, ListIsExact, Requests, Files
<1>2. TypeOK /\ HandlersAgree /\ HistoryAgrees /\ ImportOrder /\ Uncollected /\ ListIsExact
      /\ [Next]_vars
        => (TypeOK /\ HandlersAgree /\ HistoryAgrees /\ ImportOrder
            /\ Uncollected /\ ListIsExact)'
  BY NextType, NextAgrees, NextHistory, NextOrder, NextExact
<1> QED
  BY <1>1, <1>2, PTL DEF Spec

----------------------------------------------------------------------------
(***************************************************************************)
(* Which imports overlapped, told from the texts they left.                *)
(***************************************************************************)
\* A request was only disturbed by an import of that device.
Touchers == \A r \in Requests : \A u \in touched[r] : \E q \in Imports : q # r /\ uuid[q] = u

LEMMA NextTouchers == TypeOK /\ HandlersAgree /\ Touchers /\ [Next]_vars => Touchers'
<1> SUFFICES ASSUME TypeOK, HandlersAgree, Touchers, [Next]_vars,
                    NEW r \in Requests, NEW u \in touched'[r]
             PROVE  \E q \in Imports : q # r /\ uuid'[q] = u
  BY DEF Touchers
<1>1. u \in Uuids
  BY NextType DEF TypeOK
<1>2. \A q \in Imports : uuid[q] = u => uuid'[q] = u
  BY <1>1, UuidStep
<1>3. CASE u \in touched[r]
  BY <1>2, <1>3 DEF Touchers
<1>4. CASE u \notin touched[r]
  BY <1>2, <1>4, TouchedBy
<1> QED
  BY <1>3, <1>4

\* An overlap of two imports of a device is history: it stays one.
LEMMA OverlapsStay ==
    ASSUME TypeOK, HandlersAgree, [Next]_vars, NEW q \in Imports, NEW r \in Imports,
           Overlapped(q, r)
    PROVE  Overlapped(q, r)' /\ uuid'[q] = uuid[q]
<1>1. q \in Requests /\ r \in Requests
  BY DEF Requests
<1>2. uuid[q] \in Uuids /\ uuid[r] \in Uuids
  BY <1>1 DEF Overlapped, Solo, TypeOK
<1>3. uuid'[q] = uuid[q] /\ uuid'[r] = uuid[r]
  BY <1>2, UuidStep
<1> QED
  BY <1>1, <1>3, TouchStep DEF Overlapped, Solo

\* An import that knows its uuid has arrived, so that it is told of what others do to it.
LEMMA KnowsUuid ==
    ASSUME HandlersAgree, NEW q \in Imports, uuid[q] \in Uuids
    PROVE  pc[q] # "new"
BY UuidsAssumption DEF HandlersAgree, Agrees

\* Texts of two imports only come together in a file if the imports overlapped.
FilesOverlap ==
    \A f \in Files, u \in Uuids, q, r \in Imports :
        q # r /\ q \in disk[f][u] /\ r \in disk[f][u] => Overlapped(q, r)

LEMMA NextOverlap ==
    TypeOK /\ HandlersAgree /\ BytesStayWithTheirDevice /\ AllLand /\ FilesOverlap /\ [Next]_vars
      => FilesOverlap'
<1> SUFFICES ASSUME TypeOK, HandlersAgree, BytesStayWithTheirDevice, AllLand, FilesOverlap,
                    [Next]_vars, NEW f \in Files, NEW u \in Uuids,
                    NEW q \in Imports, NEW r \in Imports,
                    q # r, q \in disk'[f][u], r \in disk'[f][u]
             PROVE  Overlapped(q, r)'
  BY DEF FilesOverlap
<1>1. CASE q \in disk[f][u] /\ r \in disk[f][u]
  BY <1>1, OverlapsStay DEF FilesOverlap
<1>2. ASSUME NEW w \in Imports, NEW p \in Imports, Write(w, f), uuid[w] = u,
             p # w, p \in disk[f][u]
      PROVE  Overlapped(p, w)' /\ Overlapped(w, p)'
  <2>1. uuid' = uuid /\ uuid[p] = u /\ w \in Requests /\ p \in Requests
    BY <1>2 DEF Write, locals, BytesStayWithTheirDevice, Requests
  <2>2. ~Solo(w)
    BY <1>2 DEF Write, AllLand, Landing
  <2>3. u \in touched[w]
    BY <1>2, <2>2 DEF Solo
  <2>4. u \in touched'[w]
    BY <2>1, <2>3, TouchStep
  <2>5. u \in touched'[p]
    BY <1>2, <2>1, KnowsUuid DEF Write, Touch
  <2> QED
    BY <1>2, <2>1, <2>4, <2>5 DEF Overlapped, Solo
<1>3. ASSUME NEW w \in Imports, Rewrites(w, f, u)
      PROVE  Overlapped(q, r)'
  <2>1. disk'[f][u] # {} /\ Write(w, f) /\ uuid[w] = u
        /\ disk'[f][u] = Overlay(f, w, disk[f][u])
    BY <1>3 DEF Rewrites
  <2>2. (q = w \/ q \in disk[f][u]) /\ (r = w \/ r \in disk[f][u])
    BY <2>1 DEF Overlay
  <2> QED
    BY <1>1, <1>2, <2>1, <2>2
<1> QED
  BY <1>1, <1>3, DiskStep, NoneAssumption DEF NoFile

\* What the Owner Service hands to a device: an import that was not disturbed had it stored
\* itself, and it is only empty when imports overlapped.
ResourceOrigins ==
    \A u \in Uuids :
        /\ \A q \in Imports : q \in resource[u] /\ Solo(q) => q \in stored
        /\ resource[u] = {} => \E q, r \in Imports : Overlapped(q, r) /\ uuid[q] = u

LEMMA NextOrigins ==
    TypeOK /\ HandlersAgree /\ BytesStayWithTheirDevice /\ AllLand /\ Touchers
    /\ ResourceOrigins /\ [Next]_vars => ResourceOrigins'
<1> SUFFICES ASSUME TypeOK, HandlersAgree, BytesStayWithTheirDevice, AllLand, Touchers,
                    ResourceOrigins, [Next]_vars, NEW u \in Uuids
             PROVE  /\ \A q \in Imports : q \in resource'[u] /\ Solo(q)' => q \in stored'
                    /\ resource'[u] = {} =>
                          \E q, r \in Imports : Overlapped(q, r)' /\ uuid'[q] = u
  BY DEF ResourceOrigins
<1>1. CASE resource'[u] = resource[u]
  <2>1. ASSUME NEW q \in Imports, q \in resource[u], Solo(q)'
        PROVE  q \in stored'
    <3>1. uuid[q] = u /\ uuid'[q] = u /\ touched[q] \subseteq touched'[q]
      BY <2>1, UuidStep, TouchStep DEF BytesStayWithTheirDevice, Requests
    <3> QED
      BY <2>1, <3>1, ForgetStep DEF ResourceOrigins, Solo
  <2>2. resource[u] = {} => \E q, r \in Imports : Overlapped(q, r)' /\ uuid'[q] = u
    BY OverlapsStay DEF ResourceOrigins
  <2> QED
    BY <1>1, <2>1, <2>2
<1>2. ASSUME NEW w \in Imports, StoreExec(w), pc[w] = "postExec", uuid[w] = u, UNCHANGED uuid,
             resource'[u] = bytes[w]
      PROVE  /\ \A q \in Imports : q \in resource'[u] /\ Solo(q)' => q \in stored'
             /\ resource'[u] = {} =>
                   \E q, r \in Imports : Overlapped(q, r)' /\ uuid'[q] = u
  <2>1. \A q \in Imports : q # w /\ uuid[q] = u => u \in touched'[q]
    BY <1>2, KnowsUuid DEF StoreExec, Touch, Requests
  <2>2. ASSUME NEW q \in Imports, q \in bytes[w], Solo(q)'
        PROVE  q \in stored'
    <3>1. uuid[q] = u
      BY <1>2, <2>2 DEF BytesStayWithTheirDevice
    <3> QED
      BY <1>2, <2>1, <2>2, <3>1 DEF StoreExec, Solo
  <2>3. ASSUME bytes[w] = {}
        PROVE  \E q, r \in Imports : Overlapped(q, r)' /\ uuid'[q] = u
    <3>1. u \in touched[w]
      BY <1>2, <2>3 DEF AllLand, Landing, Lands, Solo
    <3>2. PICK q \in Imports : q # w /\ uuid[q] = u
      BY <3>1 DEF Touchers, Requests
    <3>3. u \in touched'[w] /\ u \in touched'[q]
      BY <2>1, <3>1, <3>2, TouchStep DEF Requests
    <3>4. Overlapped(q, w)'
      BY <1>2, <3>2, <3>3 DEF Overlapped, Solo
    <3> QED
      BY <1>2, <3>2, <3>4
  <2> QED
    BY <1>2, <2>2, <2>3
<1> QED
  BY <1>1, <1>2, ResourceStep

----------------------------------------------------------------------------
\* What the text of orgid.txt says of the imports of the device.
LEMMA BelongingMay ==
    ASSUME TypeOK, BytesStayWithTheirDevice, FilesUnequal, FilesOverlap,
           NEW u \in Uuids, NEW o \in Orgs, BelongsTo(u, o)
    PROVE  MayBelong(u, o)
<1> DEFINE text == disk["orgid"][u]
<1>1. text \subseteq Imports /\ text # NoFile
  BY DEF TypeOK, Contents, BelongsTo, Files
<1>2. \A q \in text : uuid[q] = u /\ org[q] \in Orgs
  BY <1>1 DEF BytesStayWithTheirDevice, TypeOK, Files, Requests
<1>3. CASE \E q \in text : org[q] = o
  BY <1>1, <1>2, <1>3 DEF MayBelong
<1>4. CASE ~\E q \in text : org[q] = o
  <2>1. MixedName[{org[q] : q \in text}] = o
    BY DEF BelongsTo
  <2>2. text # {}
    <3>1. SUFFICES ASSUME text = {} PROVE FALSE
      OBVIOUS
    <3>2. {org[q] : q \in text} = {}
      BY <3>1
    <3> QED
      BY <2>1, <3>2, MixturesAssumption
  <2>3. PICK p \in text : TRUE
    BY <2>2
  <2>4. \E q \in text : org[q] # org[p]
    <3>1. SUFFICES ASSUME \A q \in text : org[q] = org[p] PROVE FALSE
      OBVIOUS
    <3>2. {org[q] : q \in text} = {org[p]}
      BY <2>3, <3>1
    <3> QED
      BY <1>2, <1>4, <2>1, <2>3, <3>2, MixturesAssumption
  <2>5. PICK q \in text : org[q] # org[p]
    BY <2>4
  <2>6. p # q /\ p \in Imports /\ q \in Imports
    BY <1>1, <2>3, <2>5
  <2>7. Overlapped(p, q)
    BY <2>3, <2>5, <2>6 DEF FilesOverlap, Files
  <2>8. OrgSize[org[p]] # OrgSize[org[q]]
    BY <2>3, <2>5, <2>6 DEF FilesUnequal, Unequal, Size, Files
  <2> QED
    BY <1>2, <2>3, <2>6, <2>7, <2>8 DEF MayBelong
<1> QED
  BY <1>3, <1>4

LEMMA NextInOrg ==
    TypeOK /\ HandlersAgree /\ BytesStayWithTheirDevice /\ FilesUnequal /\ FilesOverlap
    /\ ReadersStayInTheirOrg /\ [Next]_vars => ReadersStayInTheirOrg'
<1> SUFFICES ASSUME TypeOK, HandlersAgree, BytesStayWithTheirDevice, FilesUnequal, FilesOverlap,
                    ReadersStayInTheirOrg, [Next]_vars
             PROVE  ReadersStayInTheirOrg'
  OBVIOUS
<1>1. org' = org /\ \A q \in Imports \cup Gets : uuid[q] \in Uuids => uuid'[q] = uuid[q]
  BY UuidStep DEF inputs
<1>2. ASSUME NEW u \in Uuids, NEW o, MayBelong(u, o)
      PROVE  MayBelong(u, o)'
  <2>1. CASE \E q \in Imports : uuid[q] = u /\ org[q] = o
    BY <1>1, <2>1 DEF MayBelong
  <2>2. ASSUME NEW q \in Imports, NEW r \in Imports, Overlapped(q, r), uuid[q] = u,
               OrgSize[org[q]] # OrgSize[org[r]]
        PROVE  MayBelong(u, o)'
    <3>1. Overlapped(q, r)' /\ uuid'[q] = u
      BY <2>2, OverlapsStay
    <3> QED
      BY <1>1, <2>2, <3>1 DEF MayBelong
  <2> QED
    BY <1>2, <2>1, <2>2 DEF MayBelong
<1>3. \A r \in Requests : org[r] \in Orgs
  BY DEF TypeOK
<1>4. ASSUME NEW r \in Gets, answer'[r] = "200"
      PROVE  MayBelong(uuid[r], org[r])
  <2>1. CASE Send(r) \/ Handle(r)
    <3>1. \A c : Reply(r, c) => answer'[r] = c
      BY DEF Reply, TypeOK, Requests
    <3>2. \A s : Goto(r, s) => answer'[r] = answer[r]
      BY DEF Goto
    <3>3. ASSUME Send(r) \/ Admit(r) \/ Refuse(r) \/ ReadVoucher(r) \/ AskOwner(r)
          PROVE  answer[r] = "200"
      BY <1>4, <3>1, <3>2, <3>3 DEF Send, Admit, Refuse, ReadVoucher, AskOwner
    <3>4. ASSUME CheckOrg(r)
          PROVE  BelongsTo(uuid[r], org[r])
      BY <1>4, <3>1, <3>4 DEF CheckOrg
    <3>5. answer[r] = "200" \/ BelongsTo(uuid[r], org[r])
      BY <2>1, <3>3, <3>4, GetStep
    <3> QED
      BY <1>3, <3>5, BelongingMay DEF ReadersStayInTheirOrg, Answered200, HandlersAgree, Requests
  <2>2. CASE answer'[r] = answer[r]
    BY <1>4, <2>2 DEF ReadersStayInTheirOrg, Answered200
  <2> QED
    BY <1>4, <2>1, <2>2, OwnStep DEF Requests
<1>5. ASSUME NEW r \in Lists, NEW u \in found'[r]
      PROVE  u \in Uuids /\ MayBelong(u, org[r])
  <2>1. CASE found'[r] = found[r]
    BY <1>5, <2>1 DEF ReadersStayInTheirOrg, TypeOK
  <2>2. CASE ReadDir(r)
    BY <2>1, <2>2 DEF ReadDir
  <2>3. CASE Scan(r)
    <3>1. u \in found[r] \/ (u \in todo[r] /\ BelongsTo(u, org[r]))
      BY <1>5, <2>3 DEF Scan, TypeOK
    <3> QED
      BY <1>3, <3>1, BelongingMay DEF ReadersStayInTheirOrg, TypeOK, Requests
  <2> QED
    BY <2>1, <2>2, <2>3, ListVarsStep
<1>6. ASSUME NEW r \in Gets, Answered200(r)'
      PROVE  MayBelong(uuid[r], org[r])'
  <2>1. MayBelong(uuid[r], org[r])
    BY <1>4, <1>6 DEF Answered200
  <2>2. uuid[r] \in Uuids /\ uuid'[r] = uuid[r]
    BY <1>1 DEF HandlersAgree
  <2>3. PICK v \in Uuids, o \in Orgs : v = uuid[r] /\ o = org[r]
    BY <1>3, <2>2 DEF Requests
  <2>4. MayBelong(v, o)'
    BY <1>2, <2>1, <2>3
  <2> QED
    BY <1>1, <2>2, <2>3, <2>4 DEF MayBelong
<1>7. ASSUME NEW r \in Lists, NEW u \in found'[r]
      PROVE  MayBelong(u, org[r])'
  <2>1. PICK o \in Orgs : o = org[r]
    BY <1>3 DEF Requests
  <2>2. MayBelong(u, o)'
    BY <1>2, <1>5, <1>7, <2>1
  <2> QED
    BY <1>1, <2>1, <2>2 DEF MayBelong
<1> QED
  BY <1>6, <1>7 DEF ReadersStayInTheirOrg

\* The invariants that tell from the texts which imports overlapped.
TextsTell ==
    /\ TypeOK /\ HandlersAgree /\ HistoryAgrees /\ AnsweredDone /\ AllLand
    /\ Unread /\ BytesStayWithTheirDevice /\ FilesUnequal /\ ExecsUnequal /\ FilesOverlap
    /\ Touchers /\ ResourceOrigins

LEMMA InitTell == Init => TextsTell
<1> SUFFICES ASSUME Init PROVE TextsTell
  OBVIOUS
<1>1. HistoryAgrees /\ AnsweredDone
  BY DEF Init, HistoryAgrees, AnsweredDone
<1>2. AllLand
  BY DEF Init, AllLand, Landing, Lands, After, AfterVoucher, AfterOrgid, AfterExec, WriteAt, Files,
         Requests, Answered200
<1>3. FilesUnequal /\ ExecsUnequal
  BY NoneAssumption DEF Init, FilesUnequal, ExecsUnequal, Unequal, NoFile
<1>4. FilesOverlap /\ Touchers /\ ResourceOrigins
  BY NoneAssumption DEF Init, FilesOverlap, Touchers, ResourceOrigins, NoFile
<1> QED
  BY <1>1, <1>2, <1>3, <1>4, InitType, InitStays DEF TextsTell

LEMMA NextTell == TextsTell /\ [Next]_vars => TextsTell'
BY NextType, NextAgrees, NextHistory, NextAnswered, NextLands, NextStays, NextUnequal, NextOverlap,
   NextTouchers, NextOrigins DEF TextsTell

\* No get and no list tells a client of a device that was never imported into its organisation,
\* unless imports into organisations with names of different length overlapped.
THEOREM ReadersStay == Spec => []ReadersStayInTheirOrg
<1>1. Init => TextsTell /\ ReadersStayInTheirOrg
  BY InitTell DEF Init, ReadersStayInTheirOrg, Answered200, Requests
<1>2. TextsTell /\ ReadersStayInTheirOrg /\ [Next]_vars => (TextsTell /\ ReadersStayInTheirOrg)'
  BY NextTell, NextInOrg DEF TextsTell
<1> QED
  BY <1>1, <1>2, PTL DEF Spec

----------------------------------------------------------------------------
(***************************************************************************)
(* How far the handlers are from their answers.                            *)
(***************************************************************************)
MovesOn(r) == pc[r] \in Steps /\ pc'[r] \in Steps /\ Place[pc[r]] < Place[pc'[r]]

LEMMA ImportMovesOn ==
    ASSUME TypeOK, NEW r \in Imports, Import(r)
    PROVE  MovesOn(r)
<1> USE DEF Place, Steps, ImportSteps, AfterVoucher, AfterOrgid, AfterExec
<1>1. \A s : (Goto(r, s) => pc'[r] = s) /\ (Reply(r, s) => pc'[r] = "done")
  BY DEF Goto, Reply, TypeOK, Requests
<1>2. ASSUME NEW f \in Files, Open(r, f) \/ Write(r, f)
      PROVE  MovesOn(r)
  BY <1>1, <1>2 DEF Open, Write, OpenAt, WriteAt, NextAt, Files, MovesOn
<1>3. CASE DiskFails(r)
  BY <1>1, <1>3 DEF DiskFails, OpenAt, WriteAt, Files, MovesOn
<1>4. CASE RegisterAccepted(r) \/ RegisterRefused(r) \/ RegisterFails(r)
  <2>1. pc[r] = "register" /\ pc'[r] \in {"mkdir", "done"}
    BY <1>1, <1>4 DEF RegisterAccepted, RegisterRefused, RegisterFails
  <2> QED
    BY <2>1 DEF MovesOn
<1>5. CASE MkdirAll(r) \/ ReadExec(r)
  BY <1>1, <1>5 DEF MkdirAll, ReadExec, MovesOn
<1>6. CASE PostExec(r) \/ PostSvi(r)
  <2>1. \/ pc[r] = "postExec" /\ pc'[r] \in {"postSvi", "done"}
        \/ pc[r] = "postSvi" /\ pc'[r] = "done"
    BY <1>1, <1>6 DEF PostExec, PostSvi
  <2> QED
    BY <2>1 DEF MovesOn
<1> QED
  BY <1>2, <1>3, <1>4, <1>5, <1>6 DEF Import

\* A handler's step brings it on, and one that visits a directory does not visit it again.
LEMMA HandlerMovesOn ==
    ASSUME TypeOK, NEW r \in Requests, Send(r) \/ Handle(r)
    PROVE  \/ MovesOn(r)
           \/ r \in Lists /\ pc'[r] = pc[r] /\ todo'[r] \subseteq todo[r] /\ todo'[r] # todo[r]
<1> USE DEF Place, Steps, ImportSteps, GetSteps, ListSteps
<1>1. \A s : (Goto(r, s) => pc'[r] = s) /\ (Reply(r, s) => pc'[r] = "done")
  BY DEF Goto, Reply, TypeOK
<1>2. CASE Send(r) \/ Admit(r) \/ Refuse(r)
  BY <1>1, <1>2 DEF Send, Admit, Refuse, MovesOn
<1>3. CASE r \in Imports /\ Import(r)
  BY <1>3, ImportMovesOn
<1>4. CASE ReadVoucher(r) \/ AskOwner(r) \/ CheckOrg(r) \/ ReadDir(r) \/ ScanFails(r) \/ SendList(r)
  BY <1>1, <1>4 DEF ReadVoucher, AskOwner, CheckOrg, ReadDir, ScanFails, SendList, MovesOn
<1>5. CASE r \in Lists /\ Scan(r)
  BY <1>1, <1>5 DEF Scan, TypeOK
<1> QED
  BY <1>2, <1>3, <1>4, <1>5 DEF Handle, Get, List

\* Every request comes closer to its answer with each of its steps, and no step of another
\* takes it back: the half of "every request ends" that does not depend on fairness.
THEOREM AllMoveOn == Spec => HandlersMoveOn
<1>1. ASSUME TypeOK, [Next]_vars
      PROVE  /\ \A r \in Requests : pc'[r] = pc[r] \/ Place[pc[r]] < Place[pc'[r]]
             /\ \A r \in Lists : pc[r] = "scan" => todo'[r] \subseteq todo[r]
             /\ UNCHANGED <<pc, todo>> =>
                   /\ UNCHANGED <<held, resource, locals, answer>>
                   /\ (\E r \in Requests : Active(r)) => UNCHANGED db
  <2>1. ASSUME NEW r \in Requests, pc'[r] # pc[r]
        PROVE  Place[pc[r]] < Place[pc'[r]]
    <3>1. CASE Send(r) \/ Handle(r)
      BY <2>1, <3>1, <1>1, HandlerMovesOn DEF MovesOn
    <3>2. CASE pc[r] # "done" /\ pc'[r] = "done"
      <4>1. pc[r] \in Steps
        BY <1>1 DEF TypeOK
      <4> QED
        BY <3>2, <4>1 DEF Place, Steps, ImportSteps, AfterVoucher, AfterOrgid, AfterExec, GetSteps,
                          ListSteps
    <3> QED
      BY <1>1, <2>1, <3>1, <3>2, OwnStep
  <2>2. ASSUME NEW r \in Lists, pc[r] = "scan"
        PROVE  todo'[r] \subseteq todo[r]
    <3>1. ~ReadDir(r)
      BY <2>2 DEF ReadDir
    <3>2. Scan(r) => todo'[r] \subseteq todo[r]
      BY <1>1 DEF Scan, TypeOK
    <3> QED
      BY <1>1, <3>1, <3>2, ListVarsStep
  <2>3. ASSUME UNCHANGED <<pc, todo>>
        PROVE  /\ UNCHANGED <<held, resource, locals, answer>>
               /\ (\E r \in Requests : Active(r)) => UNCHANGED db
    <3>1. ASSUME NEW r \in Requests, Send(r) \/ Handle(r)
          PROVE  FALSE
      <4>1. pc'[r] = pc[r] /\ todo' = todo
        BY <2>3
      <4>2. ~MovesOn(r)
        BY <4>1 DEF MovesOn, Place, Steps, ImportSteps, AfterVoucher, AfterOrgid, AfterExec,
                    GetSteps, ListSteps
      <4> QED
        BY <1>1, <3>1, <4>1, <4>2, HandlerMovesOn
    <3>2. ~Crash
      BY <1>1, <2>3 DEF Crash, Active, TypeOK
    <3>3. CASE CustomSvi \/ UNCHANGED vars
      BY <3>3 DEF CustomSvi, vars, owner, db, locals
    <3>4. CASE NewContainer
      BY <3>4 DEF NewContainer, owner, locals
    <3> QED
      BY <1>1, <3>1, <3>2, <3>3, <3>4 DEF Next, Idle
  <2> QED
    BY <2>1, <2>2, <2>3
<1> QED
  BY <1>1, TypeCorrect, PTL DEF Spec, HandlersMoveOn
=============================================================================
