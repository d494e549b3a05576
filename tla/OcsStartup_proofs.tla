------------------------- MODULE OcsStartup_proofs -------------------------
(***************************************************************************)
(* Proofs about OcsStartup, for any certificates, hubs and images, any     *)
(* number of starts and of retries.                                        *)
(***************************************************************************)
EXTENDS OcsStartup, TLAPS

USE DEF told, NoValues

\* The next-state relation, one disjunct per action.
LEMMA NextCases ==
    ASSUME [Next]_vars
    PROVE  \/ Start \/ Prepare \/ OwnerIsUp \/ Configure \/ Fatal \/ PostRedirect
           \/ Trust \/ Try \/ GiveUp \/ Listen \/ Hang \/ Crash
           \/ \E f \in Files : Open(f) \/ Write(f) \/ Post(f) \/ ReadFails(f)
           \/ UNCHANGED vars
BY DEF Next, Script, Main, Idle

\* The steps of main, in the order the model moves through them.
LEMMA StepSets ==
    /\ \A f \in Files : {OpenAt[f], WriteAt[f], NextAt[f], PostAt[f], ThenAt[f]} \subseteq Steps
    /\ {"down", "container", "health", "config", "openCrt", "openCfg", "postCrt", "verify", "listen", "serving"}
         \subseteq Steps
BY DEF Files, OpenAt, WriteAt, NextAt, PostAt, ThenAt, Steps, ScriptSteps, FileSteps,
       AfterWrapper

\* What a start writes to a file is one of the texts of that file.
LEMMA TextType ==
    ASSUME StartupTypeOK, NEW f \in Files, f = "crt" => env.cert # NoCert
    PROVE  Text(f) \in Contents[f] \ Absent
<1>1. env.cert \in Certs \cup {NoCert} /\ env.hub \in Hubs /\ env.image \in Images
  BY DEF StartupTypeOK, Envs
<1>2. Cfg \in Cfgs
  BY <1>1 DEF Cfg, Cfgs
<1>3. CASE f = "crt"
  BY <1>1, <1>3, TextsAssumption DEF Text, Contents, Absent
<1>4. CASE f = "cfg"
  BY <1>2, <1>4, TextsAssumption DEF Text, Contents, Absent
<1>5. CASE f = "wrapper"
  BY <1>1, <1>5, TextsAssumption DEF Text, Contents, Absent
<1> QED
  BY <1>3, <1>4, <1>5 DEF Files

\* A start without a certificate does not get to the steps that write one.
NoCertNoWrite == pc \in {"openCrt", "writeCrt"} => env.cert # NoCert

LEMMA InitType == Init => StartupTypeOK /\ NoCertNoWrite
<1> SUFFICES ASSUME Init PROVE StartupTypeOK /\ NoCertNoWrite
  OBVIOUS
<1>1. \A f \in Files : NoFile \in Contents[f]
  BY DEF Contents, Absent, Files
<1>2. \A f \in Files : values[f] = NoFile /\ owner[f] = NoFile
  BY DEF Init
<1>3. NoFile \in AnyText
  BY DEF AnyText, Absent
<1>4. /\ values \in [Files -> AnyText]
      /\ owner \in [Files -> AnyText]
  BY <1>3 DEF Init
<1>5. 0 \in 0 .. Retries /\ 0 \in 0 .. MaxStarts
  BY BoundsAssumption
<1> QED
  BY <1>1, <1>2, <1>4, <1>5, StepSets DEF Init, StartupTypeOK, NoCertNoWrite

\* One file or resource replaced by a text of its kind.
LEMMA UpdateType ==
    ASSUME NEW m \in [Files -> AnyText],
           \A f \in Files : m[f] \in Contents[f],
           NEW g \in Files, NEW c \in Contents[g]
    PROVE  LET n == [m EXCEPT ![g] = c]
           IN  /\ n \in [Files -> AnyText]
               /\ \A f \in Files : n[f] \in Contents[f]
<1>1. c \in AnyText
  BY DEF AnyText, Contents, Files
<1> QED
  BY <1>1

LEMMA NextType == StartupTypeOK /\ NoCertNoWrite /\ [Next]_vars => (StartupTypeOK /\ NoCertNoWrite)'
<1> SUFFICES ASSUME StartupTypeOK, NoCertNoWrite, [Next]_vars PROVE (StartupTypeOK /\ NoCertNoWrite)'
  OBVIOUS
<1>1. ASSUME NEW f \in Files, Open(f)
      PROVE  (StartupTypeOK /\ NoCertNoWrite)'
  <2>1. Empty \in Contents[f]
    BY DEF Contents, Absent, Files
  <2>2. /\ values' \in [Files -> AnyText]
        /\ \A g \in Files : values'[g] \in Contents[g]
    BY <1>1, <2>1, UpdateType DEF Open, StartupTypeOK
  <2>3. pc' = "writeCrt" => pc = "openCrt"
    BY <1>1 DEF Open, OpenAt, WriteAt, Files
  <2>4. pc' # "openCrt"
    BY <1>1 DEF Open, WriteAt, Files
  <2> QED
    BY <1>1, <2>2, <2>3, <2>4, StepSets DEF Open, StartupTypeOK, NoCertNoWrite, service, history
<1>2. ASSUME NEW f \in Files, Write(f)
      PROVE  (StartupTypeOK /\ NoCertNoWrite)'
  <2>1. f = "crt" => env.cert # NoCert
    BY <1>2 DEF Write, WriteAt, NoCertNoWrite, Files
  <2>2. Text(f) \in Contents[f]
    BY <2>1, TextType
  <2>3. /\ values' \in [Files -> AnyText]
        /\ \A g \in Files : values'[g] \in Contents[g]
    BY <1>2, <2>2, UpdateType DEF Write, StartupTypeOK
  <2>4. pc' \notin {"openCrt", "writeCrt"}
    BY <1>2 DEF Write, NextAt, Files
  <2> QED
    BY <1>2, <2>3, <2>4, StepSets DEF Write, StartupTypeOK, NoCertNoWrite, service, history
<1>3. ASSUME NEW f \in Files, Post(f)
      PROVE  (StartupTypeOK /\ NoCertNoWrite)'
  <2>1. values[f] \in Contents[f]
    BY DEF StartupTypeOK
  <2>2. /\ owner' \in [Files -> AnyText]
        /\ \A g \in Files : owner'[g] \in Contents[g]
    <3>1. CASE owner' = [owner EXCEPT ![f] = values[f]]
      BY <3>1, <2>1, UpdateType DEF StartupTypeOK
    <3>2. CASE UNCHANGED owner
      BY <3>2 DEF StartupTypeOK
    <3> QED
      BY <1>3, <3>1, <3>2 DEF Post, StoreResource
  <2>3. stored' \subseteq Files /\ refused' \subseteq Files /\ certLost' \in BOOLEAN
    BY <1>3 DEF Post, StoreResource, StartupTypeOK
  <2>4. /\ pc' \in Steps \ {"openCrt", "writeCrt"}
        /\ exit' \in {"none", "fatal", "returned", "killed", "script"}
        /\ failed' \in BOOLEAN
    <3>1. ThenAt[f] \in Steps \ {"openCrt", "writeCrt"}
      BY StepSets DEF ThenAt, Files
    <3> QED
      BY <1>3, <3>1, StepSets DEF Post, Stop, StartupTypeOK
  <2> QED
    BY <1>3, <2>2, <2>3, <2>4 DEF Post, StartupTypeOK, NoCertNoWrite
<1>4. ASSUME NEW f \in Files, ReadFails(f)
      PROVE  (StartupTypeOK /\ NoCertNoWrite)'
  BY <1>4, StepSets DEF ReadFails, Stop, StartupTypeOK, NoCertNoWrite, service
<1>5. CASE Start
  <2>1. tries' \in 0 .. Retries /\ starts' \in 0 .. MaxStarts
    BY <1>5, BoundsAssumption DEF Start, StartupTypeOK
  <2>3. /\ env' \in Envs
        /\ values' \in [Files -> AnyText] /\ \A f \in Files : values'[f] \in Contents[f]
    <3>1. \A f \in Files : NoFile \in AnyText /\ NoFile \in Contents[f]
      BY DEF Contents, Absent, AnyText, Files
    <3>2. NoValues \in [Files -> AnyText] /\ \A f \in Files : NoValues[f] \in Contents[f]
      BY <3>1 DEF NoValues
    <3> QED
      BY <1>5, <3>2 DEF Start, Restart, Replace, StartupTypeOK
  <2>2. pc' \in Steps \ {"openCrt", "writeCrt"}
    BY <1>5, StepSets DEF Start
  <2> QED
    BY <1>5, <2>1, <2>2, <2>3 DEF Start, StartupTypeOK, NoCertNoWrite, service
<1>6. CASE Configure
  <2>1. /\ pc' \in Steps
        /\ pc' \in {"openCrt", "writeCrt"} => env.cert # NoCert
    BY <1>6, StepSets DEF Configure
  <2> QED
    BY <1>6, <2>1 DEF Configure, StartupTypeOK, NoCertNoWrite, service, history
<1>7. CASE PostRedirect
  <2>1. redirect' \in Hubs \cup {NoFile}
    BY <1>7 DEF PostRedirect, StartupTypeOK, Envs
  <2> QED
    BY <1>7, <2>1, StepSets DEF PostRedirect, Stop, StartupTypeOK, NoCertNoWrite
<1>8. CASE Try
  <2>1. tries' \in 0 .. Retries
    BY <1>8, BoundsAssumption DEF Try, StartupTypeOK
  <2>2. /\ pc' \in Steps \ {"openCrt", "writeCrt"}
        /\ failed' = failed \/ failed' = TRUE
    BY <1>8, StepSets DEF Try
  <2> QED
    BY <1>8, <2>1, <2>2 DEF Try, StartupTypeOK, NoCertNoWrite, service
<1>9. CASE Prepare \/ OwnerIsUp \/ Fatal \/ Trust \/ GiveUp \/ Listen \/ Crash
  <2>1. /\ UNCHANGED <<env, values, service, tries, starts, told>>
        /\ hung' = hung \/ hung' = FALSE
    BY <1>9 DEF Prepare, OwnerIsUp, Fatal, Trust, GiveUp, Listen, Crash, history
  <2>2. /\ pc' \in {"down", "health", "config", "verify", "serving"}
        /\ exit' = exit \/ exit' \in {"fatal", "killed", "script"}
        /\ failed' = failed \/ failed' = TRUE
    BY <1>9 DEF Prepare, OwnerIsUp, Fatal, Trust, GiveUp, Listen, Crash, Stop, history
  <2> QED
    BY <2>1, <2>2, StepSets DEF StartupTypeOK, NoCertNoWrite, service
<1>10. CASE Hang \/ UNCHANGED vars
  BY <1>10 DEF Hang, vars, StartupTypeOK, NoCertNoWrite, service, history
<1> QED
  BY <1>1, <1>2, <1>3, <1>4, <1>5, <1>6, <1>7, <1>8, <1>9, <1>10, NextCases

\* Type correctness for every environment.
THEOREM TypeCorrect == Spec => []StartupTypeOK
BY InitType, NextType, PTL DEF Spec

----------------------------------------------------------------------------
\* A step of main after the write of f leaves f alone: it is only opened by a new start.
LEMMA NextFiles ==
    StartupTypeOK /\ NoCertNoWrite /\ FilesAreOfThisStart /\ [Next]_vars => FilesAreOfThisStart'
<1> SUFFICES ASSUME StartupTypeOK, FilesAreOfThisStart, [Next]_vars,
                    NEW f \in Files, pc' \in After[f], ~(f = "crt" /\ env'.cert = NoCert)
             PROVE  values'[f] = Text(f)'
  BY DEF FilesAreOfThisStart
<1> USE DEF After, AfterCrt, AfterCfg, AfterWrapper, Files
<1>1. CASE pc \in After[f] /\ env' = env /\ values' = values
  <2>1. Text(f)' = Text(f)
    BY <1>1 DEF Text, Cfg
  <2> QED
    BY <1>1, <2>1 DEF FilesAreOfThisStart
<1>2. ASSUME NEW g \in Files, Open(g) \/ Write(g)
      PROVE  values'[f] = Text(f)'
  <2>1. env' = env /\ Text(f)' = Text(f)
    BY <1>2 DEF Open, Write, Text, Cfg
  <2>2. CASE g = f
    <3>1. Write(g)
      BY <1>2, <2>2 DEF Open, WriteAt
    <3> QED
      BY <2>1, <2>2, <3>1 DEF Write, StartupTypeOK
  <2>3. CASE g # f
    <3>1. pc \in After[f]
      BY <1>2, <2>3 DEF Open, Write, OpenAt, WriteAt, NextAt
    <3>2. values'[f] = values[f]
      BY <1>2, <2>3 DEF Open, Write, StartupTypeOK
    <3> QED
      BY <2>1, <3>1, <3>2 DEF FilesAreOfThisStart
  <2> QED
    BY <2>2, <2>3
<1>3. ASSUME NEW g \in Files, Post(g) \/ ReadFails(g)
      PROVE  pc \in After[f] /\ env' = env /\ values' = values
  BY <1>3 DEF Post, ReadFails, PostAt, Stop
<1>4. ASSUME \/ PostRedirect \/ Trust \/ Try \/ GiveUp \/ Listen
             \/ Fatal \/ Hang \/ Crash \/ UNCHANGED vars
      PROVE  pc \in After[f] /\ env' = env /\ values' = values
  BY <1>4 DEF Hang, PostRedirect, Trust, Try, GiveUp, Listen, Fatal, Crash, Stop, vars
<1>5. CASE Configure \/ Prepare \/ OwnerIsUp
  \* The first step of the files is after the certificate only if there is none.
  BY <1>5 DEF Configure, Prepare, OwnerIsUp, Stop
<1>6. ~Start
  BY DEF Start
<1> QED
  BY <1>1, <1>2, <1>3, <1>4, <1>5, <1>6, NextCases

\* A server never runs with the settings of another start.
THEOREM FilesHold == Spec => []FilesAreOfThisStart
<1>1. Init => StartupTypeOK /\ NoCertNoWrite /\ FilesAreOfThisStart
  BY InitType DEF Init, FilesAreOfThisStart, After, AfterCrt, AfterCfg, AfterWrapper, Files
<1>2. StartupTypeOK /\ NoCertNoWrite /\ FilesAreOfThisStart /\ [Next]_vars
        => (StartupTypeOK /\ NoCertNoWrite /\ FilesAreOfThisStart)'
  BY NextType, NextFiles
<1> QED
  BY <1>1, <1>2, PTL DEF Spec

----------------------------------------------------------------------------
\* What makes the two properties of the posts inductive: nothing is posted before the files
\* are written, they are posted in order, and only if they are there.
Posting ==
    /\ pc \in ScriptSteps \cup FileSteps => stored = {}
    /\ pc \in {"postCfg", "postWrapper", "trust", "verify", "listen", "serving"} =>
          "crt" \in stored \cup refused
    /\ \A f \in stored : owner[f] = values[f] /\ values[f] # NoFile
    /\ "crt" \in refused => certLost

LEMMA NextPosting == StartupTypeOK /\ Posting /\ [Next]_vars => Posting'
<1> SUFFICES ASSUME StartupTypeOK, Posting, [Next]_vars PROVE Posting'
  OBVIOUS
<1> USE DEF ScriptSteps, FileSteps, Files
<1>1. ASSUME NEW f \in Files, Open(f) \/ Write(f)
      PROVE  Posting'
  <2>1. pc \in FileSteps /\ pc' \in FileSteps \cup {"redirect"}
    BY <1>1 DEF Open, Write, OpenAt, WriteAt, NextAt
  <2>2. UNCHANGED told
    BY <1>1 DEF Open, Write, history
  <2> QED
    BY <2>1, <2>2 DEF Posting
<1>2. ASSUME NEW f \in Files, Post(f)
      PROVE  Posting'
  <2>1. /\ pc = PostAt[f] /\ pc' \in {ThenAt[f], "down"}
        /\ values' = values /\ values[f] # NoFile
        /\ StoreResource(f)
    BY <1>2 DEF Post, Stop
  <2>2. /\ f \in stored' \cup refused'
        /\ stored \subseteq stored' /\ refused \subseteq refused'
    BY <2>1 DEF StoreResource
  <2>3. \A g \in stored' : owner'[g] = values'[g] /\ values'[g] # NoFile
    BY <2>1 DEF StoreResource, Posting, StartupTypeOK
  <2>7. "crt" \in refused' => certLost'
    <3>1. CASE UNCHANGED <<refused, certLost>>
      BY <3>1 DEF Posting
    <3>2. CASE refused' = refused \cup {f} /\ certLost' = (certLost \/ f = "crt")
      BY <3>2, Zenon DEF Posting
    <3> QED
      BY <2>1, <3>1, <3>2 DEF StoreResource
  <2>4. pc' \notin ScriptSteps \cup FileSteps
    BY <2>1 DEF ThenAt
  <2>5. pc' # "down" /\ f # "crt" => "crt" \in stored \cup refused
    BY <2>1 DEF Posting, PostAt
  <2>6. pc' # "down" => "crt" \in stored' \cup refused'
    BY <2>2, <2>5
  <2> QED
    BY <2>3, <2>4, <2>6, <2>7 DEF Posting
<1>3. CASE Start
  BY <1>3 DEF Start, Posting
<1>4. CASE PostRedirect
  BY <1>4 DEF PostRedirect, Posting, Stop
<1>5. CASE Prepare \/ OwnerIsUp \/ Configure
  BY <1>5 DEF Prepare, OwnerIsUp, Configure, Stop, Posting, service, history
<1>6. CASE Fatal
  BY <1>6 DEF Fatal, Stop, Posting, service
<1>7. CASE Trust \/ Try \/ GiveUp \/ Listen \/ Crash
  BY <1>7 DEF Trust, Try, GiveUp, Listen, Crash, Stop, Posting, service, history
<1>8. ASSUME NEW f \in Files, ReadFails(f)
      PROVE  Posting'
  BY <1>8 DEF ReadFails, Stop, Posting, service
<1>9. CASE Hang \/ UNCHANGED vars
  BY <1>9 DEF Hang, vars, Posting, service, history
<1> QED
  BY <1>1, <1>2, <1>3, <1>4, <1>5, <1>6, <1>7, <1>8, <1>9, NextCases

\* What the Owner Service stored in this start is what is in the directory.
THEOREM StoredHolds == Spec => []StoredIsTheFile
<1>1. Init => StartupTypeOK /\ NoCertNoWrite /\ Posting
  BY InitType DEF Init, Posting, ScriptSteps, FileSteps
<1>2. StartupTypeOK /\ NoCertNoWrite /\ Posting /\ [Next]_vars => (StartupTypeOK /\ NoCertNoWrite /\ Posting)'
  BY NextType, NextPosting
<1>3. Posting => StoredIsTheFile
  BY DEF Posting, StoredIsTheFile
<1> QED
  BY <1>1, <1>2, <1>3, PTL DEF Spec

----------------------------------------------------------------------------
\* The steps of main that come after the post of each file.
AfterPost == [crt     |-> {"postCfg", "postWrapper", "trust", "verify", "listen", "serving"},
              cfg     |-> {"postWrapper", "trust", "verify", "listen", "serving"},
              wrapper |-> {"trust", "verify", "listen", "serving"}]

\* No post is left out: main passes each of them or ends.
Offered == \A f \in Files : pc \in AfterPost[f] => f \in stored \cup refused

LEMMA NextOffered == StartupTypeOK /\ Offered /\ [Next]_vars => Offered'
<1> SUFFICES ASSUME Offered, [Next]_vars, NEW f \in Files, pc' \in AfterPost[f]
             PROVE  f \in stored' \cup refused'
  BY DEF Offered
<1> USE DEF AfterPost, Files
<1>1. ASSUME pc \in AfterPost[f], stored \subseteq stored', refused \subseteq refused'
      PROVE  f \in stored' \cup refused'
  BY <1>1 DEF Offered
<1>2. ASSUME NEW g \in Files, Post(g)
      PROVE  f \in stored' \cup refused'
  <2>1. /\ g \in stored' \cup refused'
        /\ stored \subseteq stored' /\ refused \subseteq refused'
    BY <1>2 DEF Post, StoreResource
  <2>2. pc \in AfterPost[f] \/ f = g
    BY <1>2 DEF Post, PostAt, ThenAt, Stop
  <2> QED
    BY <1>1, <2>1, <2>2
<1>3. ASSUME Trust \/ Try \/ Listen \/ Hang \/ UNCHANGED vars
      PROVE  pc \in AfterPost[f] /\ UNCHANGED <<stored, refused>>
  BY <1>3 DEF Trust, Try, Listen, Hang, Stop, vars, history
<1>4. ~(Start \/ Prepare \/ OwnerIsUp \/ Configure \/ Fatal \/ PostRedirect \/ GiveUp \/ Crash)
  BY DEF Start, Prepare, OwnerIsUp, Configure, Fatal, PostRedirect, GiveUp, Crash, Stop
<1>5. ~\E g \in Files : Open(g) \/ Write(g) \/ ReadFails(g)
  BY DEF Open, Write, ReadFails, Stop, OpenAt, WriteAt, NextAt
<1> QED
  BY <1>1, <1>2, <1>3, <1>4, <1>5, NextCases

\* A running server's devices are given its own settings, from the environment over the
\* directory to the Owner Service, for any sequence of starts.
THEOREM DevicesGetTheirs == Spec => []DevicesGetThisStart
<1> DEFINE Inv == StartupTypeOK /\ NoCertNoWrite /\ FilesAreOfThisStart /\ Posting /\ Offered
<1>1. Init => Inv
  BY InitType DEF Init, FilesAreOfThisStart, After, AfterCrt, AfterCfg, AfterWrapper, Files,
                  Posting, ScriptSteps, FileSteps, Offered, AfterPost
<1>2. Inv /\ [Next]_vars => Inv'
  BY NextType, NextFiles, NextPosting, NextOffered
<1>3. Inv => DevicesGetThisStart
  BY DEF DevicesGetThisStart, Posting, Offered, AfterPost, FilesAreOfThisStart, After, AfterCrt,
         AfterCfg, AfterWrapper, Files
<1> QED
  BY <1>1, <1>2, <1>3, PTL DEF Spec

----------------------------------------------------------------------------
(***************************************************************************)
(* A start is a sequence of posts to the others.                           *)
(***************************************************************************)
Seen == pc \in AfterWrapper

LEMMA Stages == DOMAIN StageAt = AfterWrapper /\ "down" \notin AfterWrapper
BY DEF StageAt, AfterWrapper

\* What nobody sees: everything before the first post, and what does not move main.
LEMMA UnseenStep ==
    ASSUME \/ ~Seen /\ ~Seen'
           \/ Seen /\ pc' \in AfterWrapper /\ StageAt[pc'] = StageAt[pc] /\ stored' = stored
    PROVE  UNCHANGED Coming!vars
BY DEF Seen, Coming!vars

LEMMA NextInSequence ==
    StartupTypeOK /\ Posting /\ [Next]_vars => [Coming!Next]_(Coming!vars)
<1> SUFFICES ASSUME StartupTypeOK, Posting, [Next]_vars PROVE [Coming!Next]_(Coming!vars)
  OBVIOUS
<1> USE DEF StageAt, AfterWrapper
<1>1. CASE pc' = "down"
  BY <1>1 DEF Coming!Next, Coming!End
<1>2. CASE Start \/ ((Prepare \/ OwnerIsUp \/ Configure) /\ pc' # "down")
  BY <1>2, UnseenStep DEF Start, Prepare, OwnerIsUp, Configure, Stop, Seen
<1>3. ASSUME NEW f \in Files, Open(f) \/ Write(f)
      PROVE  [Coming!Next]_(Coming!vars)
  <2>1. CASE pc' = "redirect"
    <3>1. pc = "writeWrapper" /\ stored' = stored
      BY <1>3, <2>1 DEF Open, Write, OpenAt, WriteAt, NextAt, Files, history
    <3>2. stored = {}
      BY <3>1 DEF Posting, FileSteps
    <3> QED
      BY <2>1, <3>1, <3>2 DEF Coming!Next, Coming!Begin
  <2>2. CASE pc' # "redirect"
    BY <1>3, <2>2, UnseenStep DEF Open, Write, OpenAt, WriteAt, NextAt, Files, Seen
  <2> QED
    BY <2>1, <2>2
<1>4. CASE PostRedirect /\ pc' # "down"
  BY <1>4 DEF PostRedirect, Stop, Coming!Next, Coming!Advance, Coming!Then, Coming!Common
<1>5. ASSUME NEW f \in Files, Post(f), pc' # "down"
      PROVE  [Coming!Next]_(Coming!vars)
  <2>1. pc = PostAt[f] /\ pc' = ThenAt[f] /\ stored' \in {stored, stored \cup {f}}
    BY <1>5 DEF Post, Stop, StoreResource
  <2>2. /\ pc \in AfterWrapper /\ pc' \in AfterWrapper
        /\ StageAt[pc] = f /\ StageAt[pc'] = Coming!Then[f]
    BY <2>1 DEF Files, PostAt, ThenAt, Coming!Then
  <2> QED
    BY <2>1, <2>2 DEF Files, Coming!Next, Coming!Advance, Coming!Then, Coming!Common
<1>6. CASE (Trust \/ Try) /\ pc' # "down"
  BY <1>6, UnseenStep DEF Trust, Try, Seen, history
<1>7. CASE Listen /\ pc' # "down"
  BY <1>7 DEF Listen, Stop, Coming!Next, Coming!Advance, Coming!Then, Coming!Common
<1>8. Fatal \/ GiveUp \/ Crash \/ (\E f \in Files : ReadFails(f)) => pc' = "down"
  BY DEF Fatal, GiveUp, Crash, ReadFails, Stop
<1>9. CASE Hang \/ UNCHANGED vars
  BY <1>9 DEF Hang, vars, history, Coming!vars
<1> QED
  BY <1>1, <1>2, <1>3, <1>4, <1>5, <1>6, <1>7, <1>8, <1>9, NextCases

\* Whatever its environment and its image, wherever it fails and however often it tries, a
\* start looks to the others like the sequence of posts of StartSequence.
THEOREM StartImplementsSequence == Spec => StartIsASequence
<1>1. Init => StartupTypeOK /\ NoCertNoWrite /\ Posting /\ Coming!Init
  BY InitType DEF Init, Posting, ScriptSteps, FileSteps, Coming!Init, AfterWrapper
<1>2. StartupTypeOK /\ NoCertNoWrite /\ Posting /\ [Next]_vars => (StartupTypeOK /\ NoCertNoWrite /\ Posting)'
  BY NextType, NextPosting
<1> QED
  BY <1>1, <1>2, NextInSequence, PTL DEF Spec, StartIsASequence, Coming!Spec

----------------------------------------------------------------------------
\* Whatever fails, a start comes closer to the server or to its last attempt with each step:
\* the half of "every start ends" that does not depend on fairness.
THEOREM StartsMoveOn == Spec => StartMovesOn
<1>1. ASSUME StartupTypeOK, [Next]_vars, ~UNCHANGED vars, pc # "down", pc' # "down"
      PROVE  \/ Place[pc] < Place[pc'] /\ tries' = tries
             \/ pc' = pc /\ tries' = tries /\ ~hung /\ hung'
             \/ pc = "verify" /\ pc' = pc /\ tries < tries' /\ tries' <= Retries
  <2> USE DEF Place
  <2>1. CASE Prepare \/ OwnerIsUp \/ Configure \/ PostRedirect
    BY <1>1, <2>1 DEF Prepare, OwnerIsUp, Configure, PostRedirect, Stop
  <2>2. ASSUME NEW f \in Files, Open(f) \/ Write(f)
        PROVE  Place[pc] < Place[pc'] /\ tries' = tries
    BY <2>2 DEF Open, Write, OpenAt, WriteAt, NextAt, Files
  <2>3. ASSUME NEW f \in Files, Post(f)
        PROVE  Place[pc] < Place[pc'] /\ tries' = tries
    BY <1>1, <2>3 DEF Post, Stop, PostAt, ThenAt, Files
  <2>4. CASE Trust \/ Listen
    BY <1>1, <2>4 DEF Trust, Listen, Stop
  <2>5. CASE Try
    BY <1>1, <2>5, BoundsAssumption DEF Try, StartupTypeOK
  <2>7. CASE Hang
    BY <2>7 DEF Hang
  <2>6. ~(Start \/ Fatal \/ GiveUp \/ Crash) /\ ~\E f \in Files : ReadFails(f)
    BY <1>1 DEF Start, Fatal, GiveUp, Crash, ReadFails, Stop
  <2> QED
    BY <1>1, <2>1, <2>2, <2>3, <2>4, <2>5, <2>6, <2>7, NextCases
<1> QED
  BY <1>1, TypeCorrect, PTL DEF Spec, StartMovesOn

----------------------------------------------------------------------------
LEMMA NextNamed ==
    StartupTypeOK /\ NoCertNoWrite /\ FilesAreOfThisStart /\ Posting /\ NamedCertificateExists
        /\ [Next]_vars => NamedCertificateExists'
<1> SUFFICES ASSUME StartupTypeOK, NoCertNoWrite, FilesAreOfThisStart, Posting, NamedCertificateExists, [Next]_vars
             PROVE  NamedCertificateExists'
  OBVIOUS
<1> USE DEF Files
<1>1. ASSUME NEW f \in Files, Open(f)
      PROVE  NamedCertificateExists'
  <2>1. values' = [values EXCEPT ![f] = Empty] /\ UNCHANGED <<owner, certLost>>
    BY <1>1 DEF Open, service, history
  <2>2. NamesCert(values)' => f # "cfg" /\ NamesCert(values)
    BY <2>1 DEF NamesCert, StartupTypeOK, Absent
  <2>3. values'["crt"] = values["crt"] \/ values'["crt"] = Empty
    BY <2>1 DEF StartupTypeOK
  <2>4. NamesCert(owner)' = NamesCert(owner)
    BY <2>1 DEF NamesCert
  <2> QED
    BY <2>1, <2>2, <2>3, <2>4, NoFileAssumption DEF NamedCertificateExists
<1>2. ASSUME NEW f \in Files, Write(f)
      PROVE  NamedCertificateExists'
  <2>1. /\ pc = WriteAt[f] /\ values' = [values EXCEPT ![f] = Text(f)]
        /\ UNCHANGED <<owner, certLost>>
    BY <1>2 DEF Write, service, history
  <2>2. NamesCert(owner)' = NamesCert(owner)
    BY <2>1 DEF NamesCert
  <2>3. ASSUME NamesCert(values)'
        PROVE  values'["crt"] # NoFile
    <3>1. CASE f = "crt"
      <4>1. env.cert # NoCert
        BY <2>1, <3>1 DEF WriteAt, NoCertNoWrite
      <4>2. Text("crt") # NoFile
        BY <4>1, TextType DEF Absent
      <4> QED
        BY <2>1, <3>1, <4>2 DEF StartupTypeOK
    <3>2. CASE f = "cfg"
      <4>1. values'["cfg"] = Cfg /\ values'["crt"] = values["crt"]
        BY <2>1, <3>2 DEF Text, StartupTypeOK
      <4>2. env.cert # NoCert
        <5>1. Cfg.named = (env.cert # NoCert)
          BY DEF Cfg
        <5>2. values'["cfg"].named
          BY <2>3 DEF NamesCert
        <5> QED
          BY <4>1, <5>1, <5>2
      <4>3. values["crt"] = Text("crt")
        BY <2>1, <3>2, <4>2 DEF FilesAreOfThisStart, WriteAt, After, AfterCrt
      <4>4. Text("crt") # NoFile
        BY <4>2, TextType DEF Absent
      <4> QED
        BY <4>1, <4>3, <4>4
    <3>3. CASE f = "wrapper"
      <4>1. values'["cfg"] = values["cfg"] /\ values'["crt"] = values["crt"]
        BY <2>1, <3>3 DEF StartupTypeOK
      <4> QED
        BY <2>3, <4>1 DEF NamesCert, NamedCertificateExists
    <3> QED
      BY <3>1, <3>2, <3>3
  <2> QED
    BY <2>1, <2>2, <2>3 DEF NamedCertificateExists
<1>3. ASSUME NEW f \in Files, Post(f)
      PROVE  NamedCertificateExists'
  <2>1. /\ pc = PostAt[f] /\ values' = values /\ values[f] # NoFile
        /\ StoreResource(f)
    BY <1>3 DEF Post
  <2>2. CASE owner' = [owner EXCEPT ![f] = values[f]] /\ certLost' = certLost
    <3>1. CASE f = "cfg"
      <4>1. owner'["cfg"] = values["cfg"] /\ owner'["crt"] = owner["crt"]
        BY <2>2, <3>1 DEF StartupTypeOK
      <4>2. "crt" \in stored \cup refused
        BY <2>1, <3>1 DEF PostAt, Posting
      <4>3. owner["crt"] # NoFile \/ certLost
        BY <4>2 DEF Posting
      <4> QED
        BY <2>1, <2>2, <4>1, <4>3 DEF NamedCertificateExists, NamesCert
    <3>2. CASE f # "cfg"
      <4>1. owner'["cfg"] = owner["cfg"]
        BY <2>2, <3>2 DEF StartupTypeOK
      <4>2. owner'["crt"] = owner["crt"] \/ owner'["crt"] # NoFile
        BY <2>1, <2>2 DEF StartupTypeOK
      <4> QED
        BY <2>1, <2>2, <4>1, <4>2 DEF NamedCertificateExists, NamesCert
    <3> QED
      BY <3>1, <3>2
  <2>3. CASE owner' = owner /\ (certLost => certLost')
    BY <2>1, <2>3 DEF NamedCertificateExists, NamesCert
  <2> QED
    BY <2>1, <2>2, <2>3 DEF StoreResource
<1>4. ASSUME \/ Prepare \/ OwnerIsUp \/ Configure \/ Fatal \/ PostRedirect
             \/ Trust \/ Try \/ GiveUp \/ Listen \/ Hang \/ Crash
             \/ \E f \in Files : ReadFails(f)
             \/ UNCHANGED vars
      PROVE  UNCHANGED <<values, owner, certLost>>
  BY <1>4 DEF Prepare, OwnerIsUp, Configure, Fatal, PostRedirect, Trust, Try, GiveUp, Listen, Hang,
              Crash, ReadFails, vars, service, history
<1>5. CASE UNCHANGED <<values, owner, certLost>>
  BY <1>5 DEF NamedCertificateExists, NamesCert
<1>6. CASE Start
  <2>1. values' \in {values, NoValues} /\ UNCHANGED <<owner, certLost>>
    BY <1>6 DEF Start, Restart, Replace, service
  <2>2. ~NamesCert(NoValues)
    BY DEF NamesCert, NoValues, Absent
  <2> QED
    BY <2>1, <2>2 DEF NamedCertificateExists, NamesCert
<1> QED
  BY <1>1, <1>2, <1>3, <1>4, <1>5, <1>6, NextCases

\* A cfg that tells a device to use a certificate file comes with that file.
THEOREM NamedHolds == Spec => []NamedCertificateExists
<1> DEFINE Inv == /\ StartupTypeOK /\ NoCertNoWrite /\ FilesAreOfThisStart
                  /\ Posting /\ NamedCertificateExists
<1>1. Init => Inv
  BY InitType DEF Init, FilesAreOfThisStart, After, AfterCrt, AfterCfg, AfterWrapper, Files,
                  Posting, ScriptSteps, FileSteps, NamedCertificateExists, NamesCert, Absent
<1>2. Inv /\ [Next]_vars => Inv'
  BY NextType, NextFiles, NextPosting, NextNamed
<1> QED
  BY <1>1, <1>2, PTL DEF Spec
=============================================================================
