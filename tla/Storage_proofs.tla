--------------------------- MODULE Storage_proofs ---------------------------
(***************************************************************************)
(* Proofs about Storage, for any number of provisionings, power failures   *)
(* and failed calls.                                                       *)
(*                                                                         *)
(* None of the properties is inductive: what a power failure leaves in     *)
(* flash depends on where in a save it strikes.  SeedInv follows the seed  *)
(* from its drawing to its file, FileInv a save from file to file.         *)
(***************************************************************************)
EXTENDS Storage, TLAPS

(* f is saved before g.                                                    *)
Earlier(f, g) == \/ f = "ssid" /\ g \in {"pwd", "pin"}
                 \/ f = "pwd" /\ g = "pin"

(* A seed is written for a lamp that never ran, or whose seed is lost.     *)
SeedWriting ==
    task = "boot" /\ stage \notin {"mount", "read"} =>
        /\ cur = "seed"
        /\ stage # "draw" => lastSeed # 0
        /\ stage \notin {"draw", "open"} /\ ~seedLost => identity = None

(* The seed the lamp first ran with is in its file.                        *)
SeedOnFile == ~seedLost => identity \in {None, file["seed"]}

SeedInv == SeedWriting /\ SeedOnFile /\ SeedNeverChanges

(* No file is newer than the last provisioning.                            *)
NoneNewer == \A f \in Credential : Reads(f) => file[f] <= lastValue

(* SavedInOrder, for any two of the files that are there.                  *)
InOrder ==
    \A f, g \in Credential :
        Earlier(f, g) /\ Reads(f) /\ Reads(g) => file[f] >= file[g]

(* A save writes the last provisioning.                                    *)
SaveIsLast ==
    task = "save" =>
        /\ cur \in Credential
        /\ lastValue # 0
        /\ \A f \in Credential : ram[f] = lastValue

(* What flash has of the files before the one a save is at, it wrote.      *)
EarlierSaved ==
    task = "save" =>
        \A f \in Credential :
            Earlier(f, cur) /\ Reads(f) => file[f] = lastValue

(* fopen has emptied the file that is being written.                       *)
OpenedIsEmpty ==
    task = "save" /\ stage \notin {"mount", "open"} => ~Reads(cur)

(* A pin code in flash was the last of a whole save: what there is of the  *)
(* other files is of the same provisioning.                                *)
PinLast ==
    ~replaced /\ Reads("pin") =>
        /\ task # "save"
        /\ \A f \in Credential : Reads(f) => file[f] = file["pin"]

FileInv ==
    /\ NoneNewer /\ InOrder /\ PinLast
    /\ SaveIsLast /\ EarlierSaved /\ OpenedIsEmpty

(* The inductive invariant.                                                *)
IInv == TypeOK /\ SeedInv /\ FileInv

-----------------------------------------------------------------------------
(***************************************************************************)
(* Type correctness.  What a save or a generated seed puts in a file is a  *)
(* value only because of SeedWriting and SaveIsLast.                       *)
(***************************************************************************)
(* A flag that stays, or becomes TRUE or FALSE, is still a flag.           *)
LEMMA FlagType ==
    \A v, w : v \in BOOLEAN /\ (w = v \/ w = TRUE \/ w = FALSE)
                  => w \in BOOLEAN
BY Zenon

(* No step does anything else to the flags.                                *)
LEMMA FlagsMove ==
    ASSUME [Next]_vars
    PROVE  /\ \/ UNCHANGED ap_credentials_available
              \/ ap_credentials_available' = TRUE
              \/ ap_credentials_available' = FALSE
           /\ \/ UNCHANGED networkTask
              \/ networkTask' = TRUE \/ networkTask' = FALSE
           /\ UNCHANGED saved \/ saved' = TRUE \/ saved' = FALSE
           /\ UNCHANGED replaced \/ replaced' = TRUE \/ replaced' = FALSE
           /\ UNCHANGED registered \/ registered' = TRUE \/ registered' = FALSE
           /\ UNCHANGED seedLost \/ seedLost' = TRUE \/ seedLost' = FALSE
<1> USE DEF ramVars, pcVars, historyVars, RunWith, Keep, Format
<1>1. CASE ReadSeed \/ DrawSeed
    BY <1>1 DEF ReadSeed, DrawSeed, GetFails
<1>2. CASE ReadFault \/ ReadCredential
    BY <1>2 DEF ReadFault, ReadCredential
<1>3. CASE Run
    BY <1>3 DEF Run, Provision, RefuseProvision
<1>4. CASE Open \/ Write
    BY <1>4 DEF Open, Write, WriteStep, Rest
<1>5. CASE OpenFails \/ Close \/ Unlink
    BY <1>5
    DEF OpenFails, Close, Unlink, WriteOk, SeedMade, WriteFails, GetFails,
        SaveFails, Rest
<1>6. CASE Restart
    BY <1>6 DEF Restart, Booted
<1>7. CASE UNCHANGED vars
    BY <1>7 DEF vars
<1>8. CASE Mount
    BY <1>8 DEF Mount
<1>9. CASE MountFails
    BY <1>9 DEF MountFails, GetFails, SaveFails
<1> QED
    BY <1>1, <1>2, <1>3, <1>4, <1>5, <1>6, <1>7, <1>8, <1>9, Zenon
    DEF Next, Get, Save

(* So they keep their type.                                                *)
LEMMA FlagsStep ==
    ASSUME TypeOK, [Next]_vars
    PROVE  /\ ap_credentials_available' \in BOOLEAN /\ networkTask' \in BOOLEAN
           /\ saved' \in BOOLEAN /\ replaced' \in BOOLEAN
           /\ registered' \in BOOLEAN /\ seedLost' \in BOOLEAN
BY FlagsMove, FlagType, Zenon DEF TypeOK

(* After any file comes a credential.                                      *)
LEMMA FollowingIs == \A f \in File : Following[f] \in Credential
BY DEF Following, File, Credential

(* What is about to be written is a value.                                 *)
LEMMA WritingContent ==
    ASSUME TypeOK, SeedWriting, SaveIsLast,
           NEW s \in {"open", "write", "close", "unlink"}, Writing(s)
    PROVE  /\ cur \in File /\ Content \in Value
           /\ task = "boot" => cur = "seed" /\ lastSeed \in Value
<1> lastSeed \in Nat /\ lastValue \in Nat
    BY DEF TypeOK
<1>1. CASE task = "boot"
    BY <1>1 DEF Writing, SeedWriting, TypeOK, Content, Value
<1>2. CASE task = "save"
    BY <1>2 DEF SaveIsLast, TypeOK, Content, Value, Credential
<1> QED  BY <1>1, <1>2 DEF Writing

(* However the writing of a file ends, RAM and identity hold values.       *)
LEMMA WriteEndContent ==
    ASSUME TypeOK, task = "boot" => lastSeed \in Value, WriteOk \/ WriteFails
    PROVE  /\ ram' \in [File -> Value \cup {None}]
           /\ identity' \in Value \cup {None}
<1> "seed" \in File
    BY DEF File
<1> QED
    BY DEF TypeOK, WriteOk, SeedMade, WriteFails, GetFails, SaveFails, RunWith,
        ramVars

(* Files, RAM and identity hold values after any step.                     *)
LEMMA ContentStep ==
    ASSUME TypeOK, SeedWriting, SaveIsLast, [Next]_vars
    PROVE  /\ file' \in [File -> Value \cup {None, Empty}]
           /\ ram' \in [File -> Value \cup {None}]
           /\ identity' \in Value \cup {None}
<1> USE DEF ramVars, pcVars, historyVars
<1> "seed" \in File /\ Credential \subseteq File
    BY DEF File, Credential
<1>1. lastSeed \in Nat /\ lastValue \in Nat
    BY DEF TypeOK
<1>2. CASE ReadSeed
    BY <1>2 DEF TypeOK, ReadSeed, Reads, RunWith, WithoutFile, Keep
<1>3. CASE DrawSeed \/ ReadFault
    BY <1>3 DEF TypeOK, DrawSeed, GetFails, ReadFault, WithoutFile
<1>4. CASE ReadCredential
    BY <1>4 DEF TypeOK, ReadCredential, Reads, WithoutFile
<1>5. CASE Run
    BY <1>5, BoundAssumption
    DEF Run, TypeOK, Provision, RefuseProvision, Received, Value
<1>6. CASE Open \/ Write
    BY <1>6 DEF TypeOK, Open, Write, WriteStep, Rest, Keep
<1>7. CASE OpenFails
  <2>1. UNCHANGED file /\ Writing("open") /\ (WriteOk \/ WriteFails)
      BY <1>7 DEF OpenFails, Keep
  <2> QED  BY <2>1, WritingContent, WriteEndContent DEF TypeOK
<1>8. CASE Close
  <2>1. /\ Writing("close") /\ WriteOk
        /\ file' = [file EXCEPT ![cur] = Content] \/ UNCHANGED file
      BY <1>8 DEF Close
  <2> QED  BY <2>1, WritingContent, WriteEndContent DEF TypeOK
<1>9. CASE Unlink
  <2>1. /\ Writing("unlink") /\ (WriteOk \/ WriteFails)
        /\ file' = [file EXCEPT ![cur] = None]
      BY <1>9 DEF Unlink, WithoutFile
  <2> QED  BY <2>1, WritingContent, WriteEndContent DEF TypeOK
<1>10. CASE Restart \/ UNCHANGED vars
    BY <1>10 DEF TypeOK, Restart, Booted, vars
<1>11. CASE Mount \/ MountFails
    BY <1>11 DEF TypeOK, Mount, MountFails, GetFails, SaveFails, Keep, Format
<1> QED
    BY <1>2, <1>3, <1>4, <1>5, <1>6, <1>7, <1>8, <1>9, <1>10, <1>11
    DEF Next, Get, Save

(* The counters stay within their bounds.                                  *)
LEMMA NumberStep ==
    ASSUME TypeOK, [Next]_vars
    PROVE  /\ lastValue' \in 0 .. MaxValue /\ lastSeed' \in 0 .. MaxValue
           /\ restarts' \in 0 .. MaxRestarts /\ faults' \in 0 .. MaxFaults
<1> USE BoundAssumption
DEF TypeOK, ramVars, pcVars, historyVars, Fault, NoFault
<1>1. CASE ReadSeed \/ DrawSeed
    BY <1>1 DEF ReadSeed, DrawSeed
<1>2. CASE ReadFault \/ ReadCredential
    BY <1>2 DEF ReadFault, ReadCredential
<1>3. CASE Run
    BY <1>3 DEF Run, Provision, RefuseProvision
<1>4. CASE Open \/ Write
    BY <1>4 DEF Open, Write, WriteStep, Rest
<1>5. CASE OpenFails \/ Close \/ Unlink
    BY <1>5 DEF OpenFails, Close, Unlink, Rest
<1>6. CASE Restart
    BY <1>6 DEF Restart, Booted
<1>7. CASE UNCHANGED vars
    BY <1>7 DEF vars
<1>8. CASE Mount \/ MountFails
    BY <1>8 DEF Mount, MountFails
<1> QED
    BY <1>1, <1>2, <1>3, <1>4, <1>5, <1>6, <1>7, <1>8 DEF Next, Get, Save

(* So does the place in the code.                                          *)
LEMMA PlaceStep ==
    ASSUME TypeOK, [Next]_vars
    PROVE  /\ task' \in {"boot", "run", "save"}
           /\ cur' \in File
           /\ stage' \in {"mount", "read", "draw",
                          "open", "write", "close", "unlink"}
<1> USE FollowingIs
DEF TypeOK, ramVars, pcVars, historyVars, ReadNext, GiveUpBoot
<1> "seed" \in File /\ "ssid" \in File /\ Credential \subseteq File
    BY DEF File, Credential
<1>1. CASE ReadSeed \/ DrawSeed
    BY <1>1 DEF ReadSeed, DrawSeed, GetFails
<1>2. CASE ReadFault \/ ReadCredential
    BY <1>2 DEF ReadFault, ReadCredential
<1>3. CASE Run
    BY <1>3 DEF Run, Provision, RefuseProvision
<1>4. CASE Open \/ Write
    BY <1>4 DEF Open, Write, WriteStep, Rest
<1>5. CASE OpenFails \/ Close \/ Unlink
    BY <1>5
    DEF OpenFails, Close, Unlink, WriteOk, SeedMade, WriteFails, GetFails,
        SaveFails, Rest
<1>6. CASE Restart
    BY <1>6 DEF Restart, Booted
<1>7. CASE UNCHANGED vars
    BY <1>7 DEF vars
<1>8. CASE Mount \/ MountFails
    BY <1>8 DEF Mount, MountFails, GetFails, SaveFails
<1> QED
    BY <1>1, <1>2, <1>3, <1>4, <1>5, <1>6, <1>7, <1>8 DEF Next, Get, Save

(* The type invariant is kept, given the two facts about saving.           *)
LEMMA TypeStep == TypeOK /\ SeedWriting /\ SaveIsLast /\ [Next]_vars => TypeOK'
BY FlagsStep, ContentStep, NumberStep, PlaceStep DEF TypeOK

-----------------------------------------------------------------------------
(***************************************************************************)
(* The seed.                                                               *)
(***************************************************************************)
(* A step that has nothing to do with the seed, but may format the         *)
(* partition it is in.                                                     *)
SeedUntouched ==
    /\ Format \/ (file'["seed"] = file["seed"] /\ UNCHANGED seedLost)
    /\ ram'["seed"] = ram["seed"]
    /\ UNCHANGED <<identity, networkTask, lastSeed>>
    /\ task' = "boot" => stage' \in {"mount", "read"}

(* A seed that is not in its file never ran, or is lost.                   *)
LEMMA NeverRan ==
    ASSUME TypeOK, SeedOnFile, ~Reads("seed"), ~seedLost
    PROVE  identity = None
BY ContentAssumption DEF TypeOK, SeedOnFile, Reads, Value

(* Such a step keeps what is known of the seed.                            *)
LEMMA UntouchedKeeps ==
    ASSUME TypeOK, SeedInv, SeedUntouched
    PROVE  SeedInv'
<1>1. CASE Format
  <2>1. ~seedLost' => ~seedLost /\ ~Reads("seed")
      BY <1>1 DEF Format, TypeOK
  <2>2. ~seedLost' => identity' = None
      BY <2>1, NeverRan DEF SeedInv, SeedUntouched
  <2> QED
      BY <2>1, <2>2
      DEF SeedInv, SeedWriting, SeedOnFile, SeedNeverChanges, SeedUntouched
<1>2. CASE file'["seed"] = file["seed"] /\ UNCHANGED seedLost
    BY <1>2
    DEF SeedInv, SeedWriting, SeedOnFile, SeedNeverChanges, SeedUntouched
<1> QED  BY <1>1, <1>2 DEF SeedUntouched

(* What the type invariant says about the variables of the seed.           *)
LEMMA TypesOfSeed ==
    ASSUME TypeOK
    PROVE  /\ file = [f \in File |-> file[f]] /\ ram = [f \in File |-> ram[f]]
           /\ "seed" \in File
           /\ identity # None => identity \in Value
           /\ lastSeed \in Nat
BY DEF TypeOK, File

(* Provisioning and its save leave the seed alone.                         *)
LEMMA OtherFiles ==
    ASSUME TypeOK, SaveIsLast, task \in {"run", "save"},
           Run \/ (Save /\ task = "save")
    PROVE  SeedUntouched
<1> USE DEF ramVars, pcVars, historyVars, SeedUntouched, Keep
<1>1. /\ file = [f \in File |-> file[f]] /\ ram = [f \in File |-> ram[f]]
      /\ "seed" \in File
    BY TypesOfSeed
<1>a. task = "save" => cur # "seed" /\ cur \in File
    BY DEF SaveIsLast, Credential
<1>b. task = "save" =>
          /\ (seedLost \/ cur = "seed") = seedLost
          /\ (seedLost \/ (cur = "seed" /\ Reads("seed"))) = seedLost
    BY <1>a DEF TypeOK
<1>2. CASE Provision
    BY <1>1, <1>2 DEF Provision, Received
<1>3. CASE RefuseProvision
    BY <1>1, <1>3 DEF RefuseProvision, Received
<1>4. CASE task = "save" /\ Open
    BY <1>1, <1>a, <1>b, <1>4 DEF Open, WriteStep, Rest
<1>5. CASE task = "save" /\ OpenFails
    BY <1>1, <1>a, <1>5
    DEF OpenFails, WriteOk, SeedMade, WriteFails, SaveFails, Rest
<1>6. CASE task = "save" /\ Write
    BY <1>1, <1>a, <1>6 DEF Write, WriteStep, Rest
<1>7. CASE task = "save" /\ Close
    BY <1>1, <1>a, <1>b, <1>7 DEF Close, WriteOk, SeedMade, Rest
<1>8. CASE task = "save" /\ Unlink
    BY <1>1, <1>a, <1>8
    DEF Unlink, WriteOk, SeedMade, WriteFails, SaveFails, Rest, WithoutFile
<1> QED  BY <1>2, <1>3, <1>4, <1>5, <1>6, <1>7, <1>8 DEF Run, Save

(* So do mounts, and the rest of the boot.                                 *)
LEMMA OtherReads ==
    ASSUME TypeOK, Mount \/ MountFails \/ ReadFault \/ ReadCredential
    PROVE  SeedUntouched
<1> USE DEF ramVars, pcVars, historyVars, SeedUntouched, ReadNext, GiveUpBoot,
    At
<1>1. /\ file = [f \in File |-> file[f]] /\ ram = [f \in File |-> ram[f]]
      /\ "seed" \in File /\ "pin" \in File /\ cur \in File
    BY DEF TypeOK, File
<1>2. CASE Mount
    BY <1>2 DEF Mount, Keep
<1>3. CASE MountFails
    BY <1>3 DEF MountFails, GetFails, SaveFails, Keep
<1>4. CASE ReadFault
    BY <1>1, <1>4 DEF ReadFault, WithoutFile
<1>5. CASE ReadCredential
    BY <1>1, <1>5 DEF ReadCredential, WithoutFile
<1> QED  BY <1>2, <1>3, <1>4, <1>5

(* Reading the seed: one that was read is in its file, and one that could  *)
(* not be read and is no longer there was never used, or is lost.          *)
LEMMA ReadSeedStep ==
    ASSUME TypeOK, SeedInv, ReadSeed
    PROVE  SeedInv'
<1>1. /\ file = [f \in File |-> file[f]] /\ ram = [f \in File |-> ram[f]]
      /\ "seed" \in File /\ cur = "seed"
    BY TypesOfSeed DEF ReadSeed
<1>2. CASE /\ Reads("seed") /\ RunWith(file["seed"]) /\ ReadNext("seed")
           /\ Keep
  <2>1. /\ ram'["seed"] = file["seed"] /\ stage' = "mount"
        /\ UNCHANGED <<file, seedLost>>
        /\ identity' = IF identity = None THEN file["seed"] ELSE identity
      BY <1>1, <1>2 DEF RunWith, ReadNext, Keep
  <2> QED
      BY <2>1 DEF SeedInv, SeedWriting, SeedOnFile, SeedNeverChanges
<1>3. CASE /\ stage' = "draw" /\ UNCHANGED <<ramVars, cur, identity>>
           /\ \/ Keep
              \/ seedLost' = (seedLost \/ Reads("seed"))
  <2>1. UNCHANGED <<ram, networkTask, cur, identity>>
      BY <1>3 DEF ramVars
  <2>2. SeedOnFile'
    <3>1. CASE Keep
        BY <2>1, <3>1 DEF Keep, SeedInv, SeedOnFile
    <3>2. CASE seedLost' = (seedLost \/ Reads("seed"))
      <4>1. ~seedLost' => ~seedLost /\ ~Reads("seed")
          BY <3>2 DEF TypeOK
      <4> QED  BY <2>1, <4>1, NeverRan DEF SeedInv, SeedOnFile
    <3> QED  BY <1>3, <3>1, <3>2
  <2>3. ~seedLost' => ~seedLost
      BY <1>3 DEF Keep, TypeOK
  <2> QED
      BY <1>1, <1>3, <2>1, <2>2, <2>3
      DEF SeedInv, SeedWriting, SeedNeverChanges
<1>4. ~Reads("seed") /\ UNCHANGED seedLost =>
          seedLost' = (seedLost \/ Reads("seed"))
    BY DEF TypeOK
<1> QED  BY <1>2, <1>3, <1>4 DEF ReadSeed

(* Drawing a seed changes nothing that is known of the one before.         *)
LEMMA DrawSeedStep ==
    ASSUME TypeOK, SeedInv, DrawSeed
    PROVE  SeedInv'
<1>1. /\ UNCHANGED <<file, ram, networkTask, identity, seedLost>>
      /\ cur = "seed"
    BY DEF DrawSeed, At, GetFails, SeedInv, SeedWriting, ramVars
<1>2. \/ stage' = "open" /\ cur' = cur /\ lastSeed' # 0
      \/ stage' = "mount"
    BY <1>1, TypesOfSeed DEF DrawSeed, GetFails, ReadNext
<1> QED
    BY <1>1, <1>2 DEF SeedInv, SeedWriting, SeedOnFile, SeedNeverChanges

(* Writing the seed: the lamp never ran with another, or that is lost when *)
(* its file is opened for the new one.                                     *)
LEMMA WriteSeedStep ==
    ASSUME TypeOK, SeedInv, task = "boot", Save
    PROVE  SeedInv'
<1> USE DEF ramVars, pcVars, historyVars
<1>1. /\ file = [f \in File |-> file[f]] /\ ram = [f \in File |-> ram[f]]
      /\ "seed" \in File /\ lastSeed \in Nat
    BY TypesOfSeed
<1>2. stage \in {"open", "write", "close", "unlink"}
    BY DEF Save, Open, OpenFails, Write, Close, Unlink, Writing
<1>3. /\ cur = "seed" /\ lastSeed # 0
      /\ stage # "open" /\ ~seedLost => identity = None
    BY <1>2 DEF SeedInv, SeedWriting
<1>4. CASE Open
  <2>1. /\ UNCHANGED <<ram, networkTask, cur, task, identity, lastSeed>>
        /\ seedLost' = (seedLost \/ Reads("seed"))
      BY <1>3, <1>4 DEF Open, WriteStep, Rest
  <2>2. ~seedLost' => ~seedLost /\ identity = None
      BY <2>1, NeverRan DEF SeedInv, TypeOK
  <2> QED
     BY <1>3, <2>1, <2>2 DEF SeedInv, SeedWriting, SeedOnFile, SeedNeverChanges
<1>5. CASE Write
  <2>1. /\ UNCHANGED <<file, ram, networkTask, cur, task, identity, seedLost,
                       lastSeed>>
        /\ stage # "open"
      BY <1>5 DEF Write, Writing, WriteStep, Rest, Keep
  <2> QED
     BY <1>3, <2>1 DEF SeedInv, SeedWriting, SeedOnFile, SeedNeverChanges
<1>6. CASE OpenFails
  <2>1. GetFails /\ Keep /\ UNCHANGED lastSeed
      BY <1>3, <1>6 DEF OpenFails, WriteFails, Rest
  <2> QED
     BY <1>3, <2>1
     DEF GetFails, ReadNext, Keep, SeedInv, SeedWriting, SeedOnFile,
         SeedNeverChanges
<1>7. CASE Unlink
  <2>1. GetFails /\ UNCHANGED <<seedLost, lastSeed>> /\ stage # "open"
      BY <1>3, <1>7 DEF Unlink, Writing, WriteFails, Rest
  <2> QED
     BY <1>3, <2>1
     DEF GetFails, ReadNext, SeedInv, SeedWriting, SeedOnFile, SeedNeverChanges
<1>8. CASE Close
  <2>1. /\ \/ file'["seed"] = lastSeed /\ UNCHANGED seedLost
           \/ seedLost' = TRUE
        /\ RunWith(lastSeed) /\ ReadNext("seed") /\ stage # "open"
      BY <1>1, <1>3, <1>8, Zenon
      DEF Close, Writing, WriteOk, SeedMade, Content, TypeOK
  <2>2. /\ ram'["seed"] = lastSeed /\ stage' = "mount"
        /\ identity' = IF identity = None THEN lastSeed ELSE identity
      BY <1>1, <2>1 DEF RunWith, ReadNext
  <2> QED
     BY <1>3, <2>1, <2>2 DEF SeedInv, SeedWriting, SeedOnFile, SeedNeverChanges
<1> QED  BY <1>4, <1>5, <1>6, <1>7, <1>8 DEF Save

(* Every step keeps what is known of the seed.                             *)
LEMMA SeedStep ==
    ASSUME TypeOK, SeedInv, SaveIsLast, [Next]_vars
    PROVE  SeedInv'
<1>1. CASE ReadSeed
    BY <1>1, ReadSeedStep
<1>2. CASE Mount \/ MountFails \/ ReadFault \/ ReadCredential
    BY <1>2, OtherReads, UntouchedKeeps
<1>3. CASE Run
  <2>1. task = "run"
    BY <1>3 DEF Run, Provision, RefuseProvision
  <2> QED  BY <1>3, <2>1, OtherFiles, UntouchedKeeps
<1>4. CASE Save /\ task = "boot"
    BY <1>4, WriteSeedStep
<1>5. CASE Save /\ task # "boot"
  <2>1. task = "save"
    BY <1>5 DEF Save, Open, OpenFails, Write, Close, Unlink, Writing
  <2> QED  BY <1>5, <2>1, OtherFiles, UntouchedKeeps
<1>6. CASE Restart
    BY <1>6
    DEF Restart, Booted, SeedInv, SeedWriting, SeedOnFile, SeedNeverChanges
<1>7. CASE UNCHANGED vars
    BY <1>7
    DEF vars, ramVars, pcVars, historyVars, SeedInv, SeedWriting, SeedOnFile,
        SeedNeverChanges
<1>8. CASE DrawSeed
    BY <1>8, DrawSeedStep
<1> QED
    BY <1>1, <1>2, <1>3, <1>4, <1>5, <1>6, <1>7, <1>8 DEF Next, Get

-----------------------------------------------------------------------------
(***************************************************************************)
(* The three credentials.                                                  *)
(***************************************************************************)
(* What the type invariant says about the files and their numbers.         *)
LEMMA NumbersInFiles ==
    ASSUME TypeOK
    PROVE  /\ file = [f \in File |-> file[f]] /\ ram = [f \in File |-> ram[f]]
           /\ Credential \subseteq File
           /\ "seed" \notin Credential /\ "seed" \in File
           /\ \A f \in File : Reads(f) => file[f] \in Nat
           /\ lastValue \in Nat
BY DEF TypeOK, File, Credential, Reads, Value

(* A step that writes no credential: of those in flash it may remove any,  *)
(* the failed mount of a save among them.                                  *)
NothingSaved ==
    /\ UNCHANGED <<lastValue, replaced>>
    /\ \A f \in Credential : file'[f] \in {file[f], None}
    /\ \/ task' # "save"
       \/ task = "save" /\ stage' = "open" /\ UNCHANGED <<ram, task, cur>>

(* Such a step keeps what is known of the files.                           *)
LEMMA NothingSavedKeeps ==
    ASSUME FileInv, NothingSaved
    PROVE  FileInv'
<1>1. \A f \in Credential : Reads(f)' => Reads(f) /\ file'[f] = file[f]
    BY DEF NothingSaved, Reads
<1>2. NoneNewer' /\ InOrder'
    BY <1>1 DEF FileInv, NoneNewer, InOrder, NothingSaved
<1>3. SaveIsLast' /\ EarlierSaved' /\ OpenedIsEmpty'
    BY <1>1 DEF FileInv, NothingSaved, SaveIsLast, EarlierSaved, OpenedIsEmpty
<1>4. PinLast'
    BY <1>1 DEF FileInv, NothingSaved, PinLast, Credential, File
<1> QED  BY <1>2, <1>3, <1>4 DEF FileInv

(* Mounts, the boot, the writing of a seed, and a power failure are such   *)
(* steps.                                                                  *)
LEMMA BootSavesNothing ==
    ASSUME TypeOK, SeedWriting,
           Get \/ Restart \/ (UNCHANGED vars /\ task # "save")
           \/ (Save /\ task = "boot")
    PROVE  NothingSaved
<1> USE DEF ramVars, pcVars, historyVars, NothingSaved, ReadNext, GiveUpBoot,
    At, Keep, WithoutFile
<1>1. /\ file = [f \in File |-> file[f]] /\ "pin" \in File
      /\ Credential \subseteq File /\ "seed" \notin Credential
      /\ task \in {"boot", "run", "save"}
    BY NumbersInFiles DEF File, TypeOK
<1>2. CASE ReadSeed
    BY <1>1, <1>2 DEF ReadSeed
<1>3. CASE DrawSeed
    BY <1>3 DEF DrawSeed, GetFails
<1>4. CASE ReadFault
    BY <1>1, <1>4 DEF ReadFault
<1>5. CASE ReadCredential
    BY <1>1, <1>5 DEF ReadCredential
<1>6. CASE Save /\ task = "boot"
  <2>1. cur = "seed"
    BY <1>6
    DEF Save, Open, OpenFails, Write, Close, Unlink, Writing, SeedWriting
  <2>2. CASE Open
     BY <1>1, <1>6, <2>1, <2>2 DEF Open, WriteStep, Rest
  <2>3. CASE OpenFails
     BY <1>1, <1>6, <2>1, <2>3 DEF OpenFails, WriteFails, GetFails, Rest
  <2>4. CASE Write
     BY <1>1, <1>6, <2>1, <2>4 DEF Write, WriteStep, Rest
  <2>5. CASE Close
     BY <1>1, <1>6, <2>1, <2>5 DEF Close, WriteOk, SeedMade, Rest
  <2>6. CASE Unlink
     BY <1>1, <1>6, <2>1, <2>6 DEF Unlink, WriteFails, GetFails, Rest
  <2> QED  BY <1>6, <2>2, <2>3, <2>4, <2>5, <2>6 DEF Save
<1>7. CASE Restart
    BY <1>7 DEF Restart, Booted
<1>8. CASE UNCHANGED vars /\ task # "save"
    BY <1>8 DEF vars
<1>9. CASE Mount
    BY <1>1, <1>9 DEF Mount, Format
<1>10. CASE MountFails
    BY <1>1, <1>10 DEF MountFails, GetFails, SaveFails, Format
<1> QED
    BY <1>2, <1>3, <1>4, <1>5, <1>6, <1>7, <1>8, <1>9, <1>10 DEF Get

(* A provisioning is newer than every file, and starts with the SSID.      *)
LEMMA RunStep ==
    ASSUME TypeOK, FileInv, Run
    PROVE  FileInv'
<1>1. /\ ram = [f \in File |-> ram[f]]
      /\ Credential = {"ssid", "pwd", "pin"} /\ Credential \subseteq File
      /\ \A f \in File : Reads(f) => file[f] \in Nat
      /\ lastValue \in Nat
    BY NumbersInFiles DEF Credential, File
<1>2. UNCHANGED file /\ lastValue' = lastValue + 1 /\ task = "run"
    BY DEF Run, Provision, RefuseProvision
<1>3. NoneNewer' /\ InOrder'
    BY <1>1, <1>2 DEF FileInv, NoneNewer, InOrder, Reads
<1>4. CASE Provision
  <2>1. /\ task' = "save" /\ cur' = "ssid" /\ stage' = "mount"
        /\ \A f \in Credential : ram'[f] = lastValue'
      BY <1>1, <1>4 DEF Provision, Received
  <2>2. SaveIsLast' /\ EarlierSaved' /\ OpenedIsEmpty'
      BY <1>1, <1>2, <2>1 DEF SaveIsLast, EarlierSaved, OpenedIsEmpty, Earlier
  <2>3. ~replaced' => ~Reads("pin")
      BY <1>4, Zenon DEF Provision
  <2>4. PinLast'
      BY <1>2, <2>3 DEF PinLast, Reads
  <2> QED  BY <1>3, <2>2, <2>4 DEF FileInv
<1>5. CASE RefuseProvision
  <2>1. task' # "save" /\ UNCHANGED replaced
      BY <1>2, <1>5 DEF RefuseProvision, pcVars
  <2> QED
      BY <1>2, <1>3, <2>1
      DEF FileInv, SaveIsLast, EarlierSaved, OpenedIsEmpty, PinLast, Reads
<1> QED  BY <1>4, <1>5 DEF Run

(* A step of a save does one of three things to the file it is at: it goes *)
(* on with it, ends the save without it, or is done with it, be it written *)
(* or lost.                                                                *)
Stays == task' = "save" /\ cur' = cur /\ ~Reads(cur)'
EndsUnwritten == task' = "run" /\ file'[cur] \in {file[cur], None}
Done ==
    /\ task' = IF cur = "pin" THEN "run" ELSE "save"
    /\ cur' = Following[cur] /\ stage' = "mount"
    /\ file'[cur] \in {lastValue, None, Empty}
SaveMoves ==
    /\ \A f \in Credential \ {cur} : file'[f] = file[f]
    /\ \A f \in Credential : ram'[f] = ram[f]
    /\ UNCHANGED <<lastValue, replaced>>
    /\ Stays \/ EndsUnwritten \/ Done

(* Whatever fails, a save that has mounted its file does nothing else.     *)
LEMMA SavingMoves ==
    ASSUME TypeOK, FileInv, Save, task = "save"
    PROVE  SaveMoves
<1> USE DEF ramVars, pcVars, historyVars, SaveMoves, Keep, WithoutFile
<1>1. /\ file = [f \in File |-> file[f]]
      /\ Credential \subseteq File
      /\ cur \in Credential /\ cur # "seed" /\ ram[cur] = lastValue
    BY NumbersInFiles DEF FileInv, SaveIsLast
<1>2. CASE Open
     BY <1>1, <1>2 DEF Open, WriteStep, Rest, Stays, Reads
<1>3. CASE OpenFails
     BY <1>1, <1>3
     DEF OpenFails, WriteFails, WriteOk, SeedMade, SaveFails, Rest,
         EndsUnwritten
<1>4. CASE Write
     BY <1>1, <1>4
     DEF Write, WriteStep, Writing, Rest, Stays, Reads, FileInv, OpenedIsEmpty
<1>5. CASE Close
  <2>1. file[cur] \in {None, Empty}
     BY <1>5 DEF Close, Writing, FileInv, OpenedIsEmpty, Reads
  <2> QED
     BY <1>1, <1>5, <2>1 DEF Close, WriteOk, SeedMade, Rest, Content, Done
<1>6. CASE Unlink
     BY <1>1, <1>6
     DEF Unlink, WriteFails, WriteOk, SeedMade, SaveFails, Rest, EndsUnwritten
<1> QED  BY <1>2, <1>3, <1>4, <1>5, <1>6 DEF Save

(* So a save keeps what is known of the files.                             *)
LEMMA SaveStep ==
    ASSUME TypeOK, FileInv, Save, task = "save"
    PROVE  FileInv'
<1>1. /\ file = [f \in File |-> file[f]]
      /\ \A f \in File : Reads(f) => file[f] \in Nat
      /\ lastValue \in Nat
      /\ Credential = {"ssid", "pwd", "pin"} /\ Credential \subseteq File
      /\ cur \in Credential /\ lastValue # 0
      /\ \A f \in Credential : ram[f] = lastValue
    BY NumbersInFiles DEF FileInv, SaveIsLast, File, Credential
<1>2. SaveMoves
    BY SavingMoves
<1>3. \A f \in Credential :
         Reads(f)' => \/ file'[f] = lastValue
                      \/ Reads(f) /\ file'[f] = file[f]
    BY <1>1, <1>2 DEF SaveMoves, Stays, EndsUnwritten, Done, Reads
<1>4. NoneNewer'
    BY <1>1, <1>2, <1>3 DEF SaveMoves, FileInv, NoneNewer
<1>5. InOrder'
  <2> SUFFICES ASSUME NEW f \in Credential, NEW g \in Credential,
                      Earlier(f, g), Reads(f)', Reads(g)'
               PROVE  file'[f] >= file'[g]
      BY DEF InOrder, Earlier
  <2>1. file'[g] \in Nat /\ file'[g] <= lastValue
      BY <1>1, <1>3 DEF FileInv, NoneNewer
  <2>2. CASE file'[f] = lastValue
      BY <1>1, <2>1, <2>2
  <2>3. CASE /\ Reads(f) /\ file'[f] = file[f]
             /\ Reads(g) /\ file'[g] = file[g]
      BY <2>3 DEF FileInv, InOrder
  <2>4. CASE Reads(f) /\ file'[f] = file[f] /\ file'[g] = lastValue
    <3>1. CASE cur = g
        BY <1>1, <2>4, <3>1 DEF FileInv, EarlierSaved
    <3>2. CASE cur # g
        BY <1>1, <1>2, <2>4, <3>2 DEF SaveMoves, FileInv, InOrder, Reads
    <3> QED  BY <3>1, <3>2
  <2> QED  BY <1>3, <2>2, <2>3, <2>4
<1>6. SaveIsLast'
    BY <1>1, <1>2
    DEF SaveMoves, Stays, EndsUnwritten, Done, Following, SaveIsLast
<1>7. EarlierSaved'
  <2>1. \A f \in Credential : Earlier(f, cur) => file'[f] = file[f]
    BY <1>2 DEF SaveMoves, Earlier
  <2>2. lastValue' = lastValue
    BY <1>2 DEF SaveMoves
  <2>3. CASE Stays
      BY <2>1, <2>2, <2>3 DEF Stays, FileInv, EarlierSaved, Reads
  <2>4. CASE EndsUnwritten
      BY <2>4 DEF EndsUnwritten, EarlierSaved
  <2>5. CASE Done
    <3>1. \A f \in Credential :
             Earlier(f, Following[cur]) /\ cur # "pin"
                 => f = cur \/ Earlier(f, cur)
      BY <1>1 DEF Following, Earlier
    <3>2. task' = "save" => cur # "pin" /\ cur' = Following[cur]
      BY <2>5 DEF Done
    <3>3. file'[cur] \notin {None, Empty} => file'[cur] = lastValue
      BY <2>5 DEF Done
    <3> QED
        BY <2>1, <2>2, <3>1, <3>2, <3>3 DEF FileInv, EarlierSaved, Reads
  <2> QED  BY <1>2, <2>3, <2>4, <2>5 DEF SaveMoves
<1>8. OpenedIsEmpty'
    BY <1>2 DEF SaveMoves, Stays, EndsUnwritten, Done, OpenedIsEmpty
<1>9. PinLast'
  <2> SUFFICES ASSUME ~replaced', Reads("pin")'
               PROVE  /\ task' # "save"
                      /\ \A f \in Credential :
                             Reads(f)' => file'[f] = file'["pin"]
      BY DEF PinLast
  <2>1. ~Reads("pin")
      BY <1>2 DEF SaveMoves, FileInv, PinLast
  <2>2. cur = "pin" /\ Done /\ file'["pin"] = lastValue
      BY <1>1, <1>2, <2>1 DEF SaveMoves, Stays, EndsUnwritten, Done, Reads
  <2>3. \A f \in Credential : Reads(f)' => file'[f] = lastValue
      BY <1>1, <1>2, <2>2 DEF SaveMoves, FileInv, EarlierSaved, Earlier, Reads
  <2> QED  BY <2>2, <2>3 DEF Done
<1> QED  BY <1>4, <1>5, <1>6, <1>7, <1>8, <1>9 DEF FileInv

(* And so does every step.                                                 *)
LEMMA FileStep ==
    ASSUME TypeOK, SeedWriting, FileInv, [Next]_vars
    PROVE  FileInv'
<1>1. CASE \/ Get \/ Restart \/ (UNCHANGED vars /\ task # "save")
           \/ Save /\ task = "boot"
    BY <1>1, BootSavesNothing, NothingSavedKeeps
<1>2. CASE Run
    BY <1>2, RunStep
<1>3. CASE Save /\ task = "save"
    BY <1>3, SaveStep
<1>4. CASE UNCHANGED vars
    BY <1>4
    DEF vars, ramVars, pcVars, historyVars, FileInv, NoneNewer, InOrder,
        SaveIsLast, EarlierSaved, OpenedIsEmpty, PinLast, Reads
<1>5. Save => task \in {"boot", "save"}
    BY DEF Save, Open, OpenFails, Write, Close, Unlink, Writing
<1> QED  BY <1>1, <1>2, <1>3, <1>4, <1>5 DEF Next

-----------------------------------------------------------------------------
(***************************************************************************)
(* The invariant, and the theorems.                                        *)
(***************************************************************************)
(* A new lamp: no file, nothing read, the seed about to be.                *)
LEMMA InitIInv == Init => IInv
<1> SUFFICES ASSUME Init
             PROVE  IInv
    OBVIOUS
<1>1. TypeOK
  <2>1. /\ ap_credentials_available \in BOOLEAN /\ networkTask \in BOOLEAN
        /\ saved \in BOOLEAN /\ replaced \in BOOLEAN
        /\ registered \in BOOLEAN /\ seedLost \in BOOLEAN
      BY Zenon DEF Init
  <2>2. /\ file \in [File -> Value \cup {None, Empty}]
        /\ ram \in [File -> Value \cup {None}]
        /\ identity \in Value \cup {None}
      BY DEF Init
  <2>3. /\ lastValue \in 0 .. MaxValue /\ lastSeed \in 0 .. MaxValue
        /\ restarts \in 0 .. MaxRestarts /\ faults \in 0 .. MaxFaults
      BY BoundAssumption DEF Init
  <2>4. /\ task \in {"boot", "run", "save"} /\ cur \in File
        /\ stage \in {"mount", "read", "draw",
                      "open", "write", "close", "unlink"}
      BY DEF Init, File
  <2> QED  BY <2>1, <2>2, <2>3, <2>4 DEF TypeOK
<1>2. SeedInv
    BY DEF Init, SeedInv, SeedWriting, SeedOnFile, SeedNeverChanges
<1>3. FileInv
    BY DEF Init, FileInv, NoneNewer, InOrder, SaveIsLast, EarlierSaved,
        OpenedIsEmpty, PinLast, Reads, File, Credential
<1> QED  BY <1>1, <1>2, <1>3 DEF IInv

(* Every step keeps the invariant.                                         *)
LEMMA StepIInv == IInv /\ [Next]_vars => IInv'
BY TypeStep, SeedStep, FileStep DEF IInv, SeedInv, FileInv

(* The invariant holds of every state of the lamp.                         *)
LEMMA Invariance == Spec => []IInv
BY InitIInv, StepIInv, PTL DEF Spec

(* Type correctness: files and variables hold values, and the code is at   *)
(* one of its places (storage.c, app_main).                                *)
THEOREM TypeCorrect == Spec => []TypeOK
<1>1. IInv => TypeOK
    BY DEF IInv
<1> QED  BY <1>1, Invariance, PTL

(* However often the power fails, and whatever call does, a lamp that ran  *)
(* once runs with the same seed (get_lamp_seed), unless a mount formatted  *)
(* the seed's file, the close that should have written it did not, or a    *)
(* failed read made the lamp remove it or write another over it.           *)
THEOREM SeedNeverChangesHolds == Spec => []SeedNeverChanges
<1>1. IInv => SeedNeverChanges
    BY DEF IInv, SeedInv
<1> QED  BY <1>1, Invariance, PTL

(* A complete set in flash has no file newer than one saved before it      *)
(* (the && chain at the end of network_task): an old password for a new    *)
(* SSID, never the reverse.                                                *)
THEOREM SavedInOrderHolds == Spec => []SavedInOrder
<1>1. IInv => SavedInOrder
    BY DEF IInv, FileInv, InOrder, Earlier, SavedInOrder, Loadable, Reads,
        File, Credential
<1> QED  BY <1>1, Invariance, PTL

(* Credentials of two provisionings meet in flash only on a lamp that was  *)
(* provisioned while flash held a pin code, whatever was formatted, lost   *)
(* or cut short on the way.                                                *)
THEOREM MixedOnlyByReplacementHolds == Spec => []MixedOnlyByReplacement
<1>1. IInv => MixedOnlyByReplacement
    BY DEF IInv, FileInv, PinLast, MixedOnlyByReplacement, Loadable, File,
        Credential
<1> QED  BY <1>1, Invariance, PTL
=============================================================================
