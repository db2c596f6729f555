------------------------------ MODULE Storage ------------------------------
(***************************************************************************)
(* What the lamp keeps in flash: its seed, and the SSID, password and pin  *)
(* code a phone gave it, each in a file of its own (components/storage/    *)
(* storage.c; app_main and the end of network_task in main/vetta_main.c;   *)
(* provision_listen of components/network/wifi_provision.c).  The power    *)
(* may fail at any step.                                                   *)
(*                                                                         *)
(* Abstractions.  A value is the number of the provisioning, or of the     *)
(* generated seed, that it came from.  SPIFFS is external: fopen "w"       *)
(* empties the file, the bytes reach the flash when it is closed, and a    *)
(* file in flash is whole or empty.  A partition that cannot be mounted is *)
(* formatted (storage.c:15) and the call goes on; one that was mounted and *)
(* then not looked at stays registered, which no later mount accepts.  The *)
(* rest of the network: NetworkLifecycle.                                  *)
(***************************************************************************)
EXTENDS Naturals

CONSTANTS
    None,        \* no file; in RAM, nothing read or received yet
    Empty,       \* a file of length 0
    MaxValue,    \* bound on provisionings, and on generated seeds
    MaxRestarts, \* bound on power failures
    MaxFaults,   \* bound on mounts and file system calls that fail
    LossyClose   \* fclose may lose what was written (nobody looks at it)

ASSUME ContentAssumption == None \notin Nat /\ Empty \notin Nat /\ None # Empty
ASSUME BoundAssumption ==
    /\ MaxValue \in Nat /\ MaxRestarts \in Nat /\ MaxFaults \in Nat
    /\ LossyClose \in BOOLEAN

VARIABLES
    file,       \* content of each file in flash
    ram,        \* lampSeed, ussid, upwd, pinCode
    ap_credentials_available,
    networkTask,  \* the network task has been created
    task,       \* "boot", "run" or "save"
    cur,        \* the file being read or written
    stage,      \* what is done to it next
    registered, \* init_spiffs failed after the partition was mounted
    lastValue,  \* number of the last provisioning
    lastSeed,   \* number of the last seed drawn
    saved,      \* history: what RAM holds was reported as saved
    replaced,   \* history: provisioned while flash held a pin code
    identity,   \* history: the seed the lamp first ran with
    seedLost,   \* history: the seed's file was formatted away, never written
                \* by its close, or discarded after a failed read
    restarts, faults  \* what is used up of the bounds

ramVars == <<ram, ap_credentials_available, networkTask>>
pcVars == <<task, cur, stage>>
historyVars == <<saved, replaced, identity, seedLost>>
vars == <<file, ramVars, pcVars, registered, lastValue, lastSeed, historyVars,
          restarts, faults>>

-----------------------------------------------------------------------------
File == {"seed", "ssid", "pwd", "pin"}
Credential == File \ {"seed"}
Value == 1 .. MaxValue

(* Boot and save go through the files in this order.                       *)
Following == [seed |-> "ssid", ssid |-> "pwd", pwd |-> "pin", pin |-> "pin"]

(* The static data of the program, and app_main about to get the seed.     *)
Booted ==
    /\ ram' = [f \in File |-> None]
    /\ ap_credentials_available' = FALSE
    /\ networkTask' = FALSE
    /\ task' = "boot" /\ cur' = "seed" /\ stage' = "mount"
    /\ registered' = FALSE
    /\ saved' = FALSE

Init ==
    /\ file = [f \in File |-> None]
    /\ ram = [f \in File |-> None]
    /\ ap_credentials_available = FALSE
    /\ networkTask = FALSE
    /\ task = "boot" /\ cur = "seed" /\ stage = "mount"
    /\ registered = FALSE
    /\ lastValue = 0
    /\ lastSeed = 0
    /\ saved = FALSE
    /\ replaced = FALSE
    /\ identity = None
    /\ seedLost = FALSE
    /\ restarts = 0
    /\ faults = 0

Fault == faults < MaxFaults /\ faults' = faults + 1
NoFault == UNCHANGED faults

(* Power failure and restart.                                              *)
Restart ==
    /\ restarts < MaxRestarts
    /\ restarts' = restarts + 1
    /\ Booted
    /\ UNCHANGED <<file, lastValue, lastSeed, replaced, identity, seedLost,
                   faults>>

-----------------------------------------------------------------------------
(* A step of the boot ends: the next file is got, or the lamp runs.        *)
ReadNext(f) ==
    IF f = "pin" THEN task' = "run" /\ UNCHANGED <<cur, stage>>
    ELSE task' = "boot" /\ cur' = Following[f] /\ stage' = "mount"

GiveUpBoot == task' = "run" /\ UNCHANGED <<cur, stage>>

At(t, s) == task = t /\ stage = s

(* A file without content does not read as a value.                        *)
ReadsIfThere(f) == file[f] # None  \* mutant: the length is not looked at
Reads(f) == file[f] \notin {None, Empty}

(* Mutant: the save goes on with the next file.                            *)
SaveGoesOn ==
    /\ task' = IF cur = "pin" THEN "run" ELSE task
    /\ cur' = Following[cur] /\ stage' = "mount"
    /\ UNCHANGED <<ramVars, saved, identity>>

(* The save ends: the next operand of the && chain is not evaluated.       *)
SaveFails ==
    /\ task' = "run"
    /\ UNCHANGED <<cur, stage, ramVars, saved, identity>>

(* Without its seed the lamp reads the credentials all the same, but no    *)
(* network task will use them; without a credential it reads no other.     *)
GetFails ==
    /\ IF cur = "seed" THEN ReadNext(cur) ELSE GiveUpBoot
    /\ UNCHANGED <<ramVars, saved, identity>>

-----------------------------------------------------------------------------
(* init_spiffs, which every get_ and save_ function begins with.           *)

Keep == UNCHANGED <<file, seedLost>>
Format ==
    /\ file' = [f \in File |-> None]
    /\ seedLost' = (seedLost \/ Reads("seed"))

(* What cannot be mounted is formatted, and mounted then.                  *)
Mount ==
    /\ task # "run" /\ stage = "mount"
    /\ ~registered
    /\ stage' = IF task = "boot" THEN "read" ELSE "open"
    /\ (Keep /\ NoFault) \/ (Format /\ Fault)
    /\ UNCHANGED <<ramVars, task, cur, registered, lastValue, lastSeed,
                   saved, replaced, identity, restarts>>

(* Formatting fails, or esp_spiffs_info does; or it did before.            *)
MountFails ==
    /\ task # "run" /\ stage = "mount"
    /\ \/ registered /\ Keep /\ NoFault /\ UNCHANGED registered
       \/ ~registered /\ (Keep \/ Format) /\ Fault /\ registered' \in BOOLEAN
    /\ IF task = "boot" THEN GetFails ELSE SaveFails
    /\ UNCHANGED <<lastValue, lastSeed, replaced, restarts>>

-----------------------------------------------------------------------------
(* Reading.                                                                *)

(* The network task starts with the seed; the lamp is known by it.         *)
RunWith(seed) ==
    /\ ram' = [ram EXCEPT !["seed"] = seed]
    /\ networkTask' = TRUE
    /\ identity' = IF identity = None THEN seed ELSE identity
    /\ UNCHANGED ap_credentials_available

WithoutFile(f) == [file EXCEPT ![f] = None]

(* read_lamp_seed: a seed that cannot be read will be drawn; the file is   *)
(* removed when it was opened.                                             *)
ReadSeed ==
    /\ At("boot", "read") /\ cur = "seed"
    /\ \/ /\ Reads("seed") /\ RunWith(file["seed"]) /\ ReadNext("seed")
          /\ Keep /\ NoFault
       \/ /\ ~Reads("seed") /\ file' = WithoutFile("seed")
          /\ stage' = "draw"
          /\ NoFault /\ UNCHANGED <<ramVars, task, cur, identity, seedLost>>
       \/ /\ Fault
          /\ \/ Keep
             \/ /\ file' = WithoutFile("seed")
                /\ seedLost' = (seedLost \/ Reads("seed"))
          /\ stage' = "draw"
          /\ UNCHANGED <<ramVars, task, cur, identity>>
    /\ UNCHANGED <<registered, lastValue, lastSeed, saved, replaced, restarts>>

(* gen_lamp_seed draws a seed and goes on to write it, or gets no number.  *)
DrawSeed ==
    /\ At("boot", "draw")
    /\ \/ /\ lastSeed < MaxValue /\ lastSeed' = lastSeed + 1
          /\ stage' = "open"
          /\ NoFault /\ UNCHANGED <<ramVars, task, cur, saved, identity>>
       \/ GetFails /\ Fault /\ UNCHANGED lastSeed
    /\ UNCHANGED <<file, registered, lastValue, replaced, seedLost, restarts>>

ReadCredential ==
    /\ At("boot", "read") /\ cur # "seed"
    /\ IF Reads(cur)
       THEN /\ ram' = [ram EXCEPT ![cur] = file[cur]]
            /\ ap_credentials_available' = (cur = "pin")
            /\ ReadNext(cur)
            /\ UNCHANGED file
       ELSE /\ GiveUpBoot
            /\ file' = IF cur = "pin" THEN WithoutFile("pin") ELSE file
            /\ UNCHANGED <<ram, ap_credentials_available>>
    /\ UNCHANGED <<networkTask, registered, lastValue, lastSeed,
                   historyVars, restarts, faults>>

(* An fopen or an fread fails; after an fread the pin code is removed.     *)
ReadFault ==
    /\ At("boot", "read") /\ cur # "seed"
    /\ Fault
    /\ GiveUpBoot
    /\ \/ UNCHANGED file
       \/ cur = "pin" /\ file' = WithoutFile("pin")
    /\ UNCHANGED <<ramVars, registered, lastValue, lastSeed, historyVars,
                   restarts>>

-----------------------------------------------------------------------------
(* The lamp runs.  When a phone can reach it, NetworkLifecycle says; here  *)
(* it may whenever there is a network task.                                *)

(* The packet has a new SSID and a new password.  (An empty string never   *)
(* gets here: the decoder refuses it, see Codec.)                          *)
Received(n, pin) ==
    ram' = [ram EXCEPT !["ssid"] = n, !["pwd"] = n, !["pin"] = pin]

Provision ==
    /\ task = "run"
    /\ networkTask
    /\ lastValue < MaxValue
    /\ lastValue' = lastValue + 1
    /\ Received(lastValue + 1, lastValue + 1)
    /\ task' = "save" /\ cur' = "ssid" /\ stage' = "mount"
    /\ saved' = FALSE
    /\ replaced' = (replaced \/ Reads("pin"))
    /\ UNCHANGED <<file, ap_credentials_available, networkTask, registered,
                   lastSeed, identity, seedLost, restarts, faults>>

(* The pin code is missing or too small: by then the strings are copied.   *)
RefuseProvision ==
    /\ task = "run"
    /\ networkTask
    /\ lastValue < MaxValue
    /\ lastValue' = lastValue + 1
    /\ Received(lastValue + 1, ram["pin"])
    /\ saved' = FALSE
    /\ UNCHANGED <<file, ap_credentials_available, networkTask, pcVars,
                   registered, lastSeed, replaced, identity, seedLost,
                   restarts, faults>>

-----------------------------------------------------------------------------
(* Writing cur: write_spiffs_string, write_pin_code and gen_lamp_seed.     *)

Content == IF cur = "seed" THEN lastSeed ELSE ram[cur]

(* gen_lamp_seed hands out its seed.                                       *)
SeedMade == RunWith(lastSeed) /\ ReadNext("seed") /\ UNCHANGED saved

(* cur is written and closed, or so it is reported.                        *)
WriteOk ==
    IF task = "boot" THEN SeedMade
    ELSE /\ saved' = (cur = "pin")
         /\ ap_credentials_available' =
                (ap_credentials_available \/ cur = "pin")
         /\ task' = IF cur = "pin" THEN "run" ELSE "save"
         /\ cur' = Following[cur]
         /\ stage' = "mount"
         /\ UNCHANGED <<ram, networkTask, identity>>

(* Mutant: gen_lamp_seed hands out a seed that it could not write.         *)
WriteFailsUnseen == IF task = "boot" THEN SeedMade ELSE SaveFails

(* gen_lamp_seed fails: there is no network task.                          *)
WriteFails == IF task = "boot" THEN GetFails ELSE SaveFails

Writing(s) == task \in {"boot", "save"} /\ stage = s
WriteStep == UNCHANGED <<ramVars, task, cur, saved, identity>>
Rest == <<registered, lastValue, lastSeed, replaced, restarts>>

Open ==
    /\ Writing("open")
    /\ WriteStep
    /\ stage' = "write"
    /\ file' = [file EXCEPT ![cur] = Empty]
    /\ seedLost' = (seedLost \/ (cur = "seed" /\ Reads("seed")))
    /\ NoFault
    /\ UNCHANGED Rest

(* No file to write to: save_pin_code returns the result of the mount.     *)
OpenFails ==
    /\ Writing("open")
    /\ Fault
    /\ IF cur = "pin" THEN WriteOk ELSE WriteFails
    /\ Keep
    /\ UNCHANGED Rest

Write ==
    /\ Writing("write")
    /\ \/ stage' = "close" /\ NoFault
       \/ stage' = "unlink" /\ Fault
    /\ WriteStep
    /\ Keep
    /\ UNCHANGED Rest

Close ==
    /\ Writing("close")
    /\ \/ /\ file' = [file EXCEPT ![cur] = Content]
          /\ UNCHANGED <<seedLost, faults>>
       \/ /\ LossyClose /\ Fault
          /\ seedLost' = (seedLost \/ cur = "seed")
          /\ UNCHANGED file
    /\ WriteOk
    /\ UNCHANGED Rest

(* A short write removes the file; save_pin_code reports success.          *)
Unlink ==
    /\ Writing("unlink")
    /\ file' = WithoutFile(cur)
    /\ IF cur = "pin" THEN WriteOk ELSE WriteFails
    /\ NoFault
    /\ UNCHANGED <<Rest, seedLost>>

Get ==
    \/ Mount
    \/ MountFails
    \/ ReadSeed
    \/ DrawSeed
    \/ ReadCredential
    \/ ReadFault
Run == Provision \/ RefuseProvision
Save == Open \/ OpenFails \/ Write \/ Close \/ Unlink

Next == Get \/ Run \/ Save \/ Restart

Spec == Init /\ [][Next]_vars

-----------------------------------------------------------------------------
(* Type invariant.                                                         *)
TypeOK ==
    /\ file \in [File -> Value \cup {None, Empty}]
    /\ ram \in [File -> Value \cup {None}]
    /\ ap_credentials_available \in BOOLEAN
    /\ networkTask \in BOOLEAN
    /\ task \in {"boot", "run", "save"}
    /\ cur \in File
    /\ stage \in {"mount", "read", "draw", "open", "write", "close", "unlink"}
    /\ registered \in BOOLEAN
    /\ lastValue \in 0 .. MaxValue
    /\ lastSeed \in 0 .. MaxValue
    /\ saved \in BOOLEAN
    /\ replaced \in BOOLEAN
    /\ identity \in Value \cup {None}
    /\ seedLost \in BOOLEAN
    /\ restarts \in 0 .. MaxRestarts
    /\ faults \in 0 .. MaxFaults

(* What the next boot can load.                                            *)
Loadable == \A f \in Credential : Reads(f)

(* Credentials of two provisionings meet in flash, for the next boot to    *)
(* load, only if the lamp was provisioned while flash still held a pin     *)
(* code.  Before that, wherever the power fails, a write is short, a close *)
(* writes nothing or a mount formats what was saved, the files are those   *)
(* of one provisioning or too few: the pin code is saved last.             *)
MixedOnlyByReplacement ==
    (Loadable /\ ~replaced) => \A f, g \in Credential : file[f] = file[g]

(* Whatever failed, no file is newer than one that is saved before it: the *)
(* lamp may boot with an old password for a new SSID, never the reverse.   *)
SavedInOrder ==
    Loadable => file["ssid"] >= file["pwd"] /\ file["pwd"] >= file["pin"]

(* A lamp that ran once keeps its seed, wherever the power fails and       *)
(* whatever else does, unless its file was lost: a mount formatted it, the *)
(* close that should have written it did not, or a read of it failed and   *)
(* it was removed or written anew.                                         *)
SeedNeverChanges == (networkTask /\ ~seedLost) => ram["seed"] = identity

(* All that provisioning reports as saved is in flash (vetta_main.c checks *)
(* save_pin_code for ESP_OK before it says so).                            *)
PinStored == saved => file["pin"] = ram["pin"]
=============================================================================
