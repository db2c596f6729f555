# Verification of the vetta-esp8266 firmware

TLA+ models of the lamp firmware in `vetta-esp8266/` (ESP8266, FreeRTOS), the
TLC runs that check them and the proofs that TLAPS checks. Paths below are
relative to `vetta-esp8266/`, and `vetta_main.c` is `main/vetta_main.c`.

## The system

The firmware is four FreeRTOS tasks, the SDK's event task and one interrupt.
They talk through task notifications (a word of bits per task: posting an event
that is already pending has no effect, and a task takes all bits at once), two
binary semaphores, and plain global variables.

| Component | State | Operations | Talks to |
|---|---|---|---|
| LED task (`led_updater_task`, `led.c`), priority 7 | duty cycle, current animation, `is_playing` | set a duty, next duty, play an animation | ends animations on `ledStopSem`, reports the end on `ledAnimationSem` |
| Sensor task (`capacitive_sensor_task`, `touch.c`), priority 7 | pool of samples, running total, idle value, debounce | read, calibrate, detect | posts `LED_NEXT`; `cap_sensor_active` is written by others |
| Button task and interrupt (`push_button.c`), priority 6 | `is_pressed`, `start` | measure a press | posts blink, `SHUTDOWN`, `START_AP`; reads three flags |
| Network task (`network_task`), priority 5 | provisioning, working and connected flags | serve five events; discovery, listener, provisioning | posts to itself and to the LED, stops animations |
| Event handler (`wifi_event_handler`, SDK task) | retries, `ip_info` | join, leave, start, disconnect, address | posts to the network task; opens the servers; sleeps inside the handler |
| WiFi manager (`wifi_manager.c`) | `is_initialized`, `current_mode` | init as AP or station, deinit | the SDK |
| Provisioning (`wifi_provision.c`) | one UDP socket | open, close, take a packet | writes the credentials in RAM |
| Discovery (`discovery.c`), listener (`listener.c`) | server sockets, client, TLS session | open, close, answer, take commands, ping | called by the network task |
| Storage (`storage.c`) | four files | get, save, generate the seed | `app_main`, network task |
| Boot (`app_main`) | none of its own | create the tasks, read the flash | first `START_STA` |
| Packet codec (`dynamic-bits/`), packet table (`packets.c`) | packet registry | encode, decode | discovery, listener, provisioning |

What is hard in it:

* **Lost notifications.** Both big tasks serve one event of what they take with
  an else-if chain and drop the others.
* **Sleeping handlers.** The event handler and the button task wait inside their
  handlers, and act afterwards on what was true before.
* **Flags without locks** read by one task and written by two others, right (if
  they are) because of the priorities.
* **Partial failure** in `init_wifi`, `deinit_wifi`, opening the servers, taking a
  provisioning packet and saving three files; power failures; and a flash partition
  that is formatted when it cannot be mounted, before any of those files.
* **Clients that leave** in the backlog, in the handshake, between two reads or
  without a word, and a status flag that discovery reads one turn later.
* **Calls that need not return**: `SSL_accept` and `SSL_read` wait for a broker
  without a timeout, in the task that serves all network events.
* **Arithmetic at the edge**: a loop that runs one step past its buffer, a counter
  that passes -1, a clock that wraps, a sum that is never recomputed, a bit offset
  that may stand on the size of its buffer, lengths that count from one.

`PROJECT.json` lists these hazards line by line with the properties about each.

What makes each component correct: a stop ends the animation it was meant for and
nothing else; a shutdown, a phone or a start request is not lost; provisioning
lives within the access point; WiFi, servers and sensor come back; average and
debounce are right whatever readings fail; a press is not taken for a longer one;
power may fail at any step of a save, and the lamp then boots with the credentials of
one provisioning, unless it was provisioned over a pin code that flash still held, and
never with a newer password for an older SSID; the lamp has one client, says it is free
only when it is, and lets go of a client that is gone; a packet that was sent is read
as it was written.

## Modules

| Module | Models | State and actions |
|---|---|---|
| `StopRequest` | what `stop_led_animation` promises | `playing`, `request`; Start, End, Ask, Return |
| `Connectivity` | what the WiFi promises those outside | `air`, `working`, `provisioning`; Start, Stop, BeginProvisioning, EndProvisioning |
| `LedAnimation` | LED task, stop handshake, those who post LED events | a step per semaphore call or delay: `ServeDuty`, `ServeBlink`, `StartDelayOver`, `EndDelayOver`, `PlayedOut`, `Stopped`; `GiveStop`, `TakeAnimation`, `TakeStop`; `Touch`, `PressReset`, `ServeShutdown`, ... |
| `NetworkLifecycle` | network task, handler, boot, button, WiFi manager, life of the sockets | one action per event served, per handler branch and per part of a function between two points where a task blocks or another may change what it reads |
| `CapSensor` | sensor task | `Turn(r)`: a turn of the loop that reads `r` (0 is a failed reading); `IdleTurn`; `Switch` by the network task |
| `PushButton` | interrupt, `get_press_event`, button task | `Edge`, `Tick`, `Serve`, `ResetDelayOver` |
| `Storage` | files, boot, provisioning, save | one action per mount and per file operation of a read or write, each with its failures; `Restart` at any state |
| `Listener` | the serving network task with `discovery.c` and `listener.c`, and brokers | one action per outcome of a call that waits or may fail (`Accept`, `HandshakeError`, `CountTimeout`, `Ping`, `ReadPart`, `ReadEnd`, ...); brokers `Connect`, `Send`, `Leave`; `LinkLost`, `Reconnect`, `PostShutdown` |
| `Codec` | `dynamic-bits/`, the packet table, the callers' buffers | `AddSerializable` per field, `SerializePacket`, `SendPacket`, `ReceivePacket`, `DeserializeField` per field, each with its refusals |
| `..._proofs` | the theorems about each of the models above but the two abstract ones | |
| `FoldTheorems` | lemmas about the folds of the community modules, for `CapSensor_proofs` and `Codec_proofs` | |

Each `MC*` module extends its model; the `.cfg` files give the constants. Operators
commented as mutants are plausible mistakes in the code, which the properties must
refute; no specification uses them.

Variables keep the names of the program. A `...Pc` variable says where a task is.
Variables commented as history are read by properties only.

### Correspondence and abstractions

* *Scheduling.* `LedAnimation` uses the priorities: button and network steps need
  `~LedReady`. This is what makes the handshake right, as the mutant without it shows.
  The sensor has the LED task's priority and may run at any time.
  `NetworkLifecycle` lets handler and button preempt anywhere between steps.
* *Delays* have no length (they may end at any time) in `LedAnimation`,
  `NetworkLifecycle` and `Storage`, and are counted in ticks in the other two.
* *SDK and lwIP* are external: a call fails when its arguments or the driver's
  state say so, or by a `Fault`, of which `MaxFaults` happen. A bind to an address
  and port that a socket still holds fails. The event loop runs one handler at a
  time and deleting it waits for that handler. `init_wifi` may fail before, at or after
  the creation of the event loop, and then leaves it as it is.
* *Past the end of the step buffer* (`led.c:127`) any duty cycle may be written and
  any delay passed.
* *Packets* outside `Codec` are what handling them comes to: stored, refused before,
  or refused after the copies into RAM; a command, or another packet.
* *Bits.* In `Codec` an integer is the set of its bit positions and a double what
  `frexp` makes of it. Where a bit goes is counted bit by bit as in the code:
  `SizeIncrementCheck` before each one, then `bit_off`, an unsigned char, goes on
  (`Offs`). The writers' other checks stand where the code has them, once per chunk of
  bits. The callers (buffers cleared before use, size less one given, `out_size`
  checked) are part of the actions, since the buffers are safe only because of them.
  The sign of -0.0 is dropped (`DoubleChunks`), and `Samples` leaves that value out.
* *TLS and lwIP under the listener* are external: `close_notify`, a reset and a
  broken record are read as an error, a bare FIN as 0; what is written to a peer that
  vanished makes the stack give up in the end. A receive timeout of 500 microseconds
  rounds to none in lwIP: `SSL_accept` (`"accept"`) waits for as long as a broker says
  nothing, and `SSL_read` (`"record"`) for as long as it has sent a part of a record
  (`"part"`) and not the rest, be the broker connected or gone. `Held` names the two.
* *Where the models meet.* `NetworkLifecycle` has the sockets' lives and the flags
  that lead to a turn of the servers; `Listener` has those turns, and takes from the
  other only that the link comes and goes and that a shutdown may be posted. A turn
  that a broker holds is `"held"` in `NetworkLifecycle`. `LedAnimation` has no such
  turn: what it says of shutdowns is said of a network task that is back at its loop.
  `Codec` has what a packet's bits come to, `Storage` what its contents do.
* *Flash.* Every `get_` and `save_` function mounts the partition first. A mount that
  fails formats it (`storage.c:15`), all four files with it, and the call goes on; the
  formatting may fail too, and a partition that was mounted and then not looked at
  (`esp_spiffs_info`) stays registered, so that every later mount fails
  (`registered`). `fopen "w"` empties a file, closing writes it, a file is whole or
  empty. `MaxFaults` mounts and calls may fail; `LossyClose` lets `fclose` lose the
  data, which the code would not notice.
* *PWM calls* succeed once the LED is set up. If the `led_off` after the step past the
  buffer failed, `current_state` would keep that step's duty (`IdleDutyKnown`).
* *Tick.* `get_press_event` runs within the tick of the edge: only LED and sensor
  preempt it, far shorter than the 10 ms of a tick.

## Runs

| Run | Bounds | Shows |
|---|---|---|
| `led` | 2 steps, 1 repetition as in the code, commands `OFF` and `NEXT_NETWORK` | no stray stop token, a stop ends its animation, no wait that cannot end, known duty when idle; implements `StopRequest`; the fast blink ends, `SHUTDOWN` ends any animation |
| `led_quiet` | command `OFF` | *violated*: see findings |
| `network_safety` | 2 addresses, 2 presses, 3 drops, 1 fault, slow boot | implements `Connectivity`; provisioning within the access point, no leaked socket, served sockets are open |
| `network_liveness` | 1 address, 2 presses, 3 drops, no fault, quick boot | shutdown, phone, WiFi and sensor are not lost, unless a broker holds the task for good |
| `network_retry`, `network_rebind` | smallest that show it | *violated*: see findings |
| `cap_sensor` | pool of 3, update delay 5, four readings | exact total, genuine averages, debounce, held finger |
| `push_button` | delays 2 and 5, clock of 12 ticks | presses neither lengthened nor lost when clean |
| `storage` | 3 provisionings and seeds, 3 power failures, 3 faults (a failed mount is one), lossy close | which mixtures can be in flash; seed kept unless its file is lost |
| `storage_pin` | 1 fault | *violated*: see findings |
| `listener` | 2 brokers, backlog 1 as in the code, 2 ping steps (10 in the code), 2 faults | client and session go together; "free" and "managed" are true; gone clients are released, waiting ones accepted, shutdowns served, unless a silent broker holds the task for good |
| `codec` | both packet tables, buffers of 4, 9, 128 and 2, 5, 9, 128 bytes, extreme values | round trip, no write beyond the buffer, what a cut packet may come to, no node leaks |

Why the bounds are enough. The LED model is finite but for its constants: the
step buffer and the repetitions have the code's values, and of the commands one
stands for those that set a duty and one for the step to the next (the proofs hold
for every set of commands). In `network_safety` two presses give every pair of
button events, also both within one reset delay; two drops exhaust
`MAX_CONNECTION_RETRIES`, a third starts the count again, the address may change
each time, and a fault or a shutdown may fall anywhere. A pool of three has a
first, a middle and a last place, and the readings lie below, at and beyond the
threshold from each other; every offset of debounce against calibration occurs. The
button's clock wraps several times within a hold. Three provisionings are what it
takes to have an old, a mixed and a new set, and three faults let a format between
two saves meet a lost close and a failed call. Nothing but the number of turns without
an answer depends on the ping steps: two are a first, a middle and a due one. Of two
brokers one can be the client and one wait in the backlog,
which holds one, and a broker that left may come back; two faults are a lost link and
a call that fails after it. The packets of `codec` are those of the firmware and five
more with the remaining types, at every boundary of a length: zero, an inner value,
the least and the greatest of each width, strings of 0, 1, 2 and 10 bytes; the
smallest buffers cut a packet in its first field, the middle ones in later ones.

`CHECK_DEADLOCK FALSE` is set for `storage` and `storage_pin`, where the bounds end
all behaviours (no provisioning, restart or seed may be left), and for `listener`,
where the lamp really may stop: in a handshake or a read that a broker holds.

`network_liveness` assumes `QuickBoot`: `app_main` has read the flash before the
network task's first second is over. On a slower boot its `START_STA` can reach a
station that is already up, or an access point; the sensor then stays off until the
next WiFi event. `ServingHasSockets` is claimed until a press or a fault: a
shutdown that crosses the half second of a `GOT_IP` leaves `sta_connected` set, and
with a fault in the following connection the task then listens on closed sockets.

### Fairness

* `LedAnimation`: weak fairness of the LED task, which has the highest priority and
  only waits for delays that end; strong fairness of the tasks below it, which are
  set aside each time the LED task is ready, and run whenever it blocks. Touches,
  presses and commands are not owed. The network task's turns with the servers are not
  in this model, so that none of them is taken to end.
* `NetworkLifecycle`: weak fairness of each task (delays end, no task starves: the
  task watchdog would reset the lamp), of the SDK raising `STA_START` and of its
  answer to a join. Presses, phones and packets are not owed, and neither is the end
  of a turn in which a broker holds the listener (`netPc = "held"`, which a turn may
  always come to): `ShutdownHappens` and `PhoneGetsProvisioning` except the behaviours
  in which such a turn never ends (`HeldForGood`). `WifiComesBack` and
  `SensorComesBack` need no exception: a held task is one that was serving.
* `CapSensor`: weak fairness of the sensor's loop.
* `Listener`: weak fairness of the network task's steps, of which none is enabled while
  a broker holds it (`Held`), and of the stack's giving up a connection on which it has
  written in vain. Brokers owe nothing, neither their side of the handshake nor the
  rest of a record, and the link need not return. `ShutdownServed` and
  `DeadClientReleased` except the behaviours in which the task is held for good.

## Findings

* `led_quiet`: a blink loop posted while an animation plays starts after the stop.
* `network_retry`: one refused `esp_wifi_connect` ends all retries.
* `network_rebind`: sockets are not closed when the link is lost, so after a
  reconnection with the same address the servers cannot be opened.
* `storage_pin`: `save_pin_code` reports success when the write failed.

Seen while modelling, without a statement in the repository to hold it against:

* An open network cannot be provisioned: `provision_listen` has a branch for an empty
  password, but `AddUTF8StringSerializable` refuses it while the packet is read.
* A provisioning packet that is refused for its pin code has already overwritten SSID
  and password in RAM, and the next station start uses them.
* A lamp with a wrong password cannot be provisioned again except between a boot and
  its first connection attempt, because `credentials_ok` is set when the attempt is
  accepted.
* The handler's late `cap_sensor_active = 1` can undo the switching off before a
  second `START_STA` (boot and loop both post one), whose second is there to "give
  time to cap sensor for deactivating" (`vetta_main.c:499`).
* A `GOT_IP` whose half second crosses the change to the access point leaves
  `sta_connected` set in it: the task serves the home network's servers, and no
  provisioning packet is read.
* A client that ends with a bare FIN is kept, and the lamp managed, until the WiFi is
  shut down; its socket stays readable, so no ping is ever sent. A client of a lost
  link survives the shutdown that follows (the servers close only when
  `sta_connected` is set) and is pinged away after the reconnection.
* A broker that says nothing in its handshake, or that sends a part of a record and
  no more, holds the network task, and with it every later event, whether it is still
  connected or has vanished.
* A mount that fails erases everything the lamp keeps, its seed too, and what was
  saved just before is reported as saved all the same (`storage.c:15`). One whose
  `esp_spiffs_info` fails makes every later call fail until a restart.
* `SerializePacket` may write `buffer[buffer_size]`, where `dbits.h:12` says "using no
  more than `buffer_size` bytes"; every caller gives a byte less than it has.
* -0.0 arrives as 0.0: its sign is taken from `m < 0` (`dserial.c:246`).
* A packet cut in its last field may be accepted with a short value: the reader looks
  for bytes left once per value.
* A seed that is misread once is replaced for good; `reset_persistent_storage` is
  never called.
* The handler keeps a pointer into `event_data` (`vetta_main.c:321`), which is logged
  after the SDK has freed it; with no packet table or seed, `xTaskNotify` is called
  with a NULL handle; `GetPacketFormat` has `>` where `RegisterPacket` has `>=`;
  `AddSerializable` does not free its node when it refuses a string, which no caller
  reaches; timeouts said to be 500 ms are 500 microseconds (`discovery.c:119`,
  `listener.c:173`).

## Proofs

Each `..._proofs` module proves its theorems for every value of the constants that
the named assumptions of its model allow (positive delays, a clock longer than them,
a pool whose sum fits 16 bits, well-formed packet tables, sentinels that are no
values). Bounds of counters are constants too, so the theorems hold for any number of
presses, drops, faults, restarts, brokers and timeouts.

| Module | Proved |
|---|---|
| `LedAnimation` | `TypeOK`, `NoStrayStop`, `StopEndsAnimation`, `StopNotStuck`, `IdleDutyKnown`; implements `StopRequest` |
| `NetworkLifecycle` | `TypeOK`, `ProvisioningOnlyOnAp`, `ServingHasSockets`; implements `Connectivity` |
| `CapSensor` | `TypeOK`, `TotalIsSum`, `NoGapInPool`, `Debounce` |
| `PushButton` | `TypeOK`, `NeverOverReported`, `SteadyPressReported` |
| `Storage` | `TypeOK`, `SeedNeverChanges`, `SavedInOrder`, `MixedOnlyByReplacement` |
| `Listener` | `TypeOK`, `SessionWithClient`, `FreeIsFree` |
| `Codec` | `TypeOK`, `WritesWithinArray`, `RoundTrip`, `CutTouchesOnlyLast`, `NodesAccounted` |

The argument is always an inductive invariant `IInv` that holds initially, is kept by
every step (one proof step per action) and implies the property. The properties alone
are not inductive; what `IInv` adds to them is the reason why they hold:

* `LedAnimation`: `PlayingFlag` and `VictimPlays`, and `TokenForEnded` and
  `TokenForVictim`: what a token in `ledStopSem` or `ledAnimationSem` means at each
  step of the handshake. The crux is the priority: with a token in `ledStopSem` the LED
  task is ready, so the network task takes `ledAnimationSem` only after the stop was
  seen. `StepRefines` maps every step to one of `StopRequest` or a stutter.
* `NetworkLifecycle`: `WifiInv` says that the radio, the manager's mode and the
  working flag agree, where a shutdown is and what it has done, and (`PhoneHasAp`) why
  a phone's event left over from an old access point begins nothing: `START_STA` is
  served first and drops it. `QuietInv` follows a lamp that nobody pressed and no call
  failed for: it has only been a station, and opens its sockets for a link that is up.
  `TypeOK` needs `AddressGiven`: the handler that has an address keeps it. With
  `WifiInv` every step is one of `Connectivity` or a stutter.
* `CapSensor`: `Filled` (the places before the index hold good readings: a failed one
  is not passed), `OffsetWithinTime` and `ReadyAfterDelay` (the ticks counted since a
  touch never run ahead of the time that passed). The running total is changed by
  differences modulo 2^16; it stays the exact sum because of `ReadingsFit`: without it
  a type-correct pool could sum to more than 16 bits, and the total be right only
  modulo 2^16.
* `PushButton`: `PressInv` (a press that the task has seen began within the time the
  button is held) and `SteadyInv` (where a press taken in its own tick is until it is
  released, also across a wrap of the clock).
* `Storage`: `SeedInv` follows the seed from its drawing to its file, `FileInv` a save
  from file to file (`EarlierSaved`, `OpenedIsEmpty`, `PinLast`). Even `TypeOK` needs
  `SeedWriting` and `SaveIsLast`: what is written is a value only because of what was
  drawn or provisioned before. `PinLast` is why a format between two saves mixes
  nothing: a pin code in flash is the last of a whole save, and what there is of the
  other files is of the same provisioning. `SeedNeverChanges` excepts the losses that
  the code has no defence against: formatted, not written by its close, misread.
* `Listener`: `ClientAtWork` and `TaskManaged`: a turn that ends with a client has set
  `is_managed`, which discovery reads at the top of the next.
* `Codec`: from bits to packets, for every format, value and size of the arrays. Each
  value is written as pieces of a length and bits within it (`ChunksType`); as long as
  no write is refused they stand in the array one after the other (`WrittenIsLaid`),
  so a serialized packet has positions `E[0] < E[1] < ...` with field `k` between
  `E[k - 1]` and `E[k]` (`Layout`). What each reader makes of the pieces of its type
  is the value they were written from, if all of them arrived (`FieldRead`): headers,
  two's complement down to the least value of each type, doubles, strings.
  `SentInv` then says that a receiver who has read `k` fields of a packet is at
  `E[k]` and has what was sent (`Exact`), or is past the end of its array with at most
  the last field wrong. A field whose length was cut off is the crux: the length is
  read from bits that are not there, and may be wrong, but the true and the false one
  both lead past the end, so that nothing is read after it. `WritesWithinArray` is an
  induction over the bits written (`OffsAre`): from the step that `SizeIncrementCheck`
  and the count of one bit make together, what the offsets are after any number of
  them. The nodes need only `ListInv`, the list is finite.

*Folds.* `TotalIsSum` is about a recursive sum over a set, and `Codec` is built from
folds: a byte's number, the chunks written, the fields concatenated. The library's
induction theorems take a predicate as a parameter, which the provers cannot
instantiate; `FoldTheorems` does its induction over a set of numbers or of subsets
instead, from `WFMin` (a set of numbers has a least element). It gives `SumOfChange`,
`SumWithin` and `SumOfRest`; `Flattening` and `Writing` in `Codec_proofs` are made the
same way.

*Lists.* For its SMT solver this version of tlapm takes `Len(s) = n` and
`DOMAIN s = 1 .. n` for the same whatever `s` is. That is right for sequences only, and
a context with `Len` and a function on `0 .. n` is contradictory by it. Where lengths
are compared the lemmas about packets therefore say that both are lists (`IsList`), and
all the proofs were run a second time with that axiom restricted to what `Len` means
(`DOMAIN s = 1 .. n` gives `Len(s) = n`): they hold all the same.

Only model-checked: all liveness (and everything with ENABLED), which is out of the
prover's reach (the properties of `network_liveness`, `FastBlinkEnds` and
`ShutdownEndsAnimation`, `HeldTouchSeen`, `FreeLampAccepts`, `DeadClientReleased`,
`ManagedClears`, `ShutdownServed`). Every safety property that a run checks and the
code keeps is proved.

## Not modelled

* PWM, ADC, GPIO and NVS start-up, whose failures print or stop the boot;
  `led_shutdown` and the resetting of storage, which nothing calls; `led_get_state`,
  whose unlocked read discovery puts into its answer.
* The checks of the codec for NULL arguments, which no caller passes, and doubles that
  are infinite or not a number, which no packet has. Bits that no `SerializePacket`
  wrote: an id that is not of the table is refused, but 5, which `dpacket.c:57` lets
  through to what follows the table in memory.
* Failing PWM calls after start-up, and the turn of a network task that a broker holds
  as seen from the LED.
* The contents of certificates, the SDK configuration, build files, and `espflash.py`,
  which asks questions and runs `make`.
* Time below a tick, and the lengths of delays outside `CapSensor` and `PushButton`.

## Plan

1. *Done:* `StopRequest`, `LedAnimation` and its proofs; `NetworkLifecycle`;
   `CapSensor`; `PushButton`; `Storage`.
2. *Done:* `Listener`; `Codec`; `Connectivity` and its implementation.
3. *Done:* the proofs listed above.
4. *Done:* the proofs of `Codec` from its bits up.
5. The safety halves of the liveness properties: what must hold at each step for
   `WifiComesBack` and `FreeLampAccepts` to be reachable at all, as invariants that can
   be proved; and an abstract specification of the lamp as a broker sees it (free,
   serving, gone) that `Listener` implements, as `Connectivity` is for the WiFi.
