# Verification of the 3DPKBD2 firmware

TLA+ specifications of the firmware of the 3DPKBD2 keyboard (an STM32F4 with
libopencm3, written in C) and of its DFU bootloader, the TLC configurations that
check them, and TLAPS proofs of the properties that matter most. Everything is
translated from the C source; paths below are relative to the repository.

## 1. The system

Both programs are single-threaded. `keyboard/main.c` and `bootloader/main.c`
loop for ever over `display_update()`, `usbd_poll()` and, in the keyboard,
`hid_poll()`. The only interrupt is SysTick, which increments a 32-bit
millisecond counter (`lib/systick.c`). All USB callbacks (transfer complete,
control requests, reset, SET_CONFIGURATION) run inside `usbd_poll()`, that is
*between* two calls of `hid_poll()`; the USB core itself, which takes packets
and changes the suspend bit, runs at any time. Concurrency therefore means: the
host and the USB core against the main loop, the clock against everything, the
user's finger against the scan, and resets and power cuts against the flash.

| Component (source) | State it keeps | Operations | What makes it correct |
|---|---|---|---|
| HID report pipeline (`keyboard/hid.c`) | per interface: `next_…` (queue of one), `old_…` (last sent), `transmitting`, idle rate and deadline; `remote_wakeup_sent` | `hid_poll`, transfer-complete callbacks, `hid_set_config`, SET_IDLE, GET_REPORT | no change of the keys is lost, late, or sent twice; the host ends up with what is pressed; one wake-up per suspension |
| Debouncing and matrix scan (`keyboard/keys/scan.c`) | per key: previous state, time of the edge; row/column drivers | `keys_scan`, `debounce`, `keys_scan_state_reset` | one press event per press, state follows the contact, no ghost edges |
| Right half (`keyboard/keys/scan.c`, `lib/i2c.c`, `lib/mcp23017.c`) | `keys_scan_right_side_disconnected`, the expander's registers | configure, drive, read; failure at every transfer | a lost cable disturbs nothing else and the half comes back |
| Layers and key functions (`keyboard/keys.c`, `keyboard/keys/layers.c`) | `layers_state`, `layer_keypad_state`, statics of `func_fn` | key edges, `keys_reset`, Mac detection in SET_IDLE | one layout at a time; Fn takes and gives back |
| Key sequences (`keyboard/keys/sequence.c`) | `active_sequence`, its step | register, play, reset | every step reaches the host once, in order; nothing sticks |
| Usage list and report layout (`keyboard/hid.c`, `keyboard/keys.c`) | none across calls | list add/find/remove, boot and extra populate, shifted-number post-processing | the report is the set of pressed usages, up to its capacity |
| HID class requests (`keyboard/hid.c`) | `hid_protocol`, `hid_led_report` | SET/GET_PROTOCOL, SET_REPORT | the protocol is the one asked of the boot interface |
| USB device state (`lib/usb.c`, `keyboard/usb.c`) | `usbd_state`, `usbd_remote_wakeup_enabled`, libopencm3's callback table | bus reset, SET_ADDRESS, SET_CONFIGURATION, features | agrees with what libopencm3 has configured; wake-up as this host asked |
| DFU bootloader (`bootloader/main.c`, `bootloader/dfu.c`) | `dfu_state`, `dfu_status`, `dfu_address`, `dfu_bytes`, `erased_sectors`, the flash, the reset flags | boot decision, DNLOAD, GETSTATUS, CLRSTATUS, ABORT, reset callback | the bootloader survives everything; the flash holds what was accepted |
| Displays (`keyboard/display.c`, `bootloader/display.c`, `lib/ucg*`, …) | last values drawn, screensaver time | `display_update` | shows the truth after every turn, on in use, off at rest |
| Clock, LED, serial, GPIO key, descriptors, build | the millisecond counter; constants | | |

Interactions: the scan reports edges and pressed keys to `key_event_callback`,
which resolves them in the layers and adds usages to the list, calls layer
functions or registers a sequence; a *sample* (`update_hid_in_reports`) plays
one step of the sequence and runs one scan; `hid_poll` decides whether the
sample goes to the endpoint. SET_CONFIGURATION resets scan, layers, sequence and
reports, but not the queue nor the statics of `layers.c`.

The hard behaviours, each with its line, are the `hazards` of `PROJECT.json`.

## 2. The modules

| Module | Models | Variables ↔ code |
|---|---|---|
| `HidReports` | the report pipeline of both interfaces, suspend and remote wake-up | `next`, `old`, `transmitting`, `idle_rate`, `idle_finish` are the variables of `hid.c`; `fifo`/`xfrc` the endpoint and its completion flag; `host` the last report taken; `keys` what a scan made now would report |
| `ReportChannel` | what the pipeline promises a host, without its flags and deadlines | `sample`, `packet`: the queues and the endpoints |
| `Debounce` | one key: finger, bouncing contact, clock, the scan that latches the time and later debounces | `previous_key_state`, `edge_start_ms`, `now` as in `scan.c` |
| `Layers` | layer state and the keys that change it | `layers_state` as a set; `layer_keypad_state`, `last_active_layout` as in `layers.c`; `layout_unchanged` says that the two layout counters are equal |
| `Sequence` | sequences against the pipeline of the boot interface | `active_sequence`, `active_sequence_step`; `next`, `old`, `fifo` as in `HidReports` |
| `Dfu` | boot decision, DFU requests, flash, resets, power cuts | the variables of `dfu.c`; `csr` the reset flags; `flash` a function of addresses |
| `Scan` | the matrix scan of both halves, the I2C transfers to the expander, its cable | `disconnected` is `keys_scan_right_side_disconnected`; `chip` the registers of the MCP23017; `raised`, `charged` the GPIO rows and column lines |
| `Usages` | from the keys that are down to the two reports | `hid_usage_list`; `do_shifted` is `do_shifted_keyboard_keypad_update` |
| `Device` | device state, class requests, libopencm3's configuration and callback table | `usbd_state`, `usbd_remote_wakeup_enabled`, `hid_protocol`, `hid_led_report` as in the code |
| `Display` | the status display over `Device` | `current_state`, `last_screensaver_enabled`; `since_key`, `since_change` are the two differences with the clock |
| `HidReportsProofs`, `DebounceProofs`, `ScanProofs`, `LayersProofs`, `SequenceProofs`, `DisplayProofs`, `DfuProofs`, `UsagesProofs` | theorems and proofs | |
| `MCDfu`, `MCSequence`, `MCUsages` | a flash of four sectors; the sequences, keys and usages that are checked | |

**HidReports.** `PollReports` is one whole `hid_poll` of an active bus: the
sample if *both* queues are empty, then for each interface the decision
(`ShouldSend`, `Discard`), the write, and the clearing of the queue. `Poll(s)`
adds the suspended branch; `hid_poll` reads the suspend bit three times, and `s`
is what it reads: the bit may change once in between. `HostRead` empties the
endpoint and raises the completion flag; `TransferComplete` is the later
callback. `SetConfig`, `SetIdle`, `GetReport`, `Feature` are control requests.
A report is an opaque value, and a key scan gives any value: what the keys mean
is left to the other modules. `SetupKeeps` leaves open what `usbd_ep_setup` of
libopencm3 does with a packet that is still in the FIFO. History: `rearmed` says
that a poll has found the bus active since the suspension before (or that a
SET_CONFIGURATION came), `stale` that a queue was sampled before the last
SET_CONFIGURATION.

**ReportChannel.** A sample of both interfaces, one packet per endpoint; each
report of a sample is kept, sent or dropped as nothing new, and a new sample waits
until all are served, unless GET_REPORT asks for one. `HidReports` implements it
with `next` as the sample and `fifo` as the packet: the flags, the baseline, the
deadlines, suspension and completion callbacks do not show.

**Debounce.** `ScanStart` latches the time, `ScanKey` is `debounce()` with that
time, up to `Lag` ticks later. The contact flips freely for `Bounce` ticks after
the finger moves. `ScanStateReset` comes between scans only.

**Scan.** A step is one row of the left half or one I2C transfer of the right half;
the cable may be pulled or put back between any two, and any transfer may fail,
with or without effect on the expander. An address means one register or another
depending on the expander's BANK bit (`Written`), as the set-up finds it in either
bank. `mcp23017_read` is two transfers, of which only the whole matters: the first
one moves an address pointer that the model does not keep. A driven left row
charges the column lines, which may stay high into the next row, since the wait at
`scan.c:318` is never executed. `met` is history: the columns on which this scan of
the left half has read a closed contact. What an unconfigured expander returns is any value.

**Usages.** `Start` clears the list and adds a step of a sequence, `KeyDown` is
`key_event_callback` for one more key, in any order, `Finish` the shifted-number
post-processing; the reports are read off the list. Page and id together are one
usage, and a slot of a report is named by the list entry that fills it. `Played`
is the list after the loop of `sequence_play`, one `Add` after another
(`UsagesProofs!PlayedInTurn`).

**Device.** One action per request, plus bus reset, suspend and resume. The table of
four callbacks is filled as libopencm3 fills it, and flushed at each
SET_CONFIGURATION. Requests that change nothing (GET_PROTOCOL, GET_IDLE,
GET_STATUS) are left out.

**Display.** `DisplayUpdate` is one `display_update`, between any steps of the device
and the clock. A picture is a record of what it shows; the LEDs stand for the other
fields that are copied, compared and drawn in the same way.

**Layers.** Each edge is a step, in any order, because the position of keys in
the matrix does not matter to the properties; requests may come between edges.
A wake-up scan consumes an edge without its effect (`WakeScan`). The keymap is
the part of `layers_keymap` whose entries act on layers; a key with any other
entry is one that changes nothing. The order of lookup is kept.

**Sequence.** `Populate` is one sample: `sequence_play`, then the scan, in that
order. The idle rate is 0 (the default after each configuration) and the bus
active. Other keys are taken to share no usage with a sequence, so that a step
can be told from them.

**Dfu.** An address stands for a fixed number of bytes. `Dnload` is the whole
handler, with `dfu_write` (erase when needed, program). `DnloadCut` is the same
when the power goes in the middle. Programming can only clear bits (`Burn`): a
cell programmed over other content becomes `Other`. `GETSTATE` and `UPLOAD`
change nothing and are left out, as is the block number, which the code ignores.
The test of `wLength` against `wTransferSize` never refuses, as a 16-bit length
cannot exceed it. The watchdog is never started, so resets are by power, pin and
software. `contiguous` and `aligned` are history: whether the host has stopped at
the first refused block of this download, and has kept its blocks inside sectors.

Operators whose name contains `Mutant` are deliberate slips of the operator
that follows them. No action uses one; each shows that some property notices the
slip when it takes the operator's place.

## 3. What is checked

Passing runs (TLC explores every reachable state within the bounds):

| Run | Bounds | What it shows |
|---|---|---|
| `HidPipeline` | two report values, any number of suspensions, idle rate 0, clock stopped; fair loop and host, who may use every request | `transmitting` mirrors the endpoint so no write is refused, `old` is what the host has or is about to take, a change goes out within two polls once the endpoints are free, the host ends up with the reports of the keys on both interfaces, a key pressed in suspension wakes the host once, if a poll has found the bus active since the suspension before (`rearmed`); every step is one of `ReportChannel` or none, so a queued change is not dropped |
| `HidIdle` | four instants, idle rate 2 | reports repeat exactly at the idle rate; at most one stale report per interface survives a reconfiguration |
| `DebounceSafety` | counter 1..15, debounce time 3, bounce 2, lag 1, pause 2 | least duration of a press, one press event while the finger is down, state follows the contact |
| `ScanMatrix` | three rows, one column on the left, three on the right (one on port B, two on port A, one of them the BANK bit), at most two keys closed at a time; any failure, any replug | a half that counts as connected was read to its last column, is set up and drives no column but the one being read; a read on the right gives its own column; a read on the left misses no closed contact, and a ghost in it goes back, row by row, to a closed contact of its column that the same scan has read; once failures end the half comes back |
| `UsageReports` | nine keys: three ordinary usages, one of them on two keys and one shifted, Control, both shifts, two consumer usages; a boot report of two keys and an extra report of one; steps of a sequence with a modifier and a key | the reports say what is down; rollover exactly when there are too many keys; shift turned around |
| `DisplayStatus` | clock modulo 5, screensaver period 2; every order of requests, resets, suspensions | device state agrees with libopencm3, callback table complete, wake-up as asked; the screen is truthful, on in use, off at rest |
| `DfuDownload` | four sectors of three cells, two files of ten cells (one too long for the memory), blocks of one to three cells; any order of requests, resets and power cuts | blocks inside sectors leave exactly what was accepted; bootloader never touched; only the button leads to it |
| `LayersFn` | seven keys: Fn, Keypad, a layout of each family, both toggles, Cut; all requests | one layout; Fn layer follows Fn; layout restored; keypad latch; the right cut sequence |
| `SeqSteps` | two sequences of the shape of those in `layers.c` (a modifier, then the modifier and a key), two other keys, reconfigurations, GET_REPORT | every step delivered in order; nothing stuck |

Why the bounds are enough. The pipeline compares reports only for equality, so
two values reach every outcome of `memcmp`; the queues hold one entry, so a
clock that passes an idle period once and has an instant to
spare, give every order of events around one report (the safety properties are
proved without these bounds). `debounce` compares
one difference with one constant; 15 instants hold a press, its bounces, a
release and a further press with `D = 3`. Four sectors give a first, a middle
and a last sector next to the bootloader, with three cells each so that a block
can end before, at and after an edge. Three rows give a first, a middle and a last one,
and the three right columns are one of each kind: port B, the BANK bit, another bit
of port A. The boot report of two keys and the extra report of
one both overflow, and so does the list of six entries, which nine keys and a step of
two can ask for eleven. A clock of 5 with a period of 2 wraps with both differences on either side
of the period. Layers are bounded by nature. The two
sequences differ in every step, so a swap or a loss shows. Named bounds:
`Horizon` (clock), `Fingers`, `TransferSize`, `Image`, `Lag`, `Pause`,
`Bounce`; `since`, `behind`, `signals`, `staleSent`, `held`, `steady` are history
counters that saturate above the value the properties ask for.
`W = 1, Horizon = 0` stops the clock: with an idle rate of 0 the code does not
read it. In `Display` a turn of the main loop is shorter than a unit of the clock, so
`Tick` waits for a `DisplayUpdate`; `2 * Secs < W` holds by far in the code (60 s
against 49 days).

Fairness. Every wait of the main loop is bounded (each I2C transfer
gives up after 2 ms), so `SteadyPoll` (a
poll during which the bus keeps its state), `Poll` and `TransferComplete` are
weakly fair. A host polls an interrupt endpoint at its `bInterval`: `HostRead` is
weakly fair, for the interfaces the host uses. In
`Scan` the steps of the scan are weakly fair (the host takes reports, and a transfer
ends one way or the other within `TIMEOUT_MS`); in `Display` the clock and
`DisplayUpdate` are. Nothing is assumed of the user,
of requests, or of suspend and resume; `HostMirrors` has "from some time on the
bus is active, not reconfigured, and the keys of the interface rest" as its premise,
`NothingStuck` "no GET_REPORT from some time on", `HalfComesBack` "the cable stays in
and no transfer fails", `ScreenSaved` "no key, no request".

Every property of a passing run is shown to depend on the code by a mutant.

## 4. Where code and documentation disagree

Each run below looks for one property and finds a behaviour that breaks it; two
more disagreements, which bound properties that hold, follow the table.

| Run | Behaviour |
|---|---|
| `HidIdleDelay` | with an idle rate set, a report sampled for the next repetition blocks sampling until the deadline (`hid.c:583`): key changes are late by up to the idle time |
| `HidBios` | a host that polls the boot interface alone: after one report is queued for the other interface nothing is sampled any more (`hid.c:205`) |
| `ProtocolBoot` | SET_PROTOCOL for the boot interface is refused, and one for the other interface is taken: an interface number is compared with an endpoint number (`hid.c:356`, and `344` for GET_PROTOCOL) |

* Remote wake-up ("Remote wake up support", `README.md:54`): the latch of a wake-up
  is cleared only by a poll that finds the bus active (`hid.c:676`) and by
  SET_CONFIGURATION (`hid.c:515`). When the host resumes and suspends the bus again
  within one turn of the main loop, as it may while a display is drawn, the latch
  of the first wake-up is still set and no key of the second suspension wakes the
  host. `PressWakes` therefore has the condition `rearmed`; without it TLC breaks
  it on `HidPipeline`.
* Isolation of the left rows: "Due to line capacitances we have to wait for the
  previous row high signal to be drained by the pull down resistor so the column input
  signal is back to logic low" (`scan.c:315`). The code means to wait if `any_state_active` is set
  (`scan.c:318`), clears it at `scan.c:300` and sets it nowhere, so it never waits. A
  row may show the contacts of the row before, and the row after that may show them
  again. `[][ScanLeftRow /\ warm => down' = closed \cap ({at} \X LeftColumn)]_vars`,
  the isolation that the comment is for, is broken by TLC on `ScanMatrix`. What
  holds, and is checked and proved, is `GhostsTraced`.

Limits of the properties that hold; the first three are visible when a bound of a
passing run is widened:

* `HidIdle` with `Horizon = W`: the idle deadline wraps with the 32-bit counter
  and is compared as a plain number (`hid.c:573`); `IdleRateKept` fails.
* `DebounceSafety` with `Start = 12, Horizon = 16`: an edge at time 0 counts as "no
  edge" (`scan.c:55`); `HeldForDebounceTime` fails.
* `DebounceSafety` with `Lag = 2`: the contact may bounce longer than the debounce
  time less the lag; `OnePressPerStroke` fails.
* `StepsDelivered` excepts a GET_REPORT that finds a report in the queue: it samples
  again and overwrites it, a step of a sequence included (`hid.c:232`).
* A bounce of the release that comes later than the debounce time after the press
  finds no edge recorded and is reported as a press (`scan.c:83`), so
  `OnePressPerStroke` speaks of the time the finger is down.
* The right half, pulled and put back between two transfers, is read with its
  power-on registers until a transfer fails: nothing in the code can notice
  (`unseen` in `Scan`).
* The very first scan reads every left row high (`scan.c:109`); its key states are
  forgotten at SET_CONFIGURATION.
* SET_CONFIGURATION(0) leaves `usbd_state` at configured (`keyboard/usb.c:23`), the
  exception in `ConfiguredTogether`.
* With every modifier and two consumer keys held the list has no entry for a seventh
  key, which is dropped without a rollover (`RolloverShown`).
* A shifted key turns the shift of the whole report around, so other held keys are
  shifted with it, and a shift held by a finger and by a sequence at once keeps one of
  its two entries (`ShiftInverted`).
* A key pressed while the device is not configured is not scanned and does not
  switch the screen on.
* The "00" key plays the same usage in two steps, which is one report (`hid.c:563`):
  the host gets one 0.
* A firmware that fills the flash to its last byte is turned down (`dfu.c:114`
  compares with the last address).
* A block that lies across two flash sectors is programmed into the second one before
  that is erased (`dfu.c:73`); `ImageIntact` speaks of hosts whose blocks stay inside
  sectors. Blocks of the advertised 65535 bytes do not from the third one on.
* A DNLOAD in `dfuERROR` is taken and clears the error (`dfu.c:120`), where the
  standard asks for CLRSTATUS. `ImageIntact` says nothing of such a host.

## 5. What is proved

For every value of the constants that meets the named ASSUMEs (the bounds of the
models are constants too, so for every bound):

| Theorem | Statement | Argument |
|---|---|---|
| `HidReportsProofs!TypeCorrect` | `TypeOK` | inductive as it stands; the deadline stays a W-bit number because of `% W` |
| `!Mirrored` | `EndpointMirrored`: no write is refused (`WriteNeverRefused`) and the baseline is what the host has (`OldIsLastSent`) | assumes `SetupKeeps = {FALSE}`: setting up an endpoint empties it. The two hold together only: `old` is overwritten before the write is known to be accepted |
| `!OneStaleReport` | `AtMostOneStaleReport` | strengthened: a report that has been written leaves its queue empty, and an empty queue holds nothing stale |
| `!OneWakeup` | `AtMostOneWakeup` | strengthened: a signal in this suspension implies, as long as the bus is suspended, that the latch is set |
| `!LatchSpent` | `LatchOfThisSuspension`, the safety half of `PressWakes` | for any number of suspensions: once `rearmed`, a latch that is set while the bus is suspended was set by a signal of this suspension, so what keeps a key from waking the host is that one has done so |
| `!Prompt` | `ChangeSentPromptly` | with `IdleRates ⊆ {0}`: strengthened: when a poll with both endpoints free leaves the baseline behind the keys, the queues are empty, so the next sample is taken from the keys of the moment |
| `!Implements` | `ImplementsChannel`: `Spec` implements `ReportChannel!Spec` | action by action; a poll is a `Serve` of the sample or of a new one, and that a dropped report is nothing new is the baseline invariant above |
| `!RateKept` | `IdleRateKept` | assumes that no deadline wraps (`NoIdleWrap`); strengthened: deadline plus time since it was set is clock plus idle rate. Needs `Mirrored`: a free flag is a free endpoint |
| `DebounceProofs!PressesLast` | `HeldForDebounceTime` | assumes that the counter does not wrap; strengthened: the edge mark is set exactly for a key that is down (`Polarity`), and what `edge_start_ms` says of the time since the press |
| `!Follows` | `FollowsContact` | strengthened: while state and contact differ, the contact moved after the last scan read it, or the key is down and that scan found its press too young |
| `!OnePress` | `OnePressPerStroke`, an action property | assumes besides that `Bounce + Lag <= D`; strengthened: while a finger that has been reported stays down, the key counts as down, and its last bounce comes before the press is old enough to end |
| `ScanProofs!Ready`, `!OwnColumn` | `ReadyWhenConnected`, `RightReadsOwnColumn` | strengthened by what each write of the set-up has established, from either bank, and by the column each phase of the scan drives; only a scan that ends without a failure can leave the flag clear |
| `!Traced` | `GhostsTraced` | strengthened: only the first scan finds other rows driven; a line still charged was read high in the row before, and owes its charge to a contact this scan has read |
| `DisplayProofs!Configured`, `!Wakeup` | `ConfiguredTogether`, `WakeupAsAsked` | strengthened: which of three forms the callback table has, by the device state; the address handler is registered only before the first configuration |
| `!Truthful`, `!OnInUse` | `ScreenTruthful`, `ScreenOnInUse` | strengthened: the screen is blank or shows the copy, and not blank with the flag clear; while `idle` is below the period one of the two differences equals it |
| `LayersProofs!FnFollowsKey`, `!LayoutKept` | `FnWhileHeld`, `LayoutAsChosen` (one layout is on, `OneLayout`, and it is the chosen one) | the last needs what `func_fn` remembers: while Fn is on and no layout was chosen, `last_active_layout` is the layout chosen before |
| `!KeypadKept`, `!CutFits` | `KeypadAsLatched`, `CutFitsHost` | inductive as it stands; `LayoutAsChosen` says which layout is on, and the alternative that Fn puts in its place is of the same family |
| `SequenceProofs!Delivered` | `StepsDelivered` | assumes that neighbouring steps of a sequence differ, as those of "00" do not. Strengthened: what is owed when the reports on their way have been taken is the end of the sequence that has not been sampled; and the last report sampled shows the step before, so that no step is discarded as unchanged |
| `DfuProofs!BootloaderSurvives` | `BootloaderIntact` | every write starts in the main memory and sectors do not straddle its beginning |
| `!ImageKept` | `ImageIntact` | strengthened: in such a download a sector that has been erased is blank beyond `dfu_address`, and one that holds part of the image is marked erased |
| `!ButtonOnly` | `DfuByButtonOnly`, an action property | strengthened: the flags of RCC_CSR are those of the resets since `main` last ran, plus the pin flag that each reset sets |
| `UsagesProofs!Exactly`, `!Rollover` | `ReportExact`, `RolloverShown` | strengthened by counting: of every set of usages the list holds as many entries as are wanted, or else these entries and what is wanted besides fill it. Says nothing of the shifts once they have been turned around |
| `!ShiftTurned` | `ShiftInverted` | from the same counts at the end of the scan; with no modifier wanted the list has a free entry for the shift |

Each of the proof modules also proves the type invariant of its specification.

Model-checked only: liveness (`HostMirrors`, `PressWakes`, `NothingStuck`,
`HalfComesBack`, `ScreenSaved`), which is out of the prover's reach.

## 6. Not modelled

* The drawing itself, the bootloader's progress display, LED, serial port, GPIO: they
  read the state of the rest or move bits to pins.
* The inside of an I2C transfer (`lib/i2c.c`): it succeeds or fails, within
  `TIMEOUT_MS`.
* The keymap of the keys that change no layer, and the descriptors: constant data.
* libopencm3 appears only as far as the code relies on it: endpoints, suspend
  bit, control dispatch, flash programming.
* Electrical effects beyond a column line that is still charged one row later.

## 7. Plan

The modules of section 2, in this order: report pipeline, debouncing, layers,
sequences, bootloader, scan and right half, usage list, device and display, each
with its proofs. What is left is their composition:
`Layers`, `Usages` and `Sequence` with the queue of `HidReports`, to follow a key from
its edge to the host, with keys that share a usage with a sequence and keys held while
the layers change (`keys.c:62`), once it is decided which usage such a key should report.
