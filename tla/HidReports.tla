----------------------------- MODULE HidReports -----------------------------
(***************************************************************************)
(* The report pipeline of keyboard/hid.c: one report is sampled for each   *)
(* of the two HID interfaces, queued in a "next" pointer, compared with    *)
(* the "old" report, written to the interrupt IN endpoint and taken from   *)
(* there by the host.  The main loop calls hid_poll forever; between two   *)
(* calls usbd_poll runs the transfer-complete and the control callbacks.   *)
(*                                                                         *)
(* A report is an opaque value: what a key matrix turns into is the        *)
(* business of the keys_* files, here only "changed or not" matters.       *)
(***************************************************************************)
EXTENDS Naturals

CONSTANTS
  Report,       \* the contents a report can have
  NoKeys,       \* the all-zero report (memset), what a host assumes at start
  NULL,         \* an empty "next" pointer, an empty endpoint
  W,            \* uptime_ms() counts modulo W (2^32 in the code)
  Horizon,      \* bound: the clock stops there; Horizon = W lets it wrap
  IdleRates,    \* the Set_Idle durations the host uses, in ticks
  HostPolls,    \* the interfaces whose IN endpoint the host polls
  HostDoes,     \* the requests and bus events the host may produce
  SetupKeeps    \* may endpoint set-up leave an unread packet in place?

Interface == {"boot", "extra"}

HostActs ==
  {"reset", "suspend", "set_config", "set_idle", "get_report", "feature"}

ASSUME ReportsAssumption == NoKeys \in Report /\ NULL \notin Report
ASSUME ClockAssumption ==
  W \in Nat \ {0} /\ Horizon \in Nat /\ IdleRates \subseteq 0 .. W - 1
ASSUME HostAssumption ==
  /\ HostPolls \subseteq Interface /\ HostDoes \subseteq HostActs
  /\ SetupKeeps \subseteq BOOLEAN

VARIABLES
  uptime,       \* lib/systick.c: the millisecond counter
  configured,   \* usbd_state = USBD_STATE_CONFIGURED
  suspended,    \* the SUSPSTS bit of the USB core
  wakeup_enabled,   \* usbd_remote_wakeup_enabled
  wakeup_sent,      \* hid_usbd_remote_wakeup_sent
  keys,         \* what a scan made now would populate each report with
  pressed,      \* some key has a press edge that no scan has consumed
  next,         \* next_hid_in_report_boot / _extra (NULL or the report)
  old,          \* old_hid_in_report_boot / _extra
  transmitting, \* hid_report_transmitting_boot / _extra
  idle_rate,    \* hid_idle_rate_ms_boot / _extra
  idle_finish,  \* idle_finish_ms_boot / _extra
  fifo,         \* the packet in the IN endpoint, not yet read by the host
  xfrc,         \* the endpoint's transfer-complete flag, not yet dispatched
  host          \* the last report the host took from the endpoint

(* History variables: nothing above depends on them. *)
VARIABLES
  stale,        \* next was sampled before the last SET_CONFIGURATION
  staleSent,    \* such reports written since, until the next sample
  since,        \* ticks since idle_finish was last assigned (at most W)
  behind,       \* polls in a row, endpoints free, that left old # keys
  rearmed,      \* since the last suspension ended a poll has found the bus active
  signals       \* remote wake-ups signalled in the current suspension

usb == <<configured, suspended, wakeup_enabled, wakeup_sent>>
input == <<keys, pressed>>
queue == <<next, old, transmitting, idle_rate, idle_finish>>
endpoint == <<fifo, xfrc, host>>
history == <<stale, staleSent, since, behind, rearmed, signals>>
vars == <<uptime, usb, input, queue, endpoint, history>>

Each(v) == [i \in Interface |-> v]

Init ==
  /\ uptime = 0
  /\ configured = FALSE /\ suspended = FALSE
  /\ wakeup_enabled = FALSE /\ wakeup_sent = FALSE
  /\ keys = Each(NoKeys) /\ pressed = FALSE
  /\ next = Each(NULL) /\ old = Each(NoKeys) /\ transmitting = Each(FALSE)
  /\ idle_rate = Each(0) /\ idle_finish = Each(0)
  /\ fifo = Each(NULL) /\ xfrc = Each(FALSE) /\ host = Each(NoKeys)
  /\ stale = Each(FALSE) /\ staleSent = Each(0)
  /\ since = Each(0) /\ behind = 0 /\ rearmed = TRUE /\ signals = 0

-----------------------------------------------------------------------------
(* The user and the clock. *)

KeyChange ==
  /\ \E k \in [Interface -> Report], p \in BOOLEAN :
       keys' = k /\ pressed' = (pressed \/ p)
  /\ behind' = 0
  /\ UNCHANGED <<uptime, usb, queue, endpoint,
                 stale, staleSent, since, rearmed, signals>>

Tick ==
  /\ uptime # Horizon
  /\ uptime' = (uptime + 1) % W
  /\ since' = [i \in Interface |-> IF since[i] < W THEN since[i] + 1 ELSE W]
  /\ UNCHANGED <<usb, input, queue, endpoint,
                 stale, staleSent, behind, rearmed, signals>>

-----------------------------------------------------------------------------
(* hid_poll *)

(* The operators named ...Mutant are wrong on purpose: each is the body of the *)
(* operator after it with a plausible slip, and one of the properties below    *)
(* must notice when it takes the operator's place.  No action uses them.       *)

\* update_hid_in_reports samples only when both queues are empty.
ResamplesMutant == \E i \in Interface : next[i] = NULL
Resamples == \A i \in Interface : next[i] = NULL

Queued == IF Resamples THEN keys ELSE next

\* The deadline test, a plain comparison of two W-bit times.
IdleDueMutant(i) == idle_rate[i] # 0 /\ uptime > idle_finish[i]
IdleDue(i) == idle_rate[i] # 0 /\ uptime >= idle_finish[i]

IdleDeadline(i) == (uptime + idle_rate[i]) % W

\* should_send_hid_in_report_*: its result and its *discard.
ShouldSendMutant(i) == IdleDue(i) \/ Queued[i] # old[i]
ShouldSend(i) == Queued[i] # NULL /\ (IdleDue(i) \/ Queued[i] # old[i])

DiscardMutant(i) == FALSE
Discard(i) == idle_rate[i] = 0 /\ Queued[i] = old[i]

\* send_hid_in_report_* is called, and usbd_ep_write_packet takes the packet.
AttemptsMutant(i) == ShouldSend(i)
Attempts(i) == ShouldSend(i) /\ ~transmitting[i]
Accepted(i) == Attempts(i) /\ fifo[i] = NULL

\* The queue is emptied; otherwise the same report waits for the next poll.
EmptiedMutant(i) == FALSE
Emptied(i) == Accepted(i) \/ (~ShouldSend(i) /\ Discard(i))

PollReports ==
  /\ pressed' = (pressed /\ ~Resamples)
  /\ idle_finish' = [i \in Interface |->
       IF Queued[i] # NULL /\ IdleDue(i) THEN IdleDeadline(i) ELSE idle_finish[i]]
  /\ old' = [i \in Interface |-> IF Attempts(i) THEN Queued[i] ELSE old[i]]
  /\ fifo' = [i \in Interface |-> IF Accepted(i) THEN Queued[i] ELSE fifo[i]]
  /\ transmitting' = [i \in Interface |-> Accepted(i) \/ transmitting[i]]
  /\ next' = [i \in Interface |-> IF Emptied(i) THEN NULL ELSE Queued[i]]
  /\ stale' = [i \in Interface |-> stale[i] /\ ~Resamples /\ ~Emptied(i)]
  /\ staleSent' = [i \in Interface |->
       IF Resamples THEN 0
       ELSE IF Accepted(i) /\ stale[i] /\ staleSent[i] < 2 THEN staleSent[i] + 1
       ELSE staleSent[i]]
  /\ since' = [i \in Interface |->
       IF Queued[i] # NULL /\ IdleDue(i) THEN 0 ELSE since[i]]
  /\ behind' = IF (\A i \in Interface : ~transmitting[i]) /\ old' # keys
               THEN (IF behind < 2 THEN behind + 1 ELSE 2) ELSE 0
  /\ UNCHANGED <<keys, idle_rate>>

(* The suspended branch scans only to look for a pressed edge, and so consumes *)
(* the edges; the signal itself is usdb_remote_wakeup_signal of lib/usb.c.     *)
LatchMutantNever(sent) == sent
LatchMutantAlways(sent) == TRUE
Latch(sent) == sent \/ pressed

ScanForWakeup(sent, count) ==
  /\ wakeup_sent' = Latch(sent)
  /\ signals' = IF pressed /\ count < 2 THEN count + 1 ELSE count
  /\ pressed' = FALSE
  /\ UNCHANGED <<keys, queue, fifo, stale, staleSent, since, behind>>

\* hid_poll reads SUSPSTS three times; the bus may change it once in between.
StatusReads ==
  {s \in [1 .. 3 -> BOOLEAN] :
     /\ s[1] = suspended
     /\ s[1] # s[2] => s[2] = s[3]
     /\ ~s[1] /\ s[3] => "suspend" \in HostDoes}

\* hid_usbd_remote_wakeup_sent is cleared by a poll that finds the bus active.
SentAfter(active) == wakeup_sent /\ ~active

Poll(s) ==
  LET sent == SentAfter(~s[1])
      count == IF s[3] /\ ~suspended THEN 0 ELSE signals
      scan == configured /\ s[2] /\ wakeup_enabled /\ ~sent
      up == configured /\ ~s[3]
  IN /\ suspended' = s[3]
     /\ rearmed' = (~s[1] \/ (s[3] /\ rearmed))
     /\ \/ scan /\ ScanForWakeup(sent, count)
        \/ /\ ~scan /\ up
           /\ PollReports
           /\ wakeup_sent' = sent /\ signals' = count
        \/ /\ ~scan /\ ~up
           /\ wakeup_sent' = sent /\ signals' = count
           /\ UNCHANGED <<input, queue, fifo, stale, staleSent, since, behind>>
     /\ UNCHANGED <<uptime, configured, wakeup_enabled, xfrc, host>>

HidPoll == \E s \in StatusReads : Poll(s)

SteadyPoll == Poll([n \in 1 .. 3 |-> suspended])

-----------------------------------------------------------------------------
(* The endpoint: the host takes the packet, later usbd_poll dispatches the *)
(* completion to the callback.                                             *)

BusActive == configured /\ ~suspended

HostRead(i) ==
  /\ BusActive /\ i \in HostPolls /\ fifo[i] # NULL
  /\ host' = [host EXCEPT ![i] = fifo[i]]
  /\ fifo' = [fifo EXCEPT ![i] = NULL]
  /\ xfrc' = [xfrc EXCEPT ![i] = TRUE]
  /\ UNCHANGED <<uptime, usb, input, queue, history>>

TransferComplete(i) ==
  /\ xfrc[i]
  /\ xfrc' = [xfrc EXCEPT ![i] = FALSE]
  /\ transmitting' = [transmitting EXCEPT ![i] = FALSE]
  /\ UNCHANGED <<uptime, usb, input, next, old, idle_rate, idle_finish,
                 fifo, host, history>>

-----------------------------------------------------------------------------
(* Requests and bus events. *)

SetConfig ==
  /\ "set_config" \in HostDoes /\ ~suspended
  /\ configured' = TRUE /\ wakeup_enabled' = FALSE /\ wakeup_sent' = FALSE
  /\ old' = Each(NoKeys) /\ transmitting' = Each(FALSE)
  /\ idle_rate' = Each(0) /\ idle_finish' = Each(0)
  /\ \E keep \in SetupKeeps :
       /\ fifo' = IF keep THEN fifo ELSE Each(NULL)
       /\ xfrc' = IF keep THEN xfrc ELSE Each(FALSE)
  /\ host' = Each(NoKeys)
  \* keys_reset: a key that is held has its press edge again
  /\ pressed' = (pressed \/ keys # Each(NoKeys))
  /\ stale' = [i \in Interface |-> next[i] # NULL]
  /\ staleSent' = Each(0) /\ behind' = 0
  /\ rearmed' = TRUE
  /\ UNCHANGED <<uptime, suspended, keys, next, since, signals>>

BusReset ==
  /\ "reset" \in HostDoes
  /\ configured' = FALSE /\ suspended' = FALSE
  /\ rearmed' = (rearmed /\ ~suspended)
  /\ UNCHANGED <<uptime, wakeup_enabled, wakeup_sent, input, queue, endpoint,
                 stale, staleSent, since, behind, signals>>

Suspend ==
  /\ "suspend" \in HostDoes /\ ~suspended
  /\ suspended' = TRUE /\ signals' = 0
  /\ UNCHANGED <<uptime, configured, wakeup_enabled, wakeup_sent, input, queue,
                 endpoint, stale, staleSent, since, behind, rearmed>>

Resume ==
  /\ suspended
  /\ suspended' = FALSE /\ rearmed' = FALSE
  /\ UNCHANGED <<uptime, configured, wakeup_enabled, wakeup_sent, input, queue,
                 endpoint, stale, staleSent, since, behind, signals>>

\* SET_FEATURE and CLEAR_FEATURE (DEVICE_REMOTE_WAKEUP) of lib/usb.c.
Feature(on) ==
  /\ "feature" \in HostDoes /\ BusActive
  /\ wakeup_enabled' = on
  /\ UNCHANGED <<uptime, configured, suspended, wakeup_sent, input, queue,
                 endpoint, history>>

SetIdle(i, duration) ==
  /\ "set_idle" \in HostDoes /\ BusActive
  /\ idle_rate' = [idle_rate EXCEPT ![i] = duration]
  /\ idle_finish' = [idle_finish EXCEPT ![i] = (uptime + duration) % W]
  /\ since' = [since EXCEPT ![i] = 0]
  /\ UNCHANGED <<uptime, usb, input, next, old, transmitting, endpoint,
                 stale, staleSent, behind, rearmed, signals>>

\* GET_REPORT forces a sample into both queues, whatever they hold.
GetReport ==
  /\ "get_report" \in HostDoes /\ BusActive
  /\ next' = keys /\ pressed' = FALSE
  /\ stale' = Each(FALSE) /\ staleSent' = Each(0)
  /\ UNCHANGED <<uptime, usb, keys, old, transmitting, idle_rate, idle_finish,
                 endpoint, since, behind, rearmed, signals>>

-----------------------------------------------------------------------------

Next ==
  \/ KeyChange
  \/ Tick
  \/ HidPoll
  \/ \E i \in Interface : HostRead(i)
  \/ \E i \in Interface : TransferComplete(i)
  \/ SetConfig
  \/ BusReset
  \/ Suspend
  \/ Resume
  \/ \E on \in BOOLEAN : Feature(on)
  \/ \E i \in Interface, duration \in IdleRates : SetIdle(i, duration)
  \/ GetReport

Spec == Init /\ [][Next]_vars

(* The main loop never stops calling usbd_poll and hid_poll (main.c), and a *)
(* host polls the IN endpoints it uses at their bInterval.  SteadyPoll: that *)
(* polls go on does not oblige the host to suspend or resume the bus.        *)
Fairness ==
  /\ WF_vars(SteadyPoll)
  /\ \A i \in Interface : WF_vars(TransferComplete(i)) /\ WF_vars(HostRead(i))

FairSpec == Spec /\ Fairness
-----------------------------------------------------------------------------
(* Properties *)

\* Every variable keeps to its range: in particular the clock and the idle
\* deadlines stay W-bit values, as the uint32_t variables of hid.c do.
TypeOK ==
  /\ uptime \in 0 .. W - 1
  /\ configured \in BOOLEAN /\ suspended \in BOOLEAN
  /\ wakeup_enabled \in BOOLEAN /\ wakeup_sent \in BOOLEAN
  /\ keys \in [Interface -> Report] /\ pressed \in BOOLEAN
  /\ next \in [Interface -> Report \cup {NULL}]
  /\ old \in [Interface -> Report]
  /\ transmitting \in [Interface -> BOOLEAN]
  /\ idle_rate \in [Interface -> IdleRates \cup {0}]
  /\ idle_finish \in [Interface -> 0 .. W - 1]
  /\ fifo \in [Interface -> Report \cup {NULL}]
  /\ xfrc \in [Interface -> BOOLEAN]
  /\ host \in [Interface -> Report]
  /\ stale \in [Interface -> BOOLEAN]
  /\ staleSent \in [Interface -> 0 .. 2]
  /\ since \in [Interface -> 0 .. W]
  /\ behind \in 0 .. 2 /\ rearmed \in BOOLEAN /\ signals \in 0 .. 2

\* The software flag mirrors the hardware: while the flag is clear the endpoint
\* is empty, so the write of send_hid_in_report_* is never refused (a refused
\* write would lose the report, "old" having been overwritten already).
WriteNeverRefused ==
  \A i \in Interface :
    /\ fifo[i] # NULL => transmitting[i] /\ ~xfrc[i]
    /\ xfrc[i] => transmitting[i]

\* The baseline of the change detection is what the host knows: "old" is the
\* packet that waits in the endpoint or, if none does, the last one the host
\* took.  Otherwise a change would be missed, or a repeat sent as a change.
OldIsLastSent ==
  \A i \in Interface : old[i] = IF fifo[i] # NULL THEN fifo[i] ELSE host[i]

\* The two together: what the program believes of an endpoint is what is in it.
EndpointMirrored == WriteNeverRefused /\ OldIsLastSent

\* After SET_CONFIGURATION (which does not clear the queues) at most one report
\* per interface that was sampled before it still reaches the endpoint.
AtMostOneStaleReport == \A i \in Interface : staleSent[i] <= 1

\* With both endpoints free, two polls in a row suffice to bring a key change
\* to the wire ("Send if there are changes", hid.c:562).
ChangeSentPromptly == behind <= 1

\* The device signals a remote wake-up at most once in a suspension, however
\* many keys are pressed and however the bus status moves during a poll.
AtMostOneWakeup == signals <= 1

\* "Send at idle rate" (hid.c:572): with an idle rate set and the endpoint
\* free, a poll repeats an unchanged report exactly when at least the idle
\* duration has passed since the deadline was last set.
IdleRateKept ==
  [][\A i \in Interface :
       ~ /\ BusActive /\ ~suspended'
         /\ idle_rate[i] # 0 /\ ~transmitting[i] /\ Queued[i] = old[i]
         /\ (fifo'[i] # NULL) # (since[i] >= idle_rate[i])
         /\ HidPoll]_vars

\* Whatever happened before, once the keys of an interface rest and the bus stays
\* active (and is not configured over and over) the host ends up with the report
\* of these keys, even if those of the other interface never rest.
MirroredOn(i) ==
  \A report \in Report :
    <>[](BusActive /\ keys[i] = report) /\ <>[][~SetConfig]_vars
      => <>[](host[i] = report)

HostMirrors == \A i \in Interface : MirroredOn(i)

\* The same for the boot interface alone: what a BIOS needs that polls nothing
\* else (README.md: "works on all BIOS").
BootMirrored == MirroredOn("boot")

\* A key pressed while the host sleeps, with remote wake-up enabled, wakes it
\* (README.md:54), if since the suspension before a poll has found the bus active
\* or a SET_CONFIGURATION has come.  Only these clear the latch of the wake-up
\* before (hid.c:676, hid.c:515): when the bus is suspended again sooner, no key
\* of that suspension wakes the host, and the property without "rearmed" fails.
Asleep == configured /\ suspended /\ wakeup_enabled
PressWakes == (Asleep /\ pressed /\ rearmed) ~> (signals > 0 \/ ~Asleep)

\* With its flags, deadlines and old reports the pipeline does what a channel does
\* that compares every sample with what the host itself was given.
Channel == INSTANCE ReportChannel WITH
             sample <- next, packet <- fifo, Repeats <- IdleRates \ {0} # {}
ImplementsChannel == Channel!Spec
=============================================================================
