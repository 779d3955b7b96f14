--------------------------- MODULE HidReportsProofs ---------------------------
(* What HidReports promises for every set of reports, clock width, idle rate,  *)
(* polling pattern and number of suspensions.                                  *)
EXTENDS HidReports, TLAPS

-----------------------------------------------------------------------------
(* Type correctness.  The three parts of hid_poll come first.                *)

\* A report that is queued is a report: either the new sample or the old queue.
LEMMA QueuedType ==
  ASSUME TypeOK
  PROVE  Queued \in [Interface -> Report \cup {NULL}]
BY DEF TypeOK, Queued

\* Sampling, comparing and writing keep every variable in its range.
LEMMA PollReportsType ==
  ASSUME TypeOK, PollReports
  PROVE  /\ keys' \in [Interface -> Report] /\ pressed' \in BOOLEAN
         /\ next' \in [Interface -> Report \cup {NULL}]
         /\ old' \in [Interface -> Report]
         /\ transmitting' \in [Interface -> BOOLEAN]
         /\ idle_rate' \in [Interface -> IdleRates \cup {0}]
         /\ idle_finish' \in [Interface -> 0 .. W - 1]
         /\ fifo' \in [Interface -> Report \cup {NULL}]
         /\ stale' \in [Interface -> BOOLEAN]
         /\ staleSent' \in [Interface -> 0 .. 2]
         /\ since' \in [Interface -> 0 .. W]
         /\ behind' \in 0 .. 2
<1>1. \A i \in Interface : IdleDeadline(i) \in 0 .. W - 1
  <2>. SUFFICES ASSUME NEW i \in Interface PROVE IdleDeadline(i) \in 0 .. W - 1
    OBVIOUS
  <2>1. idle_rate[i] \in Nat
    <3>1. idle_rate[i] \in IdleRates \/ idle_rate[i] = 0
      BY DEF TypeOK
    <3>2. \A d \in IdleRates : d \in 0 .. W - 1
      BY ClockAssumption
    <3>3. \A d \in 0 .. W - 1 : d \in Nat
      BY ClockAssumption
    <3>. QED BY <3>1, <3>2, <3>3
  <2>2. uptime \in Nat
    BY ClockAssumption DEF TypeOK
  <2>. QED BY <2>1, <2>2, ClockAssumption DEF IdleDeadline
<1>2. keys' \in [Interface -> Report] /\ pressed' \in BOOLEAN
  BY DEF TypeOK, PollReports, Resamples
<1>3. next' \in [Interface -> Report \cup {NULL}]
  BY QueuedType DEF TypeOK, PollReports
<1>4. \A i \in Interface : ShouldSend(i) => Queued[i] \in Report
  BY QueuedType DEF ShouldSend
<1>5. old' \in [Interface -> Report]
  BY <1>4 DEF TypeOK, PollReports, Attempts
<1>6. transmitting' \in [Interface -> BOOLEAN]
  BY DEF TypeOK, PollReports, Accepted, Attempts, ShouldSend, IdleDue
<1>7. idle_rate' \in [Interface -> IdleRates \cup {0}]
  BY DEF TypeOK, PollReports
<1>8. idle_finish' \in [Interface -> 0 .. W - 1]
  BY <1>1 DEF TypeOK, PollReports
<1>9. fifo' \in [Interface -> Report \cup {NULL}]
  BY QueuedType DEF TypeOK, PollReports
<1>10. stale' \in [Interface -> BOOLEAN]
  BY DEF TypeOK, PollReports, Resamples
<1>11. staleSent' \in [Interface -> 0 .. 2]
  BY DEF TypeOK, PollReports
<1>12. since' \in [Interface -> 0 .. W]
  BY ClockAssumption DEF TypeOK, PollReports
<1>13. behind' \in 0 .. 2
  BY DEF TypeOK, PollReports
<1>. QED BY <1>2, <1>3, <1>5, <1>6, <1>7, <1>8, <1>9, <1>10, <1>11, <1>12, <1>13

\* So does the scan of the suspended branch.
LEMMA ScanForWakeupType ==
  ASSUME TypeOK, NEW sent \in BOOLEAN, NEW count \in 0 .. 2,
         ScanForWakeup(sent, count)
  PROVE  wakeup_sent' \in BOOLEAN /\ signals' \in 0 .. 2 /\ pressed' \in BOOLEAN
<1>1. wakeup_sent' \in BOOLEAN
  BY Zenon DEF TypeOK, ScanForWakeup, Latch
<1>2. signals' \in 0 .. 2
  BY DEF TypeOK, ScanForWakeup
<1>3. pressed' \in BOOLEAN
  BY DEF ScanForWakeup
<1>. QED BY <1>1, <1>2, <1>3

\* A poll as a whole, with any status reads the bus allows.
LEMMA PollType ==
  ASSUME TypeOK, NEW s \in StatusReads, Poll(s)
  PROVE  TypeOK'
<1>. DEFINE sent == SentAfter(~s[1])
            count == IF s[3] /\ ~suspended THEN 0 ELSE signals
<1>1. s \in [1 .. 3 -> BOOLEAN]
  BY DEF StatusReads
<1>2. sent \in BOOLEAN /\ count \in 0 .. 2
  BY <1>1 DEF TypeOK, SentAfter
<1>3. suspended' \in BOOLEAN /\ rearmed' \in BOOLEAN
  <2>1. s[3] \in BOOLEAN
    BY <1>1
  <2>2. suspended' = s[3] /\ rearmed' = (~s[1] \/ (s[3] /\ rearmed))
    BY DEF Poll
  <2>. QED BY Zenon, <2>1, <2>2 DEF TypeOK
<1>4. /\ uptime' \in 0 .. W - 1 /\ configured' \in BOOLEAN
      /\ wakeup_enabled' \in BOOLEAN /\ xfrc' \in [Interface -> BOOLEAN]
      /\ host' \in [Interface -> Report]
  BY DEF TypeOK, Poll
<1>5. CASE ScanForWakeup(sent, count)
  <2>1. wakeup_sent' \in BOOLEAN /\ signals' \in 0 .. 2 /\ pressed' \in BOOLEAN
    BY <1>2, <1>5, ScanForWakeupType
  <2>. QED BY <1>3, <1>4, <1>5, <2>1 DEF TypeOK, ScanForWakeup, queue
<1>6. CASE PollReports /\ wakeup_sent' = sent /\ signals' = count
  BY <1>2, <1>3, <1>4, <1>6, PollReportsType DEF TypeOK
<1>7. CASE /\ wakeup_sent' = sent /\ signals' = count
           /\ UNCHANGED <<input, queue, fifo, stale, staleSent, since, behind>>
  BY <1>2, <1>3, <1>4, <1>7 DEF TypeOK, input, queue
<1>. QED BY <1>5, <1>6, <1>7 DEF Poll

LEMMA InitType == Init => TypeOK
<1>1. 0 \in 0 .. W - 1 /\ 0 \in 0 .. W
  BY ClockAssumption
<1>2. 0 \in 0 .. 2 /\ 0 \in IdleRates \cup {0}
  OBVIOUS
<1>3. ASSUME NEW S, NEW v \in S PROVE Each(v) \in [Interface -> S]
  BY DEF Each
<1>4. SUFFICES ASSUME Init PROVE TypeOK
  OBVIOUS
<1>5. /\ keys \in [Interface -> Report] /\ old \in [Interface -> Report]
      /\ host \in [Interface -> Report]
  BY <1>3, <1>4, ReportsAssumption DEF Init
<1>6. /\ next \in [Interface -> Report \cup {NULL}]
      /\ fifo \in [Interface -> Report \cup {NULL}]
  BY <1>3, <1>4 DEF Init
<1>7. /\ transmitting \in [Interface -> BOOLEAN]
      /\ xfrc \in [Interface -> BOOLEAN] /\ stale \in [Interface -> BOOLEAN]
  BY <1>3, <1>4 DEF Init
<1>8. /\ idle_rate \in [Interface -> IdleRates \cup {0}]
      /\ idle_finish \in [Interface -> 0 .. W - 1]
      /\ staleSent \in [Interface -> 0 .. 2] /\ since \in [Interface -> 0 .. W]
  BY <1>1, <1>2, <1>3, <1>4 DEF Init
<1>. QED BY <1>1, <1>2, <1>4, <1>5, <1>6, <1>7, <1>8 DEF Init, TypeOK

\* Every step keeps the types; one case per action of Next.
LEMMA NextType ==
  ASSUME TypeOK, [Next]_vars
  PROVE  TypeOK'
<1>1. CASE KeyChange
  BY <1>1 DEF TypeOK, KeyChange, usb, queue, endpoint
<1>2. CASE Tick
  <2>1. uptime' \in 0 .. W - 1
    BY <1>2, ClockAssumption DEF TypeOK, Tick
  <2>2. since' \in [Interface -> 0 .. W]
    BY <1>2, ClockAssumption DEF TypeOK, Tick
  <2>. QED BY <1>2, <2>1, <2>2 DEF TypeOK, Tick, usb, input, queue, endpoint
<1>3. CASE HidPoll
  BY <1>3, PollType DEF HidPoll
<1>4. ASSUME NEW i \in Interface, HostRead(i) PROVE TypeOK'
  BY <1>4 DEF TypeOK, HostRead, usb, input, queue, history
<1>5. ASSUME NEW i \in Interface, TransferComplete(i) PROVE TypeOK'
  BY <1>5 DEF TypeOK, TransferComplete, usb, input, history
<1>6. CASE SetConfig
  <2>1. fifo' \in [Interface -> Report \cup {NULL}]
        /\ xfrc' \in [Interface -> BOOLEAN]
    BY <1>6 DEF TypeOK, SetConfig, Each
  <2>2. /\ idle_rate' \in [Interface -> IdleRates \cup {0}]
        /\ idle_finish' \in [Interface -> 0 .. W - 1]
        /\ staleSent' \in [Interface -> 0 .. 2] /\ behind' \in 0 .. 2
    BY <1>6, ClockAssumption DEF TypeOK, SetConfig, Each
  <2>3. /\ old' \in [Interface -> Report] /\ host' \in [Interface -> Report]
        /\ transmitting' \in [Interface -> BOOLEAN]
        /\ stale' \in [Interface -> BOOLEAN]
    BY <1>6, ReportsAssumption DEF TypeOK, SetConfig, Each
  <2>4. pressed' \in BOOLEAN
    BY <1>6 DEF SetConfig
  <2>. QED BY <1>6, <2>1, <2>2, <2>3, <2>4 DEF TypeOK, SetConfig
<1>7. CASE BusReset
  <2>1. rearmed' \in BOOLEAN
    BY Zenon, <1>7 DEF TypeOK, BusReset
  <2>. QED BY <1>7, <2>1 DEF TypeOK, BusReset, input, queue, endpoint
<1>8. CASE Suspend
  <2>1. signals' \in 0 .. 2
    BY <1>8 DEF Suspend
  <2>. QED BY <1>8, <2>1 DEF TypeOK, Suspend, input, queue, endpoint
<1>9. CASE Resume
  BY <1>9 DEF TypeOK, Resume, input, queue, endpoint
<1>10. ASSUME NEW on \in BOOLEAN, Feature(on) PROVE TypeOK'
  BY <1>10 DEF TypeOK, Feature, input, queue, endpoint, history
<1>11. ASSUME NEW i \in Interface, NEW duration \in IdleRates,
              SetIdle(i, duration)
       PROVE  TypeOK'
  <2>1. \A d \in IdleRates : d \in 0 .. W - 1
    BY ClockAssumption
  <2>2. (uptime + duration) % W \in 0 .. W - 1
    BY <2>1, ClockAssumption DEF TypeOK
  <2>3. /\ idle_rate' \in [Interface -> IdleRates \cup {0}]
        /\ idle_finish' \in [Interface -> 0 .. W - 1]
    BY <1>11, <2>2 DEF TypeOK, SetIdle
  <2>4. since' \in [Interface -> 0 .. W]
    BY <1>11, ClockAssumption DEF TypeOK, SetIdle
  <2>. QED BY <1>11, <2>3, <2>4 DEF TypeOK, SetIdle, usb, input, endpoint
<1>12. CASE GetReport
  <2>1. /\ stale' \in [Interface -> BOOLEAN]
        /\ staleSent' \in [Interface -> 0 .. 2]
    BY <1>12 DEF GetReport, Each
  <2>2. next' \in [Interface -> Report \cup {NULL}] /\ pressed' \in BOOLEAN
    BY <1>12 DEF TypeOK, GetReport
  <2>. QED BY <1>12, <2>1, <2>2 DEF TypeOK, GetReport, usb, endpoint
<1>13. CASE UNCHANGED vars
  BY <1>13 DEF TypeOK, vars, usb, input, queue, endpoint, history
<1>. QED
  BY <1>1, <1>2, <1>3, <1>4, <1>5, <1>6, <1>7, <1>8, <1>9, <1>10, <1>11,
     <1>12, <1>13 DEF Next

\* Every variable of the pipeline keeps to its range, the clock and the
\* deadlines wrapping at W, for all reports, rates and host behaviours.
THEOREM TypeCorrect == Spec => []TypeOK
<1>. QED BY InitType, NextType, PTL DEF Spec

-----------------------------------------------------------------------------
(* The endpoint.  These facts need the endpoint set-up of SET_CONFIGURATION to *)
(* leave nothing behind.  OldIsLastSent is not inductive alone: an attempted   *)
(* write sets "old" whether or not the endpoint takes the packet, and only     *)
(* WriteNeverRefused says that it does.                                        *)

LEMMA InitEndpoint == Init => EndpointMirrored
BY DEF Init, EndpointMirrored, WriteNeverRefused, OldIsLastSent, Each

\* What one poll does to the endpoint of one interface.
LEMMA PollReportsEndpoint ==
  ASSUME TypeOK, EndpointMirrored, PollReports, xfrc' = xfrc, host' = host
  PROVE  EndpointMirrored'
<1>. SUFFICES ASSUME NEW i \in Interface
              PROVE  /\ fifo'[i] # NULL => transmitting'[i] /\ ~xfrc'[i]
                     /\ xfrc'[i] => transmitting'[i]
                     /\ old'[i] = IF fifo'[i] # NULL THEN fifo'[i] ELSE host'[i]
  BY DEF EndpointMirrored, WriteNeverRefused, OldIsLastSent
<1>1. CASE Attempts(i)
  <2>1. fifo[i] = NULL /\ ~xfrc[i]
    BY <1>1 DEF Attempts, EndpointMirrored, WriteNeverRefused
  <2>2. Accepted(i) /\ Queued[i] # NULL
    BY <1>1, <2>1 DEF Accepted, Attempts, ShouldSend
  <2>3. old'[i] = Queued[i] /\ fifo'[i] = Queued[i] /\ transmitting'[i]
    BY <1>1, <2>2 DEF PollReports
  <2>. QED BY <2>1, <2>2, <2>3
<1>2. CASE ~Attempts(i)
  <2>1. ~Accepted(i)
    BY <1>2 DEF Accepted
  <2>2. /\ old'[i] = old[i] /\ fifo'[i] = fifo[i]
        /\ transmitting'[i] = transmitting[i]
    BY <1>2, <2>1 DEF PollReports, TypeOK
  <2>. QED BY <2>2 DEF EndpointMirrored, WriteNeverRefused, OldIsLastSent
<1>. QED BY <1>1, <1>2

LEMMA NextEndpoint ==
  ASSUME SetupKeeps = {FALSE}, TypeOK, EndpointMirrored, [Next]_vars
  PROVE  EndpointMirrored'
<1>1. CASE KeyChange
  BY <1>1 DEF EndpointMirrored, WriteNeverRefused, OldIsLastSent, KeyChange, queue,
              endpoint
<1>2. CASE Tick
  BY <1>2 DEF EndpointMirrored, WriteNeverRefused, OldIsLastSent, Tick, queue, endpoint
<1>3. ASSUME NEW s \in StatusReads, Poll(s) PROVE EndpointMirrored'
  <2>1. xfrc' = xfrc /\ host' = host
    BY <1>3 DEF Poll
  <2>2. CASE PollReports
    BY <2>1, <2>2, PollReportsEndpoint
  <2>3. CASE UNCHANGED <<queue, fifo>>
    BY <2>1, <2>3 DEF EndpointMirrored, WriteNeverRefused, OldIsLastSent, queue
  <2>. QED BY <1>3, <2>2, <2>3 DEF Poll, ScanForWakeup
<1>4. ASSUME NEW i \in Interface, HostRead(i) PROVE EndpointMirrored'
  <2>1. /\ fifo' = [fifo EXCEPT ![i] = NULL] /\ host' = [host EXCEPT ![i] = fifo[i]]
        /\ xfrc' = [xfrc EXCEPT ![i] = TRUE] /\ fifo[i] # NULL
        /\ old' = old /\ transmitting' = transmitting
    BY <1>4 DEF HostRead, queue
  <2>. QED BY <2>1 DEF EndpointMirrored, WriteNeverRefused, OldIsLastSent, TypeOK
<1>5. ASSUME NEW i \in Interface, TransferComplete(i) PROVE EndpointMirrored'
  BY <1>5 DEF EndpointMirrored, WriteNeverRefused, OldIsLastSent, TransferComplete, TypeOK
<1>6. CASE SetConfig
  <2>1. /\ fifo' = Each(NULL) /\ xfrc' = Each(FALSE)
        /\ old' = Each(NoKeys) /\ host' = Each(NoKeys)
    BY <1>6 DEF SetConfig
  <2>. QED BY <2>1 DEF EndpointMirrored, WriteNeverRefused, OldIsLastSent, Each
<1>7. CASE BusReset \/ Suspend \/ Resume
  BY <1>7 DEF EndpointMirrored, WriteNeverRefused, OldIsLastSent, BusReset, Suspend,
              Resume, queue, endpoint
<1>8. ASSUME NEW on \in BOOLEAN, Feature(on) PROVE EndpointMirrored'
  BY <1>8 DEF EndpointMirrored, WriteNeverRefused, OldIsLastSent, Feature, queue, endpoint
<1>9. ASSUME NEW i \in Interface, NEW duration \in IdleRates,
             SetIdle(i, duration)
      PROVE  EndpointMirrored'
  BY <1>9 DEF EndpointMirrored, WriteNeverRefused, OldIsLastSent, SetIdle, endpoint
<1>10. CASE GetReport
  BY <1>10 DEF EndpointMirrored, WriteNeverRefused, OldIsLastSent, GetReport, endpoint
<1>11. CASE UNCHANGED vars
  BY <1>11 DEF EndpointMirrored, WriteNeverRefused, OldIsLastSent, vars, queue, endpoint
<1>. QED
  BY <1>1, <1>2, <1>3, <1>4, <1>5, <1>6, <1>7, <1>8, <1>9, <1>10, <1>11
  DEF Next, HidPoll

\* No write to an endpoint is refused, so no report is lost there, and the change
\* detection always compares with what the host was last given (EndpointMirrored).
THEOREM Mirrored ==
  ASSUME SetupKeeps = {FALSE}
  PROVE  Spec => []EndpointMirrored
BY InitType, NextType, InitEndpoint, NextEndpoint, PTL DEF Spec

-----------------------------------------------------------------------------
(* Stale reports.  A report that is written leaves its queue empty, and an empty *)
(* queue holds nothing stale.                                                    *)

StaleInv ==
  \A i \in Interface :
    /\ staleSent[i] <= 1
    /\ staleSent[i] # 0 => ~stale[i]

LEMMA InitStale == Init => StaleInv
BY DEF Init, StaleInv, Each

LEMMA PollReportsStale ==
  ASSUME TypeOK, StaleInv, PollReports
  PROVE  StaleInv'
<1>. SUFFICES ASSUME NEW i \in Interface
              PROVE  /\ staleSent'[i] <= 1
                     /\ staleSent'[i] # 0 => ~stale'[i]
  BY DEF StaleInv
<1>1. stale'[i] = (stale[i] /\ ~Resamples /\ ~Emptied(i))
  BY DEF PollReports
<1>2. CASE Resamples
  BY <1>2 DEF PollReports
<1>3. CASE ~Resamples /\ Accepted(i) /\ stale[i]
  <2>1. staleSent[i] = 0 /\ ~stale'[i]
    BY <1>1, <1>3 DEF StaleInv, TypeOK, Emptied
  <2>2. staleSent'[i] = 1
    BY <1>3, <2>1 DEF PollReports
  <2>. QED BY <2>1, <2>2
<1>4. CASE ~Resamples /\ ~(Accepted(i) /\ stale[i])
  <2>1. staleSent'[i] = staleSent[i]
    BY <1>4 DEF PollReports
  <2>. QED BY <1>1, <2>1 DEF StaleInv
<1>. QED BY <1>2, <1>3, <1>4

LEMMA NextStale ==
  ASSUME TypeOK, StaleInv, [Next]_vars
  PROVE  StaleInv'
<1>1. ASSUME NEW s \in StatusReads, Poll(s) PROVE StaleInv'
  <2>1. CASE PollReports
    BY <2>1, PollReportsStale
  <2>2. CASE UNCHANGED <<queue, stale, staleSent>>
    BY <2>2 DEF StaleInv, queue
  <2>. QED BY <1>1, <2>1, <2>2 DEF Poll, ScanForWakeup
<1>2. CASE SetConfig \/ GetReport
  BY <1>2 DEF StaleInv, SetConfig, GetReport, Each
<1>3. CASE UNCHANGED <<stale, staleSent>>
  BY <1>3 DEF StaleInv
<1>. QED
  BY <1>1, <1>2, <1>3
  DEF Next, HidPoll, KeyChange, Tick, HostRead, TransferComplete, BusReset,
      Suspend, Resume, Feature, SetIdle, vars, queue, history

\* A reconfiguration lets at most one report sampled before it through.
THEOREM OneStaleReport == Spec => []AtMostOneStaleReport
<1>1. StaleInv => AtMostOneStaleReport
  BY DEF StaleInv, AtMostOneStaleReport
<1>. QED BY <1>1, InitType, NextType, InitStale, NextStale, PTL DEF Spec

-----------------------------------------------------------------------------
(* Remote wake-up.  While suspended, a signal given is a signal remembered. *)

WakeInv == signals <= 1 /\ (suspended /\ signals = 1 => wakeup_sent)

LEMMA InitWake == Init => WakeInv
BY DEF Init, WakeInv

LEMMA PollWake ==
  ASSUME TypeOK, WakeInv, NEW s \in StatusReads, Poll(s)
  PROVE  WakeInv'
<1>. DEFINE sent == SentAfter(~s[1])
            count == IF s[3] /\ ~suspended THEN 0 ELSE signals
<1>1. s[1] = suspended /\ suspended' = s[3]
  BY DEF StatusReads, Poll
<1>2. count \in 0 .. 2 /\ count <= 1
  BY DEF TypeOK, WakeInv
<1>3. suspended => (sent <=> wakeup_sent)
  BY <1>1 DEF SentAfter
<1>4. CASE ScanForWakeup(sent, count) /\ s[2] /\ ~sent
  <2>1. count = 0 \/ ~suspended
    BY <1>2, <1>3, <1>4 DEF WakeInv
  <2>2. ~suspended => s[3]
    BY <1>1, <1>4 DEF StatusReads
  <2>3. count = 0
    BY <2>1, <2>2
  <2>4. CASE pressed
    <3>1. wakeup_sent'
      BY Zenon, <1>4, <2>4 DEF ScanForWakeup, Latch
    <3>2. signals' = 1
      BY <1>4, <2>3, <2>4 DEF ScanForWakeup
    <3>. QED BY <3>1, <3>2 DEF WakeInv
  <2>5. CASE ~pressed
    BY <1>4, <2>3, <2>5 DEF ScanForWakeup, WakeInv
  <2>. QED BY <2>4, <2>5
<1>5. CASE wakeup_sent' = sent /\ signals' = count
  <2>1. CASE suspended
    BY <1>2, <1>3, <1>5, <2>1 DEF WakeInv
  <2>2. CASE ~suspended /\ s[3]
    BY <1>5, <2>2 DEF WakeInv
  <2>3. CASE ~s[3]
    BY <1>1, <1>2, <1>5, <2>3 DEF WakeInv
  <2>. QED BY <2>1, <2>2, <2>3
<1>. QED BY <1>4, <1>5 DEF Poll

LEMMA NextWake ==
  ASSUME TypeOK, WakeInv, [Next]_vars
  PROVE  WakeInv'
<1>1. CASE HidPoll
  BY <1>1, PollWake DEF HidPoll
<1>2. CASE SetConfig \/ Resume \/ BusReset
  <2>1. ~suspended'
    BY Zenon, <1>2 DEF SetConfig, Resume, BusReset
  <2>2. signals' = signals
    BY <1>2 DEF SetConfig, Resume, BusReset, history
  <2>. QED BY <2>1, <2>2 DEF WakeInv
<1>3. CASE Suspend
  <2>1. signals' = 0
    BY <1>3 DEF Suspend
  <2>. QED BY <2>1 DEF WakeInv
<1>4. CASE UNCHANGED <<suspended, wakeup_sent, signals>>
  BY <1>4 DEF WakeInv
<1>. QED
  BY <1>1, <1>2, <1>3, <1>4
  DEF Next, KeyChange, Tick, HostRead, TransferComplete, Feature, SetIdle,
      GetReport, vars, usb, history

\* However often the bus changes during a poll, one suspension, one signal.
THEOREM OneWakeup == Spec => []AtMostOneWakeup
<1>1. WakeInv => AtMostOneWakeup
  BY DEF WakeInv, AtMostOneWakeup
<1>. QED BY <1>1, InitType, NextType, InitWake, NextWake, PTL DEF Spec

-----------------------------------------------------------------------------
(* The latch.  What PressWakes needs of every state: as long as its condition    *)
(* holds, a latch that keeps the scan away was set by a signal of this suspension.*)

LatchInv ==
  rearmed => /\ suspended /\ wakeup_sent => signals > 0
             /\ ~suspended => ~wakeup_sent

LEMMA InitLatch == Init => LatchInv
BY DEF Init, LatchInv

\* A poll that is to leave the condition true found the bus active and cleared the
\* latch, or ran in a suspension to which the condition applied before.
LEMMA PollLatch ==
  ASSUME TypeOK, LatchInv, NEW s \in StatusReads, Poll(s), rearmed'
  PROVE  /\ suspended' /\ wakeup_sent' => signals' > 0
         /\ ~suspended' => ~wakeup_sent'
<1>. DEFINE sent == SentAfter(~s[1])
            count == IF s[3] /\ ~suspended THEN 0 ELSE signals
<1>1. s \in [1 .. 3 -> BOOLEAN] /\ s[1] = suspended /\ suspended' = s[3]
  BY DEF StatusReads, Poll
<1>2. ~s[1] \/ (s[3] /\ rearmed)
  BY DEF Poll
<1>3. CASE ~s[1]
  <2>1. ~sent /\ ~suspended
    BY Zenon, <1>1, <1>3 DEF SentAfter
  <2>2. CASE ScanForWakeup(sent, count) /\ s[2]
    <3>1. s[3] /\ count = 0
      BY <1>1, <1>3, <2>1, <2>2 DEF StatusReads
    <3>2. wakeup_sent' => pressed
      BY Zenon, <2>1, <2>2 DEF ScanForWakeup, Latch
    <3>3. pressed => signals' = 1
      BY <2>2, <3>1 DEF ScanForWakeup
    <3>. QED BY <1>1, <3>1, <3>2, <3>3
  <2>3. CASE wakeup_sent' = sent /\ signals' = count
    BY Zenon, <2>1, <2>3
  <2>. QED BY <2>2, <2>3 DEF Poll
<1>4. CASE s[1]
  <2>1. s[3] /\ rearmed /\ suspended
    BY <1>1, <1>2, <1>4
  <2>2. sent <=> wakeup_sent
    BY Zenon, <1>4 DEF SentAfter
  <2>3. count = signals /\ signals \in 0 .. 2
    BY <2>1 DEF TypeOK
  <2>4. CASE ScanForWakeup(sent, count) /\ ~sent
    <3>1. wakeup_sent' => pressed
      BY Zenon, <2>4 DEF ScanForWakeup, Latch
    <3>2. pressed => signals' > 0
      BY <2>3, <2>4 DEF ScanForWakeup
    <3>. QED BY <1>1, <2>1, <3>1, <3>2
  <2>5. CASE wakeup_sent' = sent /\ signals' = count
    BY <1>1, <2>1, <2>2, <2>3, <2>5 DEF LatchInv
  <2>. QED BY <2>4, <2>5 DEF Poll
<1>. QED BY <1>1, <1>3, <1>4

LEMMA NextLatch ==
  ASSUME TypeOK, LatchInv, [Next]_vars
  PROVE  LatchInv'
<1>1. CASE HidPoll
  BY <1>1, PollLatch DEF HidPoll, LatchInv
<1>2. CASE SetConfig
  BY <1>2 DEF SetConfig, LatchInv
<1>3. CASE BusReset
  <2>1. rearmed' => rearmed /\ ~suspended
    BY <1>3 DEF BusReset
  <2>. QED BY <1>3, <2>1 DEF BusReset, LatchInv
<1>4. CASE Suspend
  BY <1>4 DEF Suspend, LatchInv
<1>5. CASE Resume
  BY <1>5 DEF Resume, LatchInv
<1>6. CASE UNCHANGED <<suspended, wakeup_sent, rearmed, signals>>
  BY <1>6 DEF LatchInv
<1>. QED
  BY <1>1, <1>2, <1>3, <1>4, <1>5, <1>6
  DEF Next, KeyChange, Tick, HostRead, TransferComplete, Feature, SetIdle,
      GetReport, vars, usb, history

\* No suspension whose beginning a poll could tell from the one before is deaf to
\* the keys: the latch that stops the scan of hid_poll (hid.c:679) is set only when
\* this very suspension has had its signal.  PressWakes adds that the scan comes.
LatchOfThisSuspension == Asleep /\ rearmed /\ wakeup_sent => signals > 0

THEOREM LatchSpent == Spec => []LatchOfThisSuspension
<1>1. LatchInv => LatchOfThisSuspension
  BY DEF LatchInv, LatchOfThisSuspension, Asleep
<1>. QED BY <1>1, InitType, NextType, InitLatch, NextLatch, PTL DEF Spec

-----------------------------------------------------------------------------
(* Promptness.  A poll that finds both endpoints free and still leaves "old"     *)
(* behind the keys has emptied the queues of an older sample: the next one takes *)
(* its sample from the keys of the moment.                                       *)

PromptInv == behind <= 1 /\ (behind # 0 => Queued = keys)

LEMMA NoIdle ==
  ASSUME IdleRates \subseteq {0}, TypeOK
  PROVE  \A i \in Interface : idle_rate[i] = 0 /\ ~IdleDue(i)
BY DEF TypeOK, IdleDue

\* With the endpoint of i free, a poll sends or drops what is queued for i.
LEMMA FreeIsServed ==
  ASSUME IdleRates \subseteq {0}, TypeOK, EndpointMirrored, PollReports,
         NEW i \in Interface, ~transmitting[i]
  PROVE  next'[i] = NULL /\ (Queued[i] # NULL => old'[i] = Queued[i])
<1>1. fifo[i] = NULL /\ idle_rate[i] = 0
  BY NoIdle DEF EndpointMirrored, WriteNeverRefused
<1>2. CASE Queued[i] = NULL
  BY <1>2 DEF PollReports
<1>3. CASE Queued[i] # NULL /\ Queued[i] # old[i]
  <2>1. Attempts(i) /\ Accepted(i)
    BY <1>1, <1>3 DEF Accepted, Attempts, ShouldSend
  <2>. QED BY <2>1 DEF PollReports, Emptied
<1>4. CASE Queued[i] # NULL /\ Queued[i] = old[i]
  <2>1. ~ShouldSend(i) /\ Discard(i)
    BY <1>1, <1>4, NoIdle DEF ShouldSend, Discard
  <2>. QED BY <1>4, <2>1 DEF PollReports, Emptied, Attempts, TypeOK
<1>. QED BY <1>2, <1>3, <1>4

LEMMA PollReportsPrompt ==
  ASSUME IdleRates \subseteq {0}, TypeOK, EndpointMirrored, PromptInv, PollReports
  PROVE  PromptInv'
<1>1. keys' = keys
  BY DEF PollReports
<1>2. CASE \E i \in Interface : transmitting[i]
  <2>1. ~(\A i \in Interface : ~transmitting[i])
    BY <1>2
  <2>2. behind' = 0
    BY <2>1 DEF PollReports
  <2>. QED BY <2>2 DEF PromptInv
<1>3. CASE \A i \in Interface : ~transmitting[i]
  <2>1. \A i \in Interface : next'[i] = NULL
    BY <1>3, FreeIsServed
  <2>2. Queued' = keys'
    BY <2>1 DEF Queued, Resamples
  <2>3. CASE Queued = keys
    <3>1. \A i \in Interface : keys[i] # NULL
      BY ReportsAssumption DEF TypeOK
    <3>2. \A i \in Interface : old'[i] = keys[i]
      BY <1>3, <2>3, <3>1, FreeIsServed
    <3>3. old' = keys
      BY <3>2, PollReportsType DEF TypeOK
    <3>. QED BY <2>2, <3>3 DEF PollReports, PromptInv
  <2>4. CASE Queued # keys
    <3>1. behind = 0
      BY <2>4 DEF PromptInv
    <3>2. behind' <= 1
      BY <3>1 DEF PollReports
    <3>. QED BY <2>2, <3>2 DEF PromptInv
  <2>. QED BY <2>3, <2>4
<1>. QED BY <1>2, <1>3

LEMMA NextPrompt ==
  ASSUME IdleRates \subseteq {0}, TypeOK, EndpointMirrored, PromptInv, [Next]_vars
  PROVE  PromptInv'
<1>0. UNCHANGED <<keys, next, behind>> => PromptInv'
  BY DEF PromptInv, Queued, Resamples
<1>1. ASSUME NEW s \in StatusReads, Poll(s) PROVE PromptInv'
  <2>1. CASE PollReports
    BY <2>1, PollReportsPrompt
  <2>2. PollReports \/ UNCHANGED <<keys, next, behind>>
    BY <1>1 DEF Poll, ScanForWakeup, queue, input
  <2>. QED BY <1>0, <2>1, <2>2
<1>2. CASE KeyChange \/ SetConfig
  <2>1. behind' = 0
    BY <1>2 DEF KeyChange, SetConfig
  <2>. QED BY <2>1 DEF PromptInv
<1>3. CASE GetReport
  BY <1>3 DEF GetReport, PromptInv, Queued, Resamples
<1>4. CASE Tick \/ BusReset \/ Suspend \/ Resume \/ UNCHANGED vars
  <2>1. UNCHANGED <<keys, next, behind>>
    BY <1>4 DEF Tick, BusReset, Suspend, Resume, vars, input, queue, history
  <2>. QED BY <1>0, <2>1
<1>5. ASSUME NEW i \in Interface,
             \/ HostRead(i) \/ TransferComplete(i)
             \/ \E duration \in IdleRates : SetIdle(i, duration)
      PROVE  PromptInv'
  <2>1. UNCHANGED <<keys, next, behind>>
    BY <1>5 DEF HostRead, TransferComplete, SetIdle, input, queue, history
  <2>. QED BY <1>0, <2>1
<1>6. ASSUME NEW on \in BOOLEAN, Feature(on) PROVE PromptInv'
  <2>1. UNCHANGED <<keys, next, behind>>
    BY <1>6 DEF Feature, input, queue, history
  <2>. QED BY <1>0, <2>1
<1>. QED BY <1>1, <1>2, <1>3, <1>4, <1>5, <1>6 DEF Next, HidPoll

\* Without idle rates, two polls with free endpoints bring every change to the wire.
THEOREM Prompt ==
  ASSUME SetupKeeps = {FALSE}, IdleRates \subseteq {0}
  PROVE  Spec => []ChangeSentPromptly
<1>1. Init => PromptInv
  BY DEF Init, PromptInv
<1>2. PromptInv => ChangeSentPromptly
  BY DEF PromptInv, ChangeSentPromptly
<1>. QED
  BY <1>1, <1>2, InitType, NextType, InitEndpoint, NextEndpoint, NextPrompt, PTL
  DEF Spec

-----------------------------------------------------------------------------
(* The refinement.  Each interface of a poll keeps, sends or drops its report   *)
(* as the channel does; that "old" stands for what the host was given, and that *)
(* no write is refused, is what makes the comparisons the same.                 *)

LEMMA PollReportsServes ==
  ASSUME TypeOK, EndpointMirrored, PollReports, UNCHANGED host
  PROVE  Channel!Serve(Queued)
<1>1. /\ next' \in [Interface -> Report \cup {NULL}]
      /\ fifo' \in [Interface -> Report \cup {NULL}]
      /\ keys' = keys
  BY PollReportsType DEF PollReports
<1>2. ASSUME NEW i \in Interface
      PROVE  \/ Channel!Keep(i, Queued[i])
             \/ Channel!Send(i, Queued[i])
             \/ Channel!Drop(i, Queued[i])
  <2>1. CASE Accepted(i)
    <3>1. fifo'[i] = Queued[i] /\ next'[i] = NULL
      BY <2>1 DEF PollReports, Emptied
    <3>2. Queued[i] # NULL /\ fifo[i] = NULL
      BY <2>1 DEF Accepted, Attempts, ShouldSend
    <3>3. IdleRates \ {0} # {} \/ Queued[i] # host[i]
      <4>1. CASE IdleDue(i)
        BY <4>1 DEF IdleDue, TypeOK
      <4>2. CASE ~IdleDue(i)
        <5>1. Queued[i] # old[i]
          BY <2>1, <4>2 DEF Accepted, Attempts, ShouldSend
        <5>2. old[i] = host[i]
          BY <3>2 DEF EndpointMirrored, OldIsLastSent
        <5>. QED BY <5>1, <5>2
      <4>. QED BY <4>1, <4>2
    <3>. QED BY <3>1, <3>2, <3>3 DEF Channel!Send
  <2>2. CASE ~Accepted(i) /\ Emptied(i)
    <3>1. next'[i] = NULL /\ fifo'[i] = fifo[i]
      BY <2>2 DEF PollReports
    <3>2. Queued[i] = old[i]
      BY <2>2 DEF Emptied, Discard
    <3>3. old[i] = Channel!Given(i)
      BY DEF EndpointMirrored, OldIsLastSent, Channel!Given
    <3>. QED BY <3>1, <3>2, <3>3 DEF Channel!Drop
  <2>3. CASE ~Accepted(i) /\ ~Emptied(i)
    BY <2>3 DEF PollReports, Channel!Keep
  <2>. QED BY <2>1, <2>2, <2>3
<1>. QED BY <1>1, <1>2 DEF Channel!Serve

LEMMA PollServes ==
  ASSUME TypeOK, EndpointMirrored, NEW s \in StatusReads, Poll(s)
  PROVE  Channel!Next \/ UNCHANGED <<keys, next, fifo, host>>
<1>1. CASE PollReports
  <2>1. host' = host
    BY DEF Poll
  <2>2. Channel!Serve(Queued)
    BY <1>1, <2>1, PollReportsServes
  <2>3. CASE Resamples
    <3>1. next = Channel!Each(NULL)
      BY <2>3 DEF Resamples, TypeOK, Channel!Each
    <3>2. Queued = keys
      BY <2>3 DEF Queued
    <3>. QED BY <2>2, <3>1, <3>2 DEF Channel!SampleAndServe, Channel!Next
  <2>4. CASE ~Resamples
    <3>1. Queued = next
      BY <2>4 DEF Queued
    <3>. QED BY <2>2, <3>1 DEF Channel!Next
  <2>. QED BY <2>3, <2>4
<1>2. CASE ~PollReports
  BY <1>2 DEF Poll, ScanForWakeup, queue, input
<1>. QED BY <1>1, <1>2

LEMMA StepsServe ==
  ASSUME SetupKeeps = {FALSE}, TypeOK, EndpointMirrored, [Next]_vars
  PROVE  [Channel!Next]_<<keys, next, fifo, host>>
<1>. USE DEF Channel!Next
<1>1. CASE KeyChange
  BY <1>1 DEF KeyChange, queue, endpoint, Channel!KeyChange
<1>2. CASE HidPoll
  BY <1>2, PollServes DEF HidPoll
<1>3. ASSUME NEW i \in Interface, HostRead(i) PROVE Channel!HostRead(i)
  BY <1>3 DEF HostRead, input, queue, Channel!HostRead
<1>4. CASE SetConfig
  <2>1. fifo' = Each(NULL) /\ host' = Each(NoKeys) /\ UNCHANGED <<keys, next>>
    BY <1>4 DEF SetConfig
  <2>2. Channel!Configure
    BY <2>1 DEF Channel!Configure, Channel!Each, Each
  <2>. QED BY <2>2
<1>5. CASE GetReport
  BY <1>5 DEF GetReport, endpoint, Channel!SampleNow
<1>6. CASE Tick \/ BusReset \/ Suspend \/ Resume \/ UNCHANGED vars
  BY <1>6 DEF Tick, BusReset, Suspend, Resume, vars, input, queue, endpoint
<1>7. ASSUME NEW i \in Interface,
             TransferComplete(i) \/ \E duration \in IdleRates : SetIdle(i, duration)
      PROVE  UNCHANGED <<keys, next, fifo, host>>
  BY <1>7 DEF TransferComplete, SetIdle, input, endpoint
<1>8. ASSUME NEW on \in BOOLEAN, Feature(on) PROVE UNCHANGED <<keys, next, fifo, host>>
  BY <1>8 DEF Feature, input, queue, endpoint
<1>. QED BY <1>1, <1>2, <1>3, <1>4, <1>5, <1>6, <1>7, <1>8 DEF Next

\* The pipeline implements the channel of ReportChannel: for all reports, clocks, idle
\* rates and hosts, what is sent is decided by what the host itself was given.
THEOREM Implements ==
  ASSUME SetupKeeps = {FALSE}
  PROVE  Spec => ImplementsChannel
<1>1. Init => Channel!Init
  BY DEF Init, Channel!Init, Each, Channel!Each
<1>2. TypeOK /\ EndpointMirrored /\ [Next]_vars => [Channel!Next]_<<keys, next, fifo, host>>
  BY StepsServe
<1>. QED
  BY <1>1, <1>2, InitType, NextType, InitEndpoint, NextEndpoint, PTL
  DEF Spec, ImplementsChannel, Channel!Spec

-----------------------------------------------------------------------------
(* The idle rate.  While no deadline wraps, it is as far ahead of the clock as *)
(* the idle rate exceeds the time since it was set.                           *)

NoIdleWrap == \A d \in IdleRates \cup {0} : Horizon + d < W

IdleInv ==
  /\ uptime <= Horizon
  /\ \A i \in Interface :
       /\ since[i] <= uptime
       /\ idle_rate[i] # 0 => idle_finish[i] + since[i] = uptime + idle_rate[i]

LEMMA NotWrapped ==
  ASSUME NoIdleWrap, uptime \in Nat, uptime <= Horizon, NEW d \in IdleRates \cup {0}
  PROVE  (uptime + d) % W = uptime + d /\ d \in Nat /\ uptime + d \in Nat
<1>1. d \in Nat
  <2>1. \A n \in IdleRates : n \in 0 .. W - 1
    BY ClockAssumption
  <2>2. \A n \in 0 .. W - 1 : n \in Nat
    BY ClockAssumption
  <2>. QED BY <2>1, <2>2
<1>2. uptime + d < W
  <2>1. Horizon + d < W
    BY DEF NoIdleWrap
  <2>. QED BY <1>1, <2>1, ClockAssumption
<1>3. \A a \in Nat : a < W => a % W = a
  BY ClockAssumption
<1>. QED BY <1>1, <1>2, <1>3

LEMMA IdleNumbers ==
  ASSUME TypeOK, NEW i \in Interface
  PROVE  /\ uptime \in Nat /\ Horizon \in Nat /\ W \in Nat
         /\ since[i] \in Nat /\ idle_finish[i] \in Nat
         /\ idle_rate[i] \in IdleRates \cup {0}
  BY ClockAssumption DEF TypeOK

\* A poll that repeats a report sets the deadline again.
LEMMA PollReportsIdle ==
  ASSUME NoIdleWrap, TypeOK, IdleInv, PollReports, uptime' = uptime
  PROVE  IdleInv'
<1>. SUFFICES ASSUME NEW i \in Interface
              PROVE  /\ since'[i] <= uptime
                     /\ idle_rate'[i] # 0
                          => idle_finish'[i] + since'[i] = uptime + idle_rate'[i]
  BY DEF IdleInv
<1>1. IdleDeadline(i) = uptime + idle_rate[i] /\ uptime + idle_rate[i] \in Nat
  BY IdleNumbers, NotWrapped DEF IdleDeadline, IdleInv
<1>2. CASE Queued[i] # NULL /\ IdleDue(i)
  <2>1. since'[i] = 0 /\ idle_finish'[i] = IdleDeadline(i) /\ idle_rate'[i] = idle_rate[i]
    BY <1>2 DEF PollReports
  <2>. QED BY <1>1, <2>1, IdleNumbers
<1>3. CASE ~(Queued[i] # NULL /\ IdleDue(i))
  <2>1. since'[i] = since[i] /\ idle_finish'[i] = idle_finish[i]
        /\ idle_rate'[i] = idle_rate[i]
    BY <1>3 DEF PollReports
  <2>. QED BY <2>1 DEF IdleInv
<1>. QED BY <1>2, <1>3

LEMMA NextIdle ==
  ASSUME NoIdleWrap, TypeOK, IdleInv, [Next]_vars
  PROVE  IdleInv'
<1>1. ASSUME UNCHANGED <<uptime, since, idle_rate, idle_finish>> PROVE IdleInv'
  BY <1>1 DEF IdleInv
<1>2. CASE Tick
  <2>1. uptime' = uptime + 1 /\ uptime' <= Horizon
    <3>1. uptime \in Nat /\ Horizon \in Nat /\ uptime < Horizon /\ uptime + 1 <= Horizon
      BY <1>2, ClockAssumption DEF Tick, TypeOK, IdleInv
    <3>2. uptime + 1 < W
      BY <3>1, ClockAssumption DEF NoIdleWrap
    <3>3. \A a \in Nat : a < W => a % W = a
      BY ClockAssumption
    <3>4. uptime' = uptime + 1
      BY <1>2, <3>1, <3>2, <3>3 DEF Tick
    <3>. QED BY <3>1, <3>4
  <2>2. ASSUME NEW i \in Interface
        PROVE  /\ since'[i] <= uptime'
               /\ idle_rate'[i] # 0
                    => idle_finish'[i] + since'[i] = uptime' + idle_rate'[i]
    <3>1. since[i] < W
      <4>1. uptime < W
        BY ClockAssumption DEF TypeOK
      <4>. QED BY <4>1, IdleNumbers DEF IdleInv
    <3>2. since'[i] = since[i] + 1 /\ UNCHANGED <<idle_rate, idle_finish>>
      BY <1>2, <3>1 DEF Tick, queue
    <3>3. idle_rate[i] \in Nat
      BY IdleNumbers, NotWrapped DEF IdleInv
    <3>. QED BY <2>1, <3>2, <3>3, IdleNumbers DEF IdleInv
  <2>. QED BY <2>1, <2>2 DEF IdleInv
<1>3. CASE HidPoll
  <2>1. PICK s \in StatusReads : Poll(s)
    BY <1>3 DEF HidPoll
  <2>2. CASE PollReports
    BY <2>1, <2>2, PollReportsIdle DEF Poll
  <2>3. CASE ~PollReports
    BY <1>1, <2>1, <2>3 DEF Poll, ScanForWakeup, queue
  <2>. QED BY <2>2, <2>3
<1>4. CASE SetConfig
  BY <1>4 DEF SetConfig, Each, IdleInv
<1>5. ASSUME NEW i \in Interface, NEW duration \in IdleRates, SetIdle(i, duration)
      PROVE  IdleInv'
  <2>1. uptime' = uptime
    BY <1>5 DEF SetIdle
  <2>2. (uptime + duration) % W = uptime + duration /\ uptime + duration \in Nat
    BY IdleNumbers, NotWrapped DEF IdleInv
  <2>3. ASSUME NEW j \in Interface
        PROVE  /\ since'[j] <= uptime
               /\ idle_rate'[j] # 0
                    => idle_finish'[j] + since'[j] = uptime + idle_rate'[j]
    <3>1. CASE j = i
      <4>1. since'[j] = 0 /\ idle_rate'[j] = duration /\ idle_finish'[j] = uptime + duration
        BY <1>5, <2>2, <3>1 DEF SetIdle, TypeOK
      <4>. QED BY <2>2, <4>1, IdleNumbers
    <3>2. CASE j # i
      <4>1. since'[j] = since[j] /\ idle_rate'[j] = idle_rate[j]
            /\ idle_finish'[j] = idle_finish[j]
        BY <1>5, <3>2 DEF SetIdle, TypeOK
      <4>. QED BY <4>1 DEF IdleInv
    <3>. QED BY <3>1, <3>2
  <2>. QED BY <2>1, <2>3 DEF IdleInv
<1>6. ASSUME NEW i \in Interface, HostRead(i) \/ TransferComplete(i) PROVE IdleInv'
  BY <1>1, <1>6 DEF HostRead, TransferComplete, queue, history
<1>7. CASE KeyChange \/ BusReset \/ Suspend \/ Resume \/ GetReport
  BY <1>1, <1>7 DEF KeyChange, BusReset, Suspend, Resume, GetReport, queue, history
<1>8. ASSUME NEW on \in BOOLEAN, Feature(on) PROVE IdleInv'
  BY <1>1, <1>8 DEF Feature, queue, history
<1>9. CASE UNCHANGED vars
  BY <1>1, <1>9 DEF vars, queue, history
<1>. QED BY <1>2, <1>3, <1>4, <1>5, <1>6, <1>7, <1>8, <1>9 DEF Next

\* A poll of an active bus that finds nothing new to send repeats the report when
\* its time has come and the endpoint is free, and only then.
LEMMA RepeatsWhenDue ==
  ASSUME TypeOK, EndpointMirrored, IdleInv, NoIdleWrap, PollReports,
         NEW i \in Interface, idle_rate[i] # 0, ~transmitting[i], Queued[i] = old[i]
  PROVE  (fifo'[i] # NULL) = (since[i] >= idle_rate[i])
<1>1. fifo[i] = NULL
  BY DEF EndpointMirrored, WriteNeverRefused
<1>2. old[i] # NULL
  BY ReportsAssumption DEF TypeOK
<1>3. Accepted(i) <=> IdleDue(i)
  BY <1>1, <1>2 DEF Accepted, Attempts, ShouldSend
<1>4. fifo'[i] # NULL <=> Accepted(i)
  BY <1>1, <1>2 DEF PollReports
<1>5. IdleDue(i) <=> since[i] >= idle_rate[i]
  <2>1. /\ uptime \in Nat /\ since[i] \in Nat /\ idle_finish[i] \in Nat
        /\ idle_rate[i] \in Nat /\ idle_finish[i] + since[i] = uptime + idle_rate[i]
    BY IdleNumbers, NotWrapped DEF IdleInv
  <2>2. uptime >= idle_finish[i] <=> since[i] >= idle_rate[i]
    BY <2>1
  <2>. QED BY <2>2 DEF IdleDue
<1>. QED BY <1>3, <1>4, <1>5

\* With an idle rate set, an unchanged report is repeated when the idle duration has
\* passed and not before, as long as no deadline wraps (IdleRateKept).
THEOREM RateKept ==
  ASSUME SetupKeeps = {FALSE}, NoIdleWrap
  PROVE  Spec => IdleRateKept
<1>1. Init => IdleInv
  BY ClockAssumption DEF Init, IdleInv, Each
<1>2. ASSUME TypeOK, EndpointMirrored, IdleInv, HidPoll, NEW i \in Interface,
             BusActive, ~suspended', idle_rate[i] # 0, ~transmitting[i],
             Queued[i] = old[i]
      PROVE  (fifo'[i] # NULL) = (since[i] >= idle_rate[i])
  <2>1. PICK s \in StatusReads : Poll(s)
    BY <1>2 DEF HidPoll
  <2>2. ~s[1] /\ ~s[3] /\ ~s[2]
    BY <1>2, <2>1 DEF StatusReads, Poll, BusActive
  <2>3. PollReports
    BY <1>2, <2>1, <2>2 DEF Poll, BusActive
  <2>. QED BY <1>2, <2>3, RepeatsWhenDue
<1>3. TypeOK /\ EndpointMirrored /\ IdleInv /\ [Next]_vars
        => [\A i \in Interface :
              ~ /\ BusActive /\ ~suspended'
                /\ idle_rate[i] # 0 /\ ~transmitting[i] /\ Queued[i] = old[i]
                /\ (fifo'[i] # NULL) # (since[i] >= idle_rate[i])
                /\ HidPoll]_vars
  BY <1>2
<1>. QED
  BY <1>1, <1>3, InitType, NextType, InitEndpoint, NextEndpoint, NextIdle, PTL
  DEF Spec, IdleRateKept
=============================================================================
