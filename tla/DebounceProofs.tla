---------------------------- MODULE DebounceProofs ----------------------------
(* What Debounce promises for every debounce time, bounce, lag and pause, as   *)
(* long as the millisecond counter starts after 0 and has not come round.      *)
EXTENDS Debounce, TLAPS

NoWrap == 0 < Start /\ Start <= Horizon /\ Horizon < W

\* The scan's time is never ahead of the clock, nor more than Lag behind it.
ScanTime ==
  /\ uptime \in 1 .. Horizon /\ now \in 1 .. uptime
  /\ scanning => elapsed <= Lag /\ uptime = now + elapsed

\* While the key is down, the history knows how long: to within Lag ticks.
HeldTime ==
  /\ edge_start_ms <= now
  /\ previous_key_state => held = D \/ uptime <= edge_start_ms + held + Lag

\* edge_start_ms doubles as the "no edge" mark: it is set exactly while the key
\* counts as down, so that a press is taken at once and a release debounced.
Polarity == previous_key_state <=> edge_start_ms # 0

DebounceInv == TypeOK /\ ScanTime /\ Polarity /\ HeldTime /\ HeldForDebounceTime

LEMMA InitInv ==
  ASSUME NoWrap, Init
  PROVE  DebounceInv
<1>1. /\ 0 \in Nat /\ 0 \in 0 .. Bounce /\ 0 \in 0 .. W - 1
      /\ 0 \in 0 .. Settled /\ 0 \in 0 .. D
  BY ClockAssumption, TimingAssumption DEF Settled
<1>2. TypeOK
  BY <1>1, ClockAssumption DEF Init, TypeOK
<1>3. ScanTime
  BY ClockAssumption, TimingAssumption DEF NoWrap, Init, ScanTime
<1>4. Polarity
  BY DEF Init, Polarity
<1>5. HeldTime
  BY ClockAssumption DEF Init, HeldTime
<1>6. HeldForDebounceTime
  BY DEF Init, HeldForDebounceTime
<1>. QED BY <1>2, <1>3, <1>4, <1>5, <1>6 DEF DebounceInv

\* An edge that is not ignored is a press of a key that was up, or a release at
\* least D ticks (of the scan's time) after the press.
LEMMA EdgeTaken ==
  ASSUME NoWrap, DebounceInv, ~Ignored
  PROVE  /\ contact # previous_key_state
         /\ contact => NoEdge
         /\ ~contact => ~NoEdge /\ now >= edge_start_ms + D
<1>1. contact # previous_key_state /\ (NoEdge \/ ~(SinceEdge < D))
  BY DEF Ignored
<1>2. contact \in BOOLEAN /\ previous_key_state \in BOOLEAN
  BY DEF DebounceInv, TypeOK
<1>3. previous_key_state <=> ~NoEdge
  BY DEF DebounceInv, Polarity, NoEdge
<1>4. /\ now \in Nat /\ edge_start_ms \in Nat /\ edge_start_ms <= now
  BY ClockAssumption DEF NoWrap, DebounceInv, TypeOK, HeldTime
<1>5. SinceEdge = now - edge_start_ms
  BY <1>4 DEF SinceEdge
<1>6. ~NoEdge => now >= edge_start_ms + D
  BY <1>1, <1>4, <1>5, ClockAssumption
<1>. QED BY <1>1, <1>2, <1>3, <1>6

LEMMA TickInv ==
  ASSUME NoWrap, DebounceInv, Tick
  PROVE  DebounceInv'
<1>1. uptime' = uptime + 1 /\ uptime' \in 1 .. Horizon
  BY ClockAssumption DEF NoWrap, DebounceInv, ScanTime, TypeOK, Tick
<1>2. /\ elapsed' \in Nat /\ settling' \in 0 .. Bounce /\ contact' \in BOOLEAN
      /\ held' \in 0 .. D
  BY ClockAssumption, TimingAssumption DEF DebounceInv, TypeOK, Tick
<1>3. steady' \in 0 .. Settled
  BY ClockAssumption, TimingAssumption DEF DebounceInv, TypeOK, Tick, Settled
<1>4. TypeOK'
  BY <1>1, <1>2, <1>3, ClockAssumption DEF NoWrap, DebounceInv, TypeOK, Tick, keyVars
<1>5. ScanTime'
  BY <1>1, TimingAssumption, ClockAssumption
  DEF DebounceInv, ScanTime, TypeOK, Tick, NoWrap
<1>6. Polarity'
  BY DEF DebounceInv, Polarity, Tick, keyVars
<1>7. held' = D \/ held' = held + 1
  BY ClockAssumption DEF DebounceInv, TypeOK, Tick
<1>8. HeldTime'
  BY <1>1, <1>7, ClockAssumption, TimingAssumption
  DEF NoWrap, DebounceInv, ScanTime, HeldTime, TypeOK, Tick, keyVars
<1>9. HeldForDebounceTime'
  BY <1>7, ClockAssumption, TimingAssumption
  DEF DebounceInv, HeldForDebounceTime, TypeOK, Tick
<1>. QED BY <1>4, <1>5, <1>6, <1>8, <1>9 DEF DebounceInv

LEMMA ScanKeyInv ==
  ASSUME NoWrap, DebounceInv, ScanKey
  PROVE  DebounceInv'
<1>1. /\ uptime' = uptime /\ now' = now /\ scanning' = FALSE /\ elapsed' = 0
      /\ UNCHANGED <<finger, settling, contact, steady>>
  BY DEF ScanKey, switchVars
<1>2. /\ uptime \in Nat /\ now \in Nat /\ held \in Nat /\ edge_start_ms \in Nat
      /\ D \in Nat /\ Lag \in Nat /\ now \in 1 .. W - 1
      /\ edge_start_ms <= now /\ uptime <= now + Lag
  BY ClockAssumption, TimingAssumption
  DEF NoWrap, DebounceInv, TypeOK, ScanTime, HeldTime, ScanKey
<1>3. ScanTime'
  BY <1>1 DEF DebounceInv, ScanTime
<1>4. /\ uptime' \in 0 .. W - 1 /\ elapsed' \in Nat
      /\ finger' \in BOOLEAN /\ settling' \in 0 .. Bounce /\ contact' \in BOOLEAN
      /\ scanning' \in BOOLEAN /\ now' \in 0 .. W - 1 /\ steady' \in 0 .. Settled
  BY <1>1 DEF DebounceInv, TypeOK
<1>5. CASE Ignored /\ event' = "none" /\ UNCHANGED <<keyVars, held, armed>>
  <2>1. TypeOK'
    BY <1>4, <1>5 DEF DebounceInv, TypeOK, keyVars
  <2>2. Polarity' /\ HeldTime' /\ HeldForDebounceTime'
    BY <1>1, <1>5
    DEF DebounceInv, Polarity, HeldTime, HeldForDebounceTime, keyVars
  <2>. QED BY <1>3, <2>1, <2>2 DEF DebounceInv
<1>6. CASE ~Ignored /\ contact
  <2>1. /\ previous_key_state' = contact /\ edge_start_ms' = now /\ held' = 0
        /\ event' = "pressed" /\ armed' = (armed /\ ~contact)
    BY <1>6, EdgeTaken DEF ScanKey, EdgeMark
  <2>2. TypeOK'
    <3>1. armed' \in BOOLEAN /\ previous_key_state' \in BOOLEAN
      BY <2>1, Zenon DEF DebounceInv, TypeOK
    <3>. QED BY <1>2, <1>4, <2>1, <3>1, ClockAssumption DEF TypeOK
  <2>3. Polarity'
    BY <1>2, <1>6, <2>1 DEF Polarity
  <2>4. HeldTime' /\ HeldForDebounceTime'
    BY <1>1, <1>2, <2>1 DEF HeldTime, HeldForDebounceTime
  <2>. QED BY <1>3, <2>2, <2>3, <2>4 DEF DebounceInv
<1>7. CASE ~Ignored /\ ~contact
  <2>1. /\ previous_key_state' = contact /\ edge_start_ms' = 0 /\ held' = held
        /\ event' = "released" /\ armed' = (armed /\ ~contact)
        /\ now >= edge_start_ms + D
    BY <1>7, EdgeTaken DEF ScanKey, EdgeMark
  <2>2. previous_key_state
    BY <1>7, EdgeTaken DEF DebounceInv, TypeOK
  <2>3. held + Lag >= D
    BY <1>2, <2>1, <2>2 DEF DebounceInv, ScanTime, HeldTime
  <2>4. TypeOK'
    <3>1. armed' \in BOOLEAN /\ previous_key_state' \in BOOLEAN
      BY <2>1, Zenon DEF DebounceInv, TypeOK
    <3>2. held' \in 0 .. D /\ edge_start_ms' \in 0 .. W - 1
      BY <2>1, ClockAssumption DEF DebounceInv, TypeOK
    <3>. QED BY <1>4, <2>1, <3>1, <3>2 DEF TypeOK
  <2>5. Polarity' /\ HeldTime'
    BY <1>1, <1>2, <1>7, <2>1 DEF Polarity, HeldTime
  <2>6. HeldForDebounceTime'
    BY <2>1, <2>3 DEF HeldForDebounceTime
  <2>. QED BY <1>3, <2>4, <2>5, <2>6 DEF DebounceInv
<1>. QED BY <1>5, <1>6, <1>7 DEF ScanKey

LEMMA NextInv ==
  ASSUME NoWrap, DebounceInv, [Next]_vars
  PROVE  DebounceInv'
<1>. USE DEF DebounceInv, TypeOK, ScanTime, Polarity, HeldTime,
             HeldForDebounceTime
<1>1. CASE FingerMove
  BY <1>1, TimingAssumption, ClockAssumption
  DEF FingerMove, clockVars, keyVars, Settled
<1>2. CASE ContactBounce
  BY <1>2, TimingAssumption, ClockAssumption
  DEF ContactBounce, clockVars, keyVars, Settled
<1>3. CASE Tick
  BY <1>3, TickInv
<1>4. CASE ScanStart
  BY <1>4, ClockAssumption, TimingAssumption
  DEF NoWrap, ScanStart, switchVars, keyVars
<1>5. CASE ScanKey
  BY <1>5, ScanKeyInv
<1>6. CASE ScanStateReset
  <2>1. /\ previous_key_state' = FALSE /\ edge_start_ms' = 0 /\ steady' = 0
        /\ armed' = finger /\ event' = "none"
        /\ UNCHANGED <<uptime, elapsed, finger, settling, contact, scanning,
                       now, held>>
    BY <1>6 DEF ScanStateReset, clockVars, switchVars
  <2>2. 0 \in 0 .. W - 1 /\ 0 \in 0 .. Settled
    BY ClockAssumption, TimingAssumption DEF Settled
  <2>3. TypeOK'
    BY <2>1, <2>2
  <2>4. ScanTime' /\ Polarity' /\ HeldForDebounceTime'
    BY <2>1
  <2>5. HeldTime'
    BY <2>1, ClockAssumption DEF NoWrap
  <2>. QED BY <2>3, <2>4, <2>5
<1>7. CASE UNCHANGED vars
  BY <1>7 DEF vars, clockVars, switchVars, keyVars
<1>. QED BY <1>1, <1>2, <1>3, <1>4, <1>5, <1>6, <1>7 DEF Next

\* Every variable keeps to its range; the times do as long as the clock does not wrap.
THEOREM TypeCorrect ==
  ASSUME NoWrap
  PROVE  Spec => []TypeOK
<1>1. DebounceInv => TypeOK
  BY DEF DebounceInv
<1>. QED BY <1>1, InitInv, NextInv, PTL DEF Spec

\* No reported press is shorter than the debounce time less the scan's lag.
THEOREM PressesLast ==
  ASSUME NoWrap
  PROVE  Spec => []HeldForDebounceTime
<1>1. DebounceInv => HeldForDebounceTime
  BY DEF DebounceInv
<1>. QED BY <1>1, InitInv, NextInv, PTL DEF Spec

-----------------------------------------------------------------------------
(* The key follows the contact.  While the two differ, either the contact moved *)
(* after the last scan had read it, or the key is down and the last scan found  *)
(* its press too young; both end within Settled ticks.                          *)

\* Ticks since the end of the last scan, the one going on not counted in.
Age == IF scanning THEN Pause + elapsed ELSE elapsed

\* The last scan may have found the press younger than D.
Young == uptime < edge_start_ms + D + Lag + Age

AfterPress == steady + edge_start_ms <= uptime

QuietInv ==
  /\ ~scanning => elapsed <= Pause
  /\ contact # previous_key_state =>
       /\ previous_key_state => AfterPress
       /\ steady <= Age \/ (previous_key_state /\ Young)

Numbers ==
  /\ uptime \in Nat /\ now \in Nat /\ elapsed \in Nat /\ steady \in Nat
  /\ edge_start_ms \in Nat /\ D \in Nat \ {0} /\ Lag \in Nat /\ Pause \in Nat
  /\ edge_start_ms <= now /\ now <= uptime /\ uptime < W

LEMMA AreNumbers ==
  ASSUME NoWrap, DebounceInv
  PROVE  Numbers /\ Age \in Nat /\ (scanning => elapsed <= Lag /\ uptime = now + elapsed)
<1>1. Numbers
  BY ClockAssumption, TimingAssumption
  DEF NoWrap, DebounceInv, TypeOK, ScanTime, HeldTime, Settled, Numbers
<1>2. Age \in Nat
  BY <1>1 DEF Numbers, Age
<1>3. scanning => elapsed <= Lag /\ uptime = now + elapsed
  BY DEF DebounceInv, ScanTime
<1>. QED BY <1>1, <1>2, <1>3

LEMMA InitQuiet == Init => QuietInv
<1>1. Init => elapsed = 0 /\ contact = FALSE /\ previous_key_state = FALSE
  BY DEF Init
<1>2. 0 <= Pause
  BY TimingAssumption
<1>. QED BY <1>1, <1>2 DEF QuietInv

\* A contact that has just moved waits for the next scan.
LEMMA JustMoved ==
  ASSUME NoWrap, DebounceInv, QuietInv,
         steady' = 0, UNCHANGED <<uptime, elapsed, scanning, edge_start_ms>>
  PROVE  QuietInv'
<1>1. Numbers /\ Age \in Nat
  BY AreNumbers
<1>2. Age' = Age
  BY DEF Age
<1>3. steady' <= Age' /\ AfterPress'
  BY <1>1, <1>2 DEF Numbers, AfterPress
<1>. QED BY Zenon, <1>3 DEF QuietInv

LEMMA TickQuiet ==
  ASSUME NoWrap, DebounceInv, QuietInv, Tick
  PROVE  QuietInv'
<1>1. Numbers /\ Age \in Nat
  BY AreNumbers
<1>2. UNCHANGED <<scanning, previous_key_state, edge_start_ms>>
  BY DEF Tick, keyVars
<1>3. uptime' = uptime + 1 /\ elapsed' = elapsed + 1 /\ Age' = Age + 1
  BY <1>1, <1>2, ClockAssumption
  DEF Tick, NoWrap, DebounceInv, ScanTime, Numbers, Age
<1>4. ~scanning' => elapsed' <= Pause
  BY <1>1, <1>2, <1>3 DEF Tick, Numbers
<1>5. CASE contact' # contact
  <2>1. steady' = 0
    BY <1>5 DEF Tick
  <2>2. steady' <= Age' /\ AfterPress'
    BY <1>1, <1>2, <1>3, <2>1 DEF Numbers, AfterPress
  <2>. QED BY Zenon, <1>4, <2>2 DEF QuietInv
<1>6. CASE contact' = contact
  <2>1. steady' \in Nat /\ steady' <= steady + 1
    BY <1>1, <1>6 DEF Tick, Settled, Numbers, DebounceInv, TypeOK
  <2>2. steady <= Age => steady' <= Age'
    BY <1>1, <1>3, <2>1 DEF Numbers
  <2>3. AfterPress => AfterPress'
    <3>1. \A a, b, c, d \in Nat : a <= b + 1 /\ b + c <= d => a + c <= d + 1
      OBVIOUS
    <3>2. AfterPress => steady' + edge_start_ms <= uptime + 1
      BY <1>1, <2>1, <3>1 DEF Numbers, AfterPress
    <3>. QED BY <1>2, <1>3, <3>2 DEF AfterPress
  <2>4. Young => Young'
    BY <1>1, <1>2, <1>3 DEF Numbers, Young
  <2>. QED BY Zenon, <1>2, <1>4, <1>6, <2>2, <2>3, <2>4 DEF QuietInv
<1>. QED BY <1>5, <1>6

LEMMA ScanStartQuiet ==
  ASSUME NoWrap, DebounceInv, QuietInv, ScanStart
  PROVE  QuietInv'
<1>1. Numbers /\ Age \in Nat
  BY AreNumbers
<1>2. /\ ~scanning /\ scanning' = TRUE /\ elapsed' = 0
      /\ UNCHANGED <<uptime, contact, steady, previous_key_state, edge_start_ms>>
  BY DEF ScanStart, switchVars, keyVars
<1>3. Age \in Nat /\ Age <= Age' /\ Age' \in Nat
  BY <1>1, <1>2 DEF QuietInv, Numbers, Age
<1>4. steady <= Age => steady' <= Age'
  BY <1>1, <1>2, <1>3 DEF Numbers
<1>5. Young => Young'
  <2>1. \A a, b, c, d \in Nat : a < b + c /\ c <= d => a < b + d
    OBVIOUS
  <2>2. edge_start_ms + D + Lag \in Nat
    BY <1>1 DEF Numbers
  <2>3. Young => uptime < edge_start_ms + D + Lag + Age'
    BY <1>1, <1>3, <2>1, <2>2 DEF Numbers, Young
  <2>. QED BY <1>2, <2>3 DEF Young
<1>6. AfterPress' <=> AfterPress
  BY <1>2 DEF AfterPress
<1>. QED BY Zenon, <1>2, <1>4, <1>5, <1>6 DEF QuietInv

LEMMA ScanKeyQuiet ==
  ASSUME NoWrap, DebounceInv, QuietInv, ScanKey
  PROVE  QuietInv'
<1>1. Numbers /\ elapsed <= Lag /\ uptime = now + elapsed
  BY AreNumbers DEF ScanKey
<1>2. scanning' = FALSE /\ elapsed' = 0 /\ UNCHANGED <<uptime, contact, steady>>
  BY DEF ScanKey, switchVars
<1>3. ~scanning' => elapsed' <= Pause
  BY <1>1, <1>2 DEF Numbers
<1>4. CASE Ignored /\ UNCHANGED keyVars
  <2>1. UNCHANGED <<previous_key_state, edge_start_ms>>
    BY <1>4 DEF keyVars
  <2>2. CASE contact = previous_key_state
    BY Zenon, <1>2, <1>3, <2>1, <2>2 DEF QuietInv
  <2>3. CASE contact # previous_key_state
    <3>1. ~NoEdge /\ SinceEdge < D
      BY <1>4, <2>3 DEF Ignored
    <3>2. previous_key_state
      BY <3>1 DEF NoEdge, DebounceInv, Polarity
    <3>3. now < edge_start_ms + D
      BY <1>1, <3>1 DEF SinceEdge, Numbers
    <3>4. Age' = 0
      BY <1>2 DEF Age
    <3>5. Young'
      BY <1>1, <1>2, <2>1, <3>3, <3>4 DEF Young, Numbers
    <3>6. AfterPress' <=> AfterPress
      BY <1>2, <2>1 DEF AfterPress
    <3>. QED BY Zenon, <1>2, <1>3, <2>1, <3>2, <3>5, <3>6 DEF QuietInv
  <2>. QED BY <2>2, <2>3
<1>5. CASE previous_key_state' = contact
  BY Zenon, <1>2, <1>3, <1>5 DEF QuietInv
<1>. QED BY <1>4, <1>5 DEF ScanKey

LEMMA ResetQuiet ==
  ASSUME NoWrap, DebounceInv, QuietInv, ScanStateReset
  PROVE  QuietInv'
<1>1. Numbers /\ Age \in Nat
  BY AreNumbers
<1>2. /\ steady' = 0 /\ previous_key_state' = FALSE
      /\ UNCHANGED <<elapsed, scanning>>
  BY DEF ScanStateReset, clockVars
<1>3. steady' <= Age'
  BY <1>1, <1>2 DEF Age
<1>. QED BY Zenon, <1>2, <1>3 DEF QuietInv

LEMMA NextQuiet ==
  ASSUME NoWrap, DebounceInv, QuietInv, [Next]_vars
  PROVE  QuietInv'
<1>1. CASE FingerMove \/ ContactBounce
  <2>1. steady' = 0 /\ UNCHANGED <<uptime, elapsed, scanning, edge_start_ms>>
    BY <1>1 DEF FingerMove, ContactBounce, clockVars, keyVars
  <2>. QED BY <2>1, JustMoved
<1>2. CASE UNCHANGED vars
  BY <1>2 DEF vars, clockVars, switchVars, keyVars, QuietInv, AfterPress, Age, Young
<1>. QED
  BY <1>1, <1>2, TickQuiet, ScanStartQuiet, ScanKeyQuiet, ResetQuiet DEF Next

\* A contact that stays as it is for the debounce time, a pause and two lags is what
\* the key's state says (FollowsContact).
THEOREM Follows ==
  ASSUME NoWrap
  PROVE  Spec => []FollowsContact
<1>1. DebounceInv /\ QuietInv => FollowsContact
  <2>. SUFFICES ASSUME DebounceInv, QuietInv, steady = Settled,
                       contact # previous_key_state
                PROVE  FALSE
    BY DEF FollowsContact
  <2>1. Numbers /\ (scanning => elapsed <= Lag)
    BY AreNumbers
  <2>2. Age \in Nat /\ Age <= Pause + Lag
    BY <2>1 DEF QuietInv, Numbers, Age
  <2>3. ~(steady <= Age)
    BY <2>1, <2>2 DEF Numbers, Settled
  <2>4. AfterPress /\ Young
    BY Zenon, <2>3 DEF QuietInv
  <2>. QED BY <2>1, <2>2, <2>4 DEF AfterPress, Young, Numbers, Settled
<1>. QED BY <1>1, InitInv, NextInv, InitQuiet, NextQuiet, PTL DEF Spec

-----------------------------------------------------------------------------
(* One press per stroke.  While a finger that has been reported stays down, the *)
(* key counts as down, and when the contact last bounces the press is still too *)
(* young to end.                                                                *)

\* The contact bounces no longer than DEBOUNCE_MS less the lag of the scan.
ShortBounce == Bounce + Lag <= D

\* The press came after the finger, whose move the bounces follow.
BounceEnd == uptime + settling <= edge_start_ms + Bounce + Lag

StrokeInv ==
  /\ settling = 0 => contact = finger
  /\ finger /\ ~armed => previous_key_state /\ (settling > 0 => BounceEnd)

LEMMA TickStroke ==
  ASSUME NoWrap, DebounceInv, StrokeInv, Tick
  PROVE  StrokeInv'
<1>1. Numbers /\ settling \in Nat /\ Bounce \in Nat
  BY AreNumbers, TimingAssumption DEF DebounceInv, TypeOK
<1>2. /\ settling' = IF settling = 0 THEN 0 ELSE settling - 1
      /\ contact' = IF settling <= 1 THEN finger ELSE contact
      /\ UNCHANGED <<finger, previous_key_state, edge_start_ms, armed>>
  BY DEF Tick, keyVars
<1>3. uptime' = uptime + 1
  BY ClockAssumption DEF Tick, NoWrap, DebounceInv, ScanTime
<1>4. settling' > 0 => settling > 0 /\ (BounceEnd => BounceEnd')
  BY <1>1, <1>2, <1>3 DEF Numbers, BounceEnd
<1>5. settling' = 0 => settling <= 1
  BY <1>1, <1>2
<1>. QED BY Zenon, <1>2, <1>4, <1>5 DEF StrokeInv

\* A key that is read as open while its finger is down was pressed too short a time
\* ago to be released.
LEMMA TooYoung ==
  ASSUME NoWrap, ShortBounce, DebounceInv, StrokeInv, ScanKey,
         finger, ~armed, ~contact
  PROVE  Ignored
<1>1. /\ uptime \in Nat /\ now \in Nat /\ edge_start_ms \in Nat /\ settling \in Nat
      /\ Bounce \in Nat /\ Lag \in Nat /\ D \in Nat /\ now <= uptime
  BY AreNumbers, TimingAssumption DEF Numbers, DebounceInv, TypeOK
<1>2. settling # 0 /\ (settling > 0 => BounceEnd)
  BY Zenon DEF StrokeInv
<1>3. ~(now >= edge_start_ms + D)
  BY <1>1, <1>2 DEF BounceEnd, ShortBounce
<1>. QED BY <1>3, EdgeTaken

LEMMA ScanKeyStroke ==
  ASSUME NoWrap, ShortBounce, DebounceInv, StrokeInv, ScanKey
  PROVE  StrokeInv'
<1>1. /\ UNCHANGED <<uptime, finger, settling, contact>>
  BY DEF ScanKey, switchVars
<1>2. CASE Ignored /\ UNCHANGED <<keyVars, held, armed>>
  BY <1>1, <1>2 DEF StrokeInv, BounceEnd, keyVars
<1>3. CASE ~Ignored /\ contact
  <2>1. previous_key_state' = contact /\ edge_start_ms' = now
    BY <1>3, EdgeTaken DEF ScanKey, EdgeMark
  <2>2. /\ uptime \in Nat /\ now \in Nat /\ settling \in 0 .. Bounce
        /\ Bounce \in Nat /\ Lag \in Nat /\ uptime <= now + Lag
    BY AreNumbers, TimingAssumption DEF Numbers, DebounceInv, TypeOK, ScanKey
  <2>3. BounceEnd'
    BY <1>1, <2>1, <2>2 DEF BounceEnd
  <2>. QED BY Zenon, <1>1, <1>3, <2>1, <2>3 DEF StrokeInv
<1>4. CASE ~Ignored /\ ~contact
  <2>1. armed' <=> armed
    BY <1>4 DEF ScanKey, DebounceInv, TypeOK
  <2>2. ~(finger /\ ~armed)
    BY <1>4, TooYoung
  <2>. QED BY Zenon, <1>1, <2>1, <2>2 DEF StrokeInv
<1>. QED BY <1>2, <1>3, <1>4 DEF ScanKey

LEMMA NextStroke ==
  ASSUME NoWrap, ShortBounce, DebounceInv, StrokeInv, [Next]_vars
  PROVE  StrokeInv'
<1>1. CASE FingerMove
  <2>1. contact' = finger' /\ (finger' => armed')
    BY <1>1, Zenon DEF FingerMove, StrokeInv, DebounceInv, TypeOK
  <2>. QED BY Zenon, <2>1 DEF StrokeInv
<1>2. CASE ContactBounce
  <2>1. settling > 0 /\ settling \in Nat
        /\ UNCHANGED <<uptime, finger, settling, previous_key_state, edge_start_ms, armed>>
    BY <1>2, TimingAssumption
    DEF ContactBounce, clockVars, keyVars, DebounceInv, TypeOK
  <2>2. settling' # 0 /\ (BounceEnd' <=> BounceEnd)
    BY <2>1 DEF BounceEnd
  <2>. QED BY Zenon, <2>1, <2>2 DEF StrokeInv
<1>3. CASE Tick
  BY <1>3, TickStroke
<1>4. CASE ScanStart
  BY <1>4 DEF ScanStart, switchVars, keyVars, StrokeInv, BounceEnd
<1>5. CASE ScanKey
  BY <1>5, ScanKeyStroke
<1>6. CASE ScanStateReset
  BY <1>6, Zenon DEF ScanStateReset, switchVars, StrokeInv
<1>7. CASE UNCHANGED vars
  BY <1>7 DEF vars, clockVars, switchVars, keyVars, StrokeInv, BounceEnd
<1>. QED BY <1>1, <1>2, <1>3, <1>4, <1>5, <1>6, <1>7 DEF Next

\* However the contact bounces and the scan lags, a finger that stays down is one
\* press (OnePressPerStroke).
THEOREM OnePress ==
  ASSUME NoWrap, ShortBounce
  PROVE  Spec => OnePressPerStroke
<1>1. Init => StrokeInv
  BY DEF Init, StrokeInv
<1>2. ASSUME DebounceInv, StrokeInv, [Next]_vars
      PROVE  [event' = "pressed" /\ previous_key_state' # previous_key_state
                => armed \/ ~finger]_vars
  <2>. SUFFICES ASSUME Next, event' = "pressed",
                       previous_key_state' # previous_key_state, finger, ~armed
                PROVE  FALSE
    BY <1>2
  <2>1. ScanKey
    BY DEF Next, FingerMove, ContactBounce, Tick, ScanStart, ScanStateReset, keyVars
  <2>2. ~Ignored
    BY <2>1 DEF ScanKey, keyVars
  <2>3. contact /\ ~previous_key_state
    <3>1. contact # previous_key_state /\ previous_key_state' = contact
          /\ (event' = "pressed" <=> contact)
      BY <1>2, <2>1, <2>2, EdgeTaken DEF ScanKey
    <3>. QED BY Zenon, <1>2, <3>1 DEF DebounceInv, TypeOK
  <2>. QED BY Zenon, <1>2, <2>3 DEF StrokeInv
<1>. QED BY <1>1, <1>2, InitInv, NextInv, NextStroke, PTL DEF Spec, OnePressPerStroke
=============================================================================
