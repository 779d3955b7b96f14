------------------------------ MODULE Debounce ------------------------------
(***************************************************************************)
(* One key of the matrix under keyboard/keys/scan.c: the user's finger, the *)
(* bouncing contact, the millisecond interrupt, and the scan that latches   *)
(* the time once ("now") and runs debounce() on the key some time later.    *)
(***************************************************************************)
EXTENDS Naturals

CONSTANTS
  W,         \* uptime_ms() counts modulo W (2^32 in the code)
  D,         \* DEBOUNCE_MS
  Start,     \* the uptime at which scanning begins
  Horizon,   \* bound: the clock stops there; Horizon = W lets it wrap
  Bounce,    \* ticks for which a contact may bounce after the finger moved
  BouncesOn, \* the moves after which it does: TRUE is pressing down
  Lag,       \* ticks that may pass between latching "now" and this key's turn
  Pause      \* ticks that may pass between two scans

ASSUME ClockAssumption ==
  /\ W \in Nat /\ Start \in 0 .. W - 1 /\ Horizon \in Nat
  /\ D \in 1 .. W - 1
ASSUME TimingAssumption ==
  /\ Bounce \in Nat /\ BouncesOn \subseteq BOOLEAN
  /\ Lag \in Nat /\ Pause \in Nat /\ Bounce < D

VARIABLES
  uptime,              \* _uptime_ms
  finger,              \* TRUE while the user holds the key down
  settling,            \* ticks for which the contact may still bounce
  contact,             \* what reading the row and column gives
  scanning,            \* keys_scan_left / _right has latched the time
  now,                 \* the time it latched
  previous_key_state,  \* of this key
  edge_start_ms        \* of this key; 0 stands for "no edge"

(* History variables. *)
VARIABLES
  elapsed,  \* ticks since the scan started or, outside one, since it ended
  steady,   \* ticks since the contact changed or the scan was reset, at most Settled
  held,     \* ticks since the key's last press event, at most D
  armed,    \* the finger went down after the last press event
  event     \* what the last debounce() reported

Settled == D + 2 * Lag + Pause

clockVars == <<uptime, elapsed>>
switchVars == <<finger, settling, contact>>
keyVars == <<previous_key_state, edge_start_ms>>
vars == <<clockVars, switchVars, scanning, now, keyVars,
          steady, held, armed, event>>

Init ==
  /\ uptime = Start /\ elapsed = 0
  /\ finger = FALSE /\ settling = 0 /\ contact = FALSE
  /\ scanning = FALSE /\ now = Start
  /\ previous_key_state = FALSE /\ edge_start_ms = 0
  /\ steady = 0 /\ held = 0 /\ armed = FALSE /\ event = "none"

-----------------------------------------------------------------------------
(* The switch.  After a move the contact may flip at will until it settles. *)

FingerMove ==
  /\ settling = 0
  /\ finger' = ~finger
  /\ settling' = IF (~finger) \in BouncesOn THEN Bounce ELSE 0
  /\ contact' = ~contact
  /\ steady' = 0
  /\ armed' = (armed \/ ~finger)
  /\ UNCHANGED <<clockVars, scanning, now, keyVars, held, event>>

ContactBounce ==
  /\ settling > 0
  /\ contact' = ~contact
  /\ steady' = 0
  /\ UNCHANGED <<clockVars, finger, settling, scanning, now, keyVars,
                 held, armed, event>>

\* sys_tick_handler.  The scan loop keeps up: it is at most Lag late with a key
\* and Pause late with the next scan.
Tick ==
  /\ uptime # Horizon
  /\ elapsed < IF scanning THEN Lag ELSE Pause
  /\ uptime' = IF uptime + 1 = W THEN 0 ELSE uptime + 1
  /\ elapsed' = elapsed + 1
  /\ settling' = IF settling = 0 THEN 0 ELSE settling - 1
  /\ contact' = IF settling <= 1 THEN finger ELSE contact
  /\ steady' = IF contact' # contact THEN 0
               ELSE IF steady < Settled THEN steady + 1 ELSE Settled
  /\ held' = IF held < D THEN held + 1 ELSE D
  /\ UNCHANGED <<finger, scanning, now, keyVars, armed, event>>

-----------------------------------------------------------------------------
(* The scan. *)

ScanStart ==
  /\ ~scanning
  /\ scanning' = TRUE /\ now' = uptime /\ elapsed' = 0
  /\ UNCHANGED <<uptime, switchVars, keyVars, steady, held, armed, event>>

NoEdge == edge_start_ms = 0

\* now - edge_start_ms, in uint32_t arithmetic
SinceEdge == IF now >= edge_start_ms THEN now - edge_start_ms
                                     ELSE now + W - edge_start_ms

(* The operators named ...Mutant are wrong on purpose: a plausible slip in the *)
(* operator after them, which one of the properties must notice.               *)

IgnoredMutantNever == contact = previous_key_state
IgnoredMutantEarly ==
  contact = previous_key_state \/ (~NoEdge /\ SinceEdge + 1 < D)
IgnoredMutantLate ==
  contact = previous_key_state \/ (~NoEdge /\ SinceEdge <= D)
Ignored == contact = previous_key_state \/ (~NoEdge /\ SinceEdge < D)

\* The leading edge records the time, the trailing edge (the second one)
\* clears it.
EdgeMarkMutantEnd == IF NoEdge THEN now + D ELSE 0
EdgeMark == IF NoEdge THEN now ELSE 0

ScanKey ==
  /\ scanning
  /\ scanning' = FALSE /\ elapsed' = 0
  /\ \/ /\ Ignored
        /\ event' = "none"
        /\ UNCHANGED <<keyVars, held, armed>>
     \/ /\ ~Ignored
        /\ previous_key_state' = contact
        /\ edge_start_ms' = EdgeMark
        /\ event' = IF contact THEN "pressed" ELSE "released"
        /\ held' = IF contact THEN 0 ELSE held
        /\ armed' = (armed /\ ~contact)
  /\ UNCHANGED <<uptime, switchVars, now, steady>>

\* keys_scan_state_reset, which keys_reset calls at SET_CONFIGURATION; it never
\* comes in the middle of a scan.
ScanStateReset ==
  /\ ~scanning
  /\ previous_key_state' = FALSE /\ edge_start_ms' = 0
  /\ armed' = finger /\ event' = "none" /\ steady' = 0
  /\ UNCHANGED <<clockVars, switchVars, scanning, now, held>>

Next ==
  FingerMove \/ ContactBounce \/ Tick \/ ScanStart \/ ScanKey \/ ScanStateReset

Spec == Init /\ [][Next]_vars

-----------------------------------------------------------------------------
(* Properties *)

\* Ranges; in particular the time of an edge is a W-bit time.
TypeOK ==
  /\ uptime \in 0 .. W - 1 /\ elapsed \in Nat
  /\ finger \in BOOLEAN /\ settling \in 0 .. Bounce /\ contact \in BOOLEAN
  /\ scanning \in BOOLEAN /\ now \in 0 .. W - 1
  /\ previous_key_state \in BOOLEAN /\ edge_start_ms \in 0 .. W - 1
  /\ steady \in 0 .. Settled /\ held \in 0 .. D /\ armed \in BOOLEAN
  /\ event \in {"none", "pressed", "released"}

\* A press the keyboard reported lasts at least the debounce time, less the lag
\* with which the scan may have reached the key.
HeldForDebounceTime == event = "released" => held + Lag >= D

\* Once the contact has been quiet for the debounce time and two scans, the
\* key's state is the contact's.
FollowsContact == steady = Settled => previous_key_state = contact

\* While the finger stays down, the key is reported as pressed at most once, as
\* long as the contact bounces no longer than DEBOUNCE_MS less the lag of the scan.
\* (A bounce of the release finds no edge recorded and is reported as a press.)
OnePressPerStroke ==
  [][event' = "pressed" /\ previous_key_state' # previous_key_state
       => armed \/ ~finger]_vars
=============================================================================
