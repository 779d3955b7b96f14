------------------------------- MODULE Display -------------------------------
(***************************************************************************)
(* The status display (keyboard/display.c) over the device it shows: every  *)
(* turn of the main loop compares a copy of the state with the state, draws *)
(* what changed, and blanks the screen when nothing happens for a while.    *)
(***************************************************************************)
EXTENDS Device

CONSTANTS
  W,       \* the clock counts modulo W: 2^32 ms in the code
  Secs     \* SCREENSAVER_SECS, in units of the clock

ASSUME ClockAssumption == W \in Nat /\ Secs \in Nat \ {0} /\ 2 * Secs < W

Blank == [blank |-> TRUE]

VARIABLES
  since_key,                  \* uptime_ms() - last_key_trigger_ms, modulo W
  since_change,               \* uptime_ms() - last_state_change_ms, modulo W
  current_state,              \* the copy
  last_screensaver_enabled,
  screen                      \* Blank or what is drawn

(* History variables. *)
VARIABLES
  idle,     \* time since the last key trigger or the last change found
  updated   \* display_update has run since the clock last moved

clock == <<since_key, since_change, idle, updated>>
display == <<current_state, last_screensaver_enabled, screen>>
vars == <<deviceVars, clock, display>>

-----------------------------------------------------------------------------

\* display_get_current_state.  The LEDs stand for the other fields that are shown
\* while the keyboard is in use (layers, idle rate, right half): they are copied,
\* compared and drawn the same way.  The two layout names are always assigned, as
\* exactly one layout is enabled (LayersProofs!LayoutIsUnique).
Snapshot ==
  [state |-> usbd_state, suspended |-> suspended, wakeup |-> usbd_remote_wakeup_enabled,
   protocol |-> hid_protocol, leds |-> hid_led_report]

\* display_draw: either the USB status or the keyboard's.
Picture(s) ==
  IF s.state = "configured" /\ ~s.suspended
    THEN [leds |-> s.leds, protocol |-> s.protocol]
    ELSE [state |-> s.state, suspended |-> s.suspended,
          wakeup |-> s.suspended /\ s.wakeup]

ChangedMutant == [current_state EXCEPT !.suspended = suspended] # Snapshot
Changed == current_state # Snapshot

RecentMutantAnd == since_key < Secs /\ since_change < Secs
RecentMutantOn == since_key < Secs \/ ~last_screensaver_enabled
Recent == since_key < Secs \/ since_change < Secs

-----------------------------------------------------------------------------

\* display_setup, before usbd_setup
Init ==
  /\ DeviceInit
  /\ current_state = Snapshot
  /\ since_key = 0 /\ since_change = 0
  /\ last_screensaver_enabled = FALSE
  /\ screen = Picture(current_state)
  /\ idle = 0 /\ updated = FALSE

\* One turn of the main loop is much shorter than a unit of the clock.
Tick ==
  /\ updated /\ updated' = FALSE
  /\ since_key' = (since_key + 1) % W /\ since_change' = (since_change + 1) % W
  /\ idle' = IF idle < Secs THEN idle + 1 ELSE Secs
  /\ UNCHANGED <<deviceVars, display>>

\* A scan that finds a key down or an edge; hid_poll scans only while the device is
\* configured, and in suspension only to look for a reason to wake the host.
KeyTrigger ==
  /\ usbd_state = "configured" /\ (suspended => usbd_remote_wakeup_enabled)
  /\ since_key' = 0 /\ idle' = 0
  /\ UNCHANGED <<deviceVars, since_change, updated, display>>

DisplayUpdate ==
  /\ IF Changed
       THEN /\ current_state' = Snapshot /\ since_change' = 0
            /\ screen' = Picture(Snapshot)
            /\ idle' = 0
            /\ UNCHANGED last_screensaver_enabled
       ELSE /\ last_screensaver_enabled' = ~Recent
            /\ screen' = IF ~Recent THEN Blank
                         ELSE IF last_screensaver_enabled THEN Picture(current_state)
                         ELSE screen
            /\ UNCHANGED <<current_state, since_change, idle>>
  /\ updated' = TRUE
  /\ UNCHANGED <<deviceVars, since_key>>

DeviceStep == DeviceNext /\ UNCHANGED <<clock, display>>

Next ==
  \/ DeviceStep
  \/ Tick
  \/ KeyTrigger
  \/ DisplayUpdate

Spec == Init /\ [][Next]_vars

\* The clock never stops, and neither does the main loop.
FairSpec == Spec /\ WF_vars(Tick) /\ WF_vars(DisplayUpdate)
-----------------------------------------------------------------------------
(* Properties *)

TypeOK ==
  /\ DeviceTypeOK
  /\ since_key \in 0 .. W - 1 /\ since_change \in 0 .. W - 1
  /\ last_screensaver_enabled \in BOOLEAN
  /\ idle \in 0 .. Secs /\ updated \in BOOLEAN

\* After each turn the screen is blank or shows the state of that moment, whatever
\* changed since the turn before and however long the screen was off.
ScreenTruthful ==
  [][DisplayUpdate => screen' \in {Blank, Picture(Snapshot)}]_vars

\* For a whole screensaver period after a key or a change the screen is on, at
\* every value of the wrapping clock and however it was switched off before.
ScreenOnInUse ==
  [][DisplayUpdate /\ (Changed \/ idle < Secs) => screen' # Blank]_vars

\* A keyboard at rest has its screen off over and over again (not for good: once in
\* every round of the clock the differences look small for a while).
Disturbed == KeyTrigger \/ DeviceStep
ScreenSaved == <>[][~Disturbed]_vars => []<>(screen = Blank)
=============================================================================
