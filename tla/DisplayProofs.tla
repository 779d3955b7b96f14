---------------------------- MODULE DisplayProofs ----------------------------
(***************************************************************************)
(* What Device.tla and Display.tla promise holds for every size of the      *)
(* clock, every screensaver time and every host.                            *)
(*                                                                         *)
(* The device needs one fact more: as long as set_address_callback sits in  *)
(* libopencm3's table, the keyboard has never been configured.  The screen  *)
(* needs what the statics of display_update say of it, and that the         *)
(* differences of the wrapping clock are right while they are small.        *)
(***************************************************************************)
EXTENDS Display, TLAPS

OnlyAddress == Register(NoCallbacks, "set_address")

\* The table of callbacks tells how far the device has come.
NotYetConfigured ==
  callbacks = OnlyAddress => usbd_state # "configured" /\ current_config = 0

Complete == current_config = CONFIGURATION_VALUE => callbacks = AllHandlers

StatesAgree ==
  ~abandoned => (usbd_state = "configured" <=> current_config = CONFIGURATION_VALUE)

DeviceInv ==
  /\ DeviceTypeOK /\ NotYetConfigured /\ Complete
  /\ StatesAgree /\ WakeupAsAsked

\* What the statics of display_update know of the screen and of the time.
ScreenInv ==
  /\ screen \in {Blank, Picture(current_state)}
  /\ ~last_screensaver_enabled => screen # Blank
  /\ idle < Secs => since_key = idle \/ since_change = idle

-----------------------------------------------------------------------------
(* The table of callbacks *)

\* A callback takes the first free slot and leaves the others alone.
LEMMA FirstFree ==
  ASSUME NEW table, NEW c, NEW k \in Slot,
         table[k] = "none", \A j \in 1 .. k - 1 : table[j] # "none"
  PROVE  Register(table, c) = [i \in Slot |-> IF i = k THEN c ELSE table[i]]
<1>1. ASSUME NEW i \in Slot
      PROVE  (table[i] = "none" /\ \A j \in 1 .. i - 1 : table[j] # "none") <=> i = k
  <2>1. CASE i < k
    <3>1. i \in 1 .. k - 1
      BY <2>1 DEF Slot
    <3>. QED BY <2>1, <3>1 DEF Slot
  <2>2. CASE i > k
    <3>1. k \in 1 .. i - 1
      BY <2>2 DEF Slot
    <3>. QED BY <2>2, <3>1 DEF Slot
  <2>. QED BY <2>1, <2>2 DEF Slot
<1>. QED BY <1>1 DEF Register

LEMMA RegisterAll == HidCallbacks(BaseCallbacks(NoCallbacks)) = AllHandlers
<1>. DEFINE one == [i \in Slot |-> IF i = 1 THEN "get_status" ELSE "none"]
            two == [i \in Slot |-> IF i = 1 THEN "get_status"
                                   ELSE IF i = 2 THEN "feature" ELSE "none"]
            three == [i \in Slot |-> IF i = 1 THEN "get_status"
                                     ELSE IF i = 2 THEN "feature"
                                     ELSE IF i = 3 THEN "hid_standard" ELSE "none"]
<1>1. Register(NoCallbacks, "get_status") = one
  BY DEF Register, NoCallbacks, Slot
<1>2. Register(one, "feature") = two
  <2>1. 2 \in Slot /\ one[2] = "none" /\ \A j \in 1 .. 1 : one[j] # "none"
    BY DEF Slot
  <2>2. Register(one, "feature") = [i \in Slot |-> IF i = 2 THEN "feature" ELSE one[i]]
    BY <2>1, FirstFree
  <2>. QED BY <2>2 DEF Slot
<1>3. Register(two, "hid_standard") = three
  <2>1. 3 \in Slot /\ two[3] = "none" /\ \A j \in 1 .. 2 : two[j] # "none"
    BY DEF Slot
  <2>2. Register(two, "hid_standard") = [i \in Slot |-> IF i = 3 THEN "hid_standard" ELSE two[i]]
    BY <2>1, FirstFree
  <2>. QED BY <2>2 DEF Slot
<1>4. Register(three, "hid_class") = AllHandlers
  <2>1. 4 \in Slot /\ three[4] = "none" /\ \A j \in 1 .. 3 : three[j] # "none"
    BY DEF Slot
  <2>2. Register(three, "hid_class") = [i \in Slot |-> IF i = 4 THEN "hid_class" ELSE three[i]]
    BY <2>1, FirstFree
  <2>. QED BY <2>2 DEF Slot, AllHandlers
<1>. QED BY <1>1, <1>2, <1>3, <1>4 DEF BaseCallbacks, HidCallbacks

LEMMA Members ==
  /\ \A i \in Slot : NoCallbacks[i] = "none"
  /\ OnlyAddress[1] = "set_address"
  /\ \A i \in Slot : AllHandlers[i] # "set_address"
  /\ NoCallbacks # OnlyAddress /\ AllHandlers # OnlyAddress
<1>1. \A i \in Slot : NoCallbacks[i] = "none"
  BY DEF NoCallbacks
<1>2. OnlyAddress[1] = "set_address"
  BY DEF OnlyAddress, Register, NoCallbacks, Slot
<1>3. \A i \in Slot : AllHandlers[i] # "set_address"
  BY DEF AllHandlers, Slot
<1>4. 1 \in Slot
  BY DEF Slot
<1>. QED BY <1>1, <1>2, <1>3, <1>4

\* Before the first configuration every standard request makes the keyboard
\* "addressed"; afterwards none changes its state.
LEMMA StandardOut ==
  ASSUME DeviceTypeOK
  PROVE  AfterStandardOut = IF callbacks = OnlyAddress THEN "addressed" ELSE usbd_state
<1>1. callbacks \in {NoCallbacks, OnlyAddress, AllHandlers}
  BY DEF DeviceTypeOK, OnlyAddress
<1>2. 1 \in Slot
  BY DEF Slot
<1>3. Registered("set_address") <=> callbacks = OnlyAddress
  BY <1>1, <1>2, Members DEF Registered
<1>. QED BY <1>3 DEF AfterStandardOut

-----------------------------------------------------------------------------
(* The device *)

LEMMA DeviceInvInit == DeviceInit => DeviceInv
<1>. SUFFICES ASSUME DeviceInit PROVE DeviceInv
  OBVIOUS
<1>1. DeviceTypeOK
  BY HostAssumption DEF DeviceInit, DeviceTypeOK, REPORT, CONFIGURATION_VALUE
<1>2. NotYetConfigured /\ Complete /\ StatesAgree /\ WakeupAsAsked
  BY DEF DeviceInit, NotYetConfigured, Complete, StatesAgree, WakeupAsAsked,
         CONFIGURATION_VALUE
<1>. QED BY <1>1, <1>2 DEF DeviceInv

LEMMA DeviceInvStep ==
  ASSUME DeviceInv, DeviceNext \/ UNCHANGED deviceVars
  PROVE  DeviceInv'
<1>. USE DEF CONFIGURATION_VALUE, REPORT
<1>. DEFINE Facts == NotYetConfigured' /\ Complete' /\ StatesAgree' /\ WakeupAsAsked'
<1>1. AllHandlers # OnlyAddress /\ NoCallbacks # OnlyAddress
  BY Members
<1>2. CASE BusReset
  <2>1. DeviceTypeOK'
    BY <1>2, HostAssumption DEF BusReset, StateAfterReset, DeviceInv, DeviceTypeOK
  <2>2. Facts
    BY <1>2 DEF BusReset, StateAfterReset, NotYetConfigured, Complete,
       StatesAgree, WakeupAsAsked
  <2>. QED BY <2>1, <2>2 DEF DeviceInv
<1>3. CASE Suspend \/ Resume \/ UNCHANGED deviceVars
  <2>1. DeviceTypeOK'
    BY <1>3 DEF Suspend, Resume, deviceVars, device, library, wishes, DeviceInv,
       DeviceTypeOK, BaseCallbacks, HidCallbacks
  <2>2. Facts
    BY <1>3 DEF Suspend, Resume, deviceVars, device, library, wishes, DeviceInv,
       NotYetConfigured, Complete, StatesAgree, WakeupAsAsked
  <2>. QED BY <2>1, <2>2 DEF DeviceInv
<1>4. CASE SetAddress
  <2>1. AfterStandardOut = IF callbacks = OnlyAddress THEN "addressed" ELSE usbd_state
    BY StandardOut DEF DeviceInv
  <2>2. DeviceTypeOK'
    BY <1>4, <2>1 DEF SetAddress, library, wishes, DeviceInv, DeviceTypeOK
  <2>3. Facts
    BY <1>4, <2>1 DEF SetAddress, library, wishes, DeviceInv,
       NotYetConfigured, Complete, StatesAgree, WakeupAsAsked
  <2>. QED BY <2>2, <2>3 DEF DeviceInv
<1>5. CASE SetConfiguration(1)
  <2>1. callbacks' = AllHandlers /\ current_config' = 1 /\ usbd_state' = "configured"
    BY <1>5, RegisterAll DEF SetConfiguration
  <2>2. DeviceTypeOK'
    BY <1>5, <2>1, HostAssumption
       DEF SetConfiguration, WakeupAfterConfig, DeviceInv, DeviceTypeOK
  <2>3. Facts
    BY <1>1, <1>5, <2>1 DEF SetConfiguration, WakeupAfterConfig, NotYetConfigured,
       Complete, StatesAgree, WakeupAsAsked
  <2>. QED BY <2>2, <2>3 DEF DeviceInv
<1>6. CASE SetConfiguration(0)
  <2>1. AfterStandardOut = IF callbacks = OnlyAddress THEN "addressed" ELSE usbd_state
    BY StandardOut DEF DeviceInv
  <2>2. callbacks' = NoCallbacks /\ current_config' = 0 /\ usbd_state' = AfterStandardOut
    BY <1>6 DEF SetConfiguration
  <2>5. abandoned' = TRUE
    <3>1. 0 # 1
      OBVIOUS
    <3>. QED BY Zenon, <1>6, <3>1 DEF SetConfiguration
  <2>3. DeviceTypeOK'
    BY <1>6, <2>1, <2>2 DEF SetConfiguration, DeviceInv, DeviceTypeOK
  <2>4. Facts
    BY <1>1, <1>6, <2>1, <2>2, <2>5 DEF SetConfiguration, DeviceInv, NotYetConfigured,
       Complete, StatesAgree, WakeupAsAsked
  <2>. QED BY <2>3, <2>4 DEF DeviceInv
<1>7. ASSUME NEW on \in BOOLEAN, Feature(on) PROVE DeviceInv'
  <2>1. AfterStandardOut = IF callbacks = OnlyAddress THEN "addressed" ELSE usbd_state
    BY StandardOut DEF DeviceInv
  <2>2. DeviceTypeOK'
    BY <1>7, <2>1 DEF Feature, library, DeviceInv, DeviceTypeOK
  <2>3. Facts
    BY <1>7, <2>1 DEF Feature, library, DeviceInv,
       NotYetConfigured, Complete, StatesAgree, WakeupAsAsked
  <2>. QED BY <2>2, <2>3 DEF DeviceInv
<1>8. ASSUME NEW i \in InterfaceNumber, NEW leds \in Leds, SetReport(i, leds) PROVE DeviceInv'
  <2>1. DeviceTypeOK'
    BY <1>8 DEF SetReport, library, wishes, DeviceInv, DeviceTypeOK
  <2>2. Facts
    BY <1>8 DEF SetReport, library, wishes, DeviceInv,
       NotYetConfigured, Complete, StatesAgree, WakeupAsAsked
  <2>. QED BY <2>1, <2>2 DEF DeviceInv
<1>9. ASSUME NEW i \in InterfaceNumber, NEW p \in Protocols, SetProtocol(i, p) PROVE DeviceInv'
  <2>1. DeviceTypeOK'
    BY <1>9 DEF SetProtocol, library, DeviceInv, DeviceTypeOK
  <2>2. Facts
    BY <1>9 DEF SetProtocol, library, DeviceInv,
       NotYetConfigured, Complete, StatesAgree, WakeupAsAsked
  <2>. QED BY <2>1, <2>2 DEF DeviceInv
<1>. QED BY <1>2, <1>3, <1>4, <1>5, <1>6, <1>7, <1>8, <1>9 DEF DeviceNext

LEMMA DeviceSteps == [Next]_vars => DeviceNext \/ UNCHANGED deviceVars
BY DEF Next, DeviceStep, Tick, KeyTrigger, DisplayUpdate, vars

LEMMA DeviceInvariant == Spec => []DeviceInv
<1>1. Init => DeviceInv
  BY DeviceInvInit DEF Init
<1>2. DeviceInv /\ [Next]_vars => DeviceInv'
  BY DeviceInvStep, DeviceSteps
<1>. QED BY <1>1, <1>2, PTL DEF Spec

\* The keyboard is configured in its own eyes exactly when it is in libopencm3's,
\* for every order of requests, resets and suspensions, and has its four handlers in
\* libopencm3's table then (ConfiguredTogether).
THEOREM Configured == Spec => []ConfiguredTogether
<1>1. {AllHandlers[i] : i \in Slot} = {"get_status", "feature", "hid_standard", "hid_class"}
  <2>1. /\ AllHandlers[1] = "get_status" /\ AllHandlers[2] = "feature"
        /\ AllHandlers[3] = "hid_standard" /\ AllHandlers[4] = "hid_class"
    BY DEF AllHandlers, Slot
  <2>2. \A i \in Slot : i = 1 \/ i = 2 \/ i = 3 \/ i = 4
    BY DEF Slot
  <2>3. 1 \in Slot /\ 2 \in Slot /\ 3 \in Slot /\ 4 \in Slot
    BY DEF Slot
  <2>. QED BY Zenon, <2>1, <2>2, <2>3
<1>2. DeviceInv => ConfiguredTogether
  BY <1>1 DEF DeviceInv, StatesAgree, Complete, ConfiguredTogether
<1>. QED BY DeviceInvariant, <1>2, PTL

\* Remote wake-up is on in a configured keyboard exactly if this host asked for it.
THEOREM Wakeup == Spec => []WakeupAsAsked
<1>1. DeviceInv => WakeupAsAsked
  BY DEF DeviceInv
<1>. QED BY DeviceInvariant, <1>1, PTL

-----------------------------------------------------------------------------
(* The screen *)

LEMMA NeverBlank == \A s : Picture(s) # Blank
<1>1. ASSUME NEW s PROVE Picture(s) # Blank
  <2>1. DOMAIN Blank = {"blank"}
    BY DEF Blank
  <2>2. "leds" \in DOMAIN Picture(s) \/ "state" \in DOMAIN Picture(s)
    BY DEF Picture
  <2>. QED BY <2>1, <2>2
<1>. QED BY <1>1

ClockTypeOK ==
  /\ since_key \in 0 .. W - 1 /\ since_change \in 0 .. W - 1
  /\ last_screensaver_enabled \in BOOLEAN
  /\ idle \in 0 .. Secs /\ updated \in BOOLEAN

ShownInv == ClockTypeOK /\ ScreenInv

LEMMA ShownInit == Init => ShownInv
<1>. SUFFICES ASSUME Init PROVE ShownInv
  OBVIOUS
<1>1. ClockTypeOK
  <2>1. 0 \in 0 .. W - 1 /\ 0 \in 0 .. Secs
    BY ClockAssumption
  <2>. QED BY Zenon, <2>1 DEF Init, ClockTypeOK
<1>2. ScreenInv
  BY NeverBlank DEF Init, ScreenInv
<1>. QED BY <1>1, <1>2 DEF ShownInv

LEMMA ShownStep ==
  ASSUME ShownInv, [Next]_vars
  PROVE  ShownInv'
<1>1. CASE DeviceStep \/ UNCHANGED vars
  BY <1>1 DEF DeviceStep, vars, clock, display, ShownInv, ClockTypeOK, ScreenInv, Picture
<1>2. CASE Tick
  <2>1. ClockTypeOK'
    <3>1. since_key' \in 0 .. W - 1 /\ since_change' \in 0 .. W - 1
      BY <1>2, ClockAssumption DEF Tick, ShownInv, ClockTypeOK
    <3>2. idle' \in 0 .. Secs
      BY <1>2, ClockAssumption DEF Tick, ShownInv, ClockTypeOK
    <3>. QED BY Zenon, <1>2, <3>1, <3>2 DEF Tick, display, ShownInv, ClockTypeOK
  <2>2. /\ screen' \in {Blank, Picture(current_state')}
        /\ ~last_screensaver_enabled' => screen' # Blank
    BY <1>2 DEF Tick, display, ShownInv, ScreenInv, Picture
  <2>3. ASSUME idle' < Secs PROVE since_key' = idle' \/ since_change' = idle'
    <3>1. idle < Secs /\ idle' = idle + 1
      BY <1>2, <2>3, ClockAssumption DEF Tick, ShownInv, ClockTypeOK
    <3>2. idle + 1 < W
      BY <2>3, <3>1, ClockAssumption DEF ShownInv, ClockTypeOK
    <3>3. (idle + 1) % W = idle + 1
      BY <3>2, ClockAssumption DEF ShownInv, ClockTypeOK
    <3>4. since_key = idle \/ since_change = idle
      BY <3>1 DEF ShownInv, ScreenInv
    <3>. QED BY <1>2, <3>1, <3>3, <3>4 DEF Tick
  <2>. QED BY <2>1, <2>2, <2>3 DEF ShownInv, ScreenInv
<1>3. CASE KeyTrigger
  <2>1. ClockTypeOK'
    BY <1>3, ClockAssumption DEF KeyTrigger, display, ShownInv, ClockTypeOK
  <2>2. ScreenInv'
    BY <1>3 DEF KeyTrigger, display, ShownInv, ScreenInv, Picture
  <2>. QED BY <2>1, <2>2 DEF ShownInv
<1>4. CASE DisplayUpdate
  <2>1. CASE Changed
    <3>1. ClockTypeOK'
      BY <1>4, <2>1, ClockAssumption DEF DisplayUpdate, ShownInv, ClockTypeOK
    <3>2. screen' = Picture(current_state') /\ screen' # Blank
      BY <1>4, <2>1, NeverBlank DEF DisplayUpdate
    <3>3. since_change' = idle'
      BY <1>4, <2>1 DEF DisplayUpdate
    <3>. QED BY <3>1, <3>2, <3>3 DEF ShownInv, ScreenInv
  <2>2. CASE ~Changed
    <3>1. ClockTypeOK'
      BY <1>4, <2>2 DEF DisplayUpdate, ShownInv, ClockTypeOK
    <3>2. /\ screen' \in {Blank, Picture(current_state')}
          /\ ~last_screensaver_enabled' => screen' # Blank
      <4>1. current_state' = current_state /\ last_screensaver_enabled' = ~Recent
        BY <1>4, <2>2 DEF DisplayUpdate
      <4>2. CASE ~Recent
        BY <1>4, <2>2, <4>1, <4>2 DEF DisplayUpdate
      <4>3. CASE Recent /\ last_screensaver_enabled
        BY <1>4, <2>2, <4>1, <4>3, NeverBlank DEF DisplayUpdate
      <4>4. CASE Recent /\ ~last_screensaver_enabled
        BY <1>4, <2>2, <4>1, <4>4 DEF DisplayUpdate, ShownInv, ScreenInv
      <4>. QED BY <4>2, <4>3, <4>4
    <3>3. idle' < Secs => since_key' = idle' \/ since_change' = idle'
      BY <1>4, <2>2 DEF DisplayUpdate, ShownInv, ScreenInv
    <3>. QED BY <3>1, <3>2, <3>3 DEF ShownInv, ScreenInv
  <2>. QED BY <2>1, <2>2
<1>. QED BY <1>1, <1>2, <1>3, <1>4 DEF Next

LEMMA ShownInvariant == Spec => []ShownInv
<1>. QED BY ShownInit, ShownStep, PTL DEF Spec

\* Every variable of the device and of the display keeps to its range.
THEOREM TypeCorrect == Spec => []TypeOK
<1>1. DeviceInv /\ ShownInv => TypeOK
  BY DEF DeviceInv, ShownInv, ClockTypeOK, TypeOK
<1>. QED BY DeviceInvariant, ShownInvariant, <1>1, PTL

\* After a turn of the main loop the screen is blank or shows the state of that
\* moment, for every size of the clock and every history (ScreenTruthful).
THEOREM Truthful == Spec => ScreenTruthful
<1>1. ShownInv /\ [Next]_vars => [DisplayUpdate => screen' \in {Blank, Picture(Snapshot)}]_vars
  <2>. SUFFICES ASSUME ShownInv, DisplayUpdate PROVE screen' \in {Blank, Picture(Snapshot)}
    OBVIOUS
  <2>1. CASE Changed
    BY <2>1 DEF DisplayUpdate
  <2>2. CASE ~Changed
    <3>1. current_state = Snapshot
      BY <2>2 DEF Changed
    <3>. QED BY <2>2, <3>1 DEF DisplayUpdate, ShownInv, ScreenInv
  <2>. QED BY <2>1, <2>2
<1>. QED BY ShownInvariant, <1>1, PTL DEF Spec, ScreenTruthful

\* The screen is on for a screensaver period after a key or a change, also when the
\* clock wraps in it (ScreenOnInUse).
THEOREM OnInUse == Spec => ScreenOnInUse
<1>1. ShownInv /\ [Next]_vars
        => [DisplayUpdate /\ (Changed \/ idle < Secs) => screen' # Blank]_vars
  <2>. SUFFICES ASSUME ShownInv, DisplayUpdate, Changed \/ idle < Secs
                PROVE  screen' # Blank
    OBVIOUS
  <2>1. CASE Changed
    BY <2>1, NeverBlank DEF DisplayUpdate
  <2>2. CASE ~Changed
    <3>1. Recent
      BY <2>2 DEF ShownInv, ScreenInv, Recent
    <3>2. CASE last_screensaver_enabled
      BY <2>2, <3>1, <3>2, NeverBlank DEF DisplayUpdate
    <3>3. CASE ~last_screensaver_enabled
      BY <2>2, <3>1, <3>3 DEF DisplayUpdate, ShownInv, ScreenInv
    <3>. QED BY <3>2, <3>3
  <2>. QED BY <2>1, <2>2
<1>. QED BY ShownInvariant, <1>1, PTL DEF Spec, ScreenOnInUse
=============================================================================
