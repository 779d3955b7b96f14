------------------------------- MODULE Device -------------------------------
(***************************************************************************)
(* The keyboard as a USB device (lib/usb.c, keyboard/usb.c, and the class   *)
(* requests of keyboard/hid.c that keep a state of their own): the device   *)
(* state the program believes in, against the configuration and the table   *)
(* of control callbacks that libopencm3 keeps.                              *)
(* Requests are dispatched by usbd_poll, one at a time, in any order.       *)
(***************************************************************************)
EXTENDS Naturals

CONSTANTS
  Leds,       \* values of the LED report
  Protocols   \* values a host sends with SET_PROTOCOL

\* A device starts in the report protocol, with no LED on.
REPORT == 1
NoLeds == 0

CONFIGURATION_VALUE == 1

\* wIndex of the two interfaces, and the number of the boot interface's endpoint.
HID_INTERFACE_NUMBER_BOOT == 0
HID_INTERFACE_NUMBER_EXTRA == 1
HID_ENDPOINT_NUMBER_BOOT == 1
InterfaceNumber == {HID_INTERFACE_NUMBER_BOOT, HID_INTERFACE_NUMBER_EXTRA}

ASSUME HostAssumption ==
  NoLeds \in Leds /\ Protocols \subseteq Nat /\ {0, REPORT} \subseteq Protocols

VARIABLES
  usbd_state,                  \* "reset", "addressed" or "configured"
  usbd_remote_wakeup_enabled,
  hid_protocol,
  hid_led_report,
  current_config,              \* libopencm3: the configuration; 0 for none
  callbacks,                   \* libopencm3: the table of control callbacks
  suspended                    \* the SUSPSTS bit of the USB core

(* History variables. *)
VARIABLES
  asked,          \* remote wake-up, as the host asked for it since it was reset
  abandoned,      \* SET_CONFIGURATION(0) came last
  boot_protocol   \* the protocol the host last asked of the boot interface

device == <<usbd_state, usbd_remote_wakeup_enabled, hid_protocol, hid_led_report>>
library == <<current_config, callbacks>>
wishes == <<asked, abandoned, boot_protocol>>
deviceVars == <<device, library, suspended, wishes>>

-----------------------------------------------------------------------------
(* The operators named ...Mutant are wrong on purpose: a plausible slip in the *)
(* operator after them, which one of the properties must notice.               *)

\* usbd_register_control_callback takes the first free of
\* MAX_USER_CONTROL_CALLBACK slots; without one the callback is not registered.
Slot == 1 .. 4
NoCallbacks == [i \in Slot |-> "none"]
Register(table, c) ==
  [i \in Slot |->
    IF table[i] = "none" /\ \A j \in 1 .. i - 1 : table[j] # "none" THEN c ELSE table[i]]

\* set_config_callback_base registers two callbacks, hid_set_config_callback two.
BaseCallbacksMutant(table) ==
  Register(Register(Register(table, "get_status"), "feature"), "set_address")
BaseCallbacks(table) == Register(Register(table, "get_status"), "feature")
HidCallbacks(table) == Register(Register(table, "hid_standard"), "hid_class")

Registered(c) == \E i \in Slot : callbacks[i] = c

\* set_address_callback is called for every standard request to the device with
\* an OUT data direction, not only for SET_ADDRESS, as long as it is registered.
AfterStandardOut == IF Registered("set_address") THEN "addressed" ELSE usbd_state

StateAfterResetMutant == usbd_state
StateAfterReset == "reset"

WakeupAfterConfigMutant == usbd_remote_wakeup_enabled
WakeupAfterConfig == FALSE

-----------------------------------------------------------------------------

\* usbd_setup
DeviceInit ==
  /\ usbd_state = "reset" /\ usbd_remote_wakeup_enabled = FALSE
  /\ hid_protocol = REPORT /\ hid_led_report = NoLeds
  /\ current_config = 0 /\ callbacks = Register(NoCallbacks, "set_address") /\ suspended = FALSE
  /\ asked = FALSE /\ abandoned = FALSE /\ boot_protocol = REPORT

\* libopencm3 forgets the configuration, but not the callbacks.
BusReset ==
  /\ usbd_state' = StateAfterReset
  /\ current_config' = 0 /\ suspended' = FALSE
  /\ asked' = FALSE /\ abandoned' = FALSE /\ boot_protocol' = REPORT
  /\ UNCHANGED <<usbd_remote_wakeup_enabled, hid_protocol, hid_led_report, callbacks>>

Suspend ==
  /\ ~suspended /\ suspended' = TRUE
  /\ UNCHANGED <<device, library, wishes>>

Resume ==
  /\ suspended /\ suspended' = FALSE
  /\ UNCHANGED <<device, library, wishes>>

SetAddress ==
  /\ ~suspended
  /\ usbd_state' = AfterStandardOut
  /\ UNCHANGED <<usbd_remote_wakeup_enabled, hid_protocol, hid_led_report,
                 library, suspended, wishes>>

\* SET_CONFIGURATION: libopencm3 refuses a value without a configuration, and
\* flushes the control callbacks.  set_config_callback does nothing for 0.
SetConfiguration(wValue) ==
  /\ ~suspended
  /\ current_config' = wValue
  /\ IF wValue = CONFIGURATION_VALUE
       THEN /\ usbd_state' = "configured"
            /\ callbacks' = HidCallbacks(BaseCallbacks(NoCallbacks))
            /\ usbd_remote_wakeup_enabled' = WakeupAfterConfig
            /\ hid_protocol' = REPORT
            /\ asked' = FALSE /\ boot_protocol' = REPORT
       ELSE /\ usbd_state' = AfterStandardOut
            /\ callbacks' = NoCallbacks
            /\ UNCHANGED <<usbd_remote_wakeup_enabled, hid_protocol,
                           asked, boot_protocol>>
  /\ abandoned' = (wValue # CONFIGURATION_VALUE)
  /\ UNCHANGED <<hid_led_report, suspended>>

\* SET_FEATURE and CLEAR_FEATURE of DEVICE_REMOTE_WAKEUP
Feature(on) ==
  /\ ~suspended
  /\ usbd_state' = AfterStandardOut
  /\ IF Registered("feature")
       THEN usbd_remote_wakeup_enabled' = on /\ asked' = on
       ELSE UNCHANGED <<usbd_remote_wakeup_enabled, asked>>
  /\ UNCHANGED <<hid_protocol, hid_led_report, library, suspended,
                 abandoned, boot_protocol>>

\* hid_class_set_report, for the LEDs; a report of another length is refused.
SetReport(interface_number, leds) ==
  /\ ~suspended /\ Registered("hid_class")
  /\ interface_number = HID_INTERFACE_NUMBER_BOOT
  /\ hid_led_report' = leds
  /\ UNCHANGED <<usbd_state, usbd_remote_wakeup_enabled, hid_protocol, library,
                 suspended, wishes>>

\* hid_class_set_protocol: what it compares the interface number with is the
\* number of an endpoint, and what it tests is the protocol of before.
ProtocolTaken(interface_number) ==
  interface_number = HID_ENDPOINT_NUMBER_BOOT /\ hid_protocol \in {0, 1}

SetProtocol(interface_number, protocol) ==
  /\ ~suspended /\ Registered("hid_class")
  /\ hid_protocol' =
       IF ProtocolTaken(interface_number) THEN protocol ELSE hid_protocol
  /\ boot_protocol' =
       IF interface_number = HID_INTERFACE_NUMBER_BOOT THEN protocol ELSE boot_protocol
  /\ UNCHANGED <<usbd_state, usbd_remote_wakeup_enabled, hid_led_report, library,
                 suspended, asked, abandoned>>

DeviceNext ==
  \/ BusReset
  \/ Suspend
  \/ Resume
  \/ SetAddress
  \/ \E wValue \in {0, CONFIGURATION_VALUE} : SetConfiguration(wValue)
  \/ \E on \in BOOLEAN : Feature(on)
  \/ \E i \in InterfaceNumber, leds \in Leds : SetReport(i, leds)
  \/ \E i \in InterfaceNumber, p \in Protocols : SetProtocol(i, p)

DeviceSpec == DeviceInit /\ [][DeviceNext]_deviceVars
-----------------------------------------------------------------------------
(* Properties *)

\* The table of a configured keyboard.
AllHandlers ==
  [i \in Slot |-> CASE i = 1 -> "get_status" [] i = 2 -> "feature"
                    [] i = 3 -> "hid_standard" [] i = 4 -> "hid_class"]

DeviceTypeOK ==
  /\ usbd_state \in {"reset", "addressed", "configured"}
  /\ usbd_remote_wakeup_enabled \in BOOLEAN
  /\ hid_protocol \in Protocols /\ hid_led_report \in Leds
  /\ current_config \in {0, CONFIGURATION_VALUE} /\ suspended \in BOOLEAN
  /\ callbacks \in {NoCallbacks, Register(NoCallbacks, "set_address"),
                   AllHandlers}
  /\ asked \in BOOLEAN /\ abandoned \in BOOLEAN /\ boot_protocol \in Protocols

\* The state that hid_poll trusts before it writes to an endpoint is that of
\* libopencm3, through resets, reconfigurations and requests that come when they
\* should not (SET_CONFIGURATION(0) goes unnoticed, keyboard/usb.c:23); and in a
\* configured device all four handlers have found room in libopencm3's table.
ConfiguredTogether ==
  /\ ~abandoned =>
       (usbd_state = "configured" <=> current_config = CONFIGURATION_VALUE)
  /\ current_config = CONFIGURATION_VALUE =>
       {callbacks[i] : i \in Slot} = {"get_status", "feature", "hid_standard", "hid_class"}

\* A configured keyboard wakes the host only if this host asked for it: a request
\* from before a reset does not survive into the next configuration.
WakeupAsAsked ==
  usbd_state = "configured" => (usbd_remote_wakeup_enabled <=> asked)

\* The protocol is the one the host asked of the boot interface
\* (doc/usb_hid_control_requests: "supported by devices in the boot subclass").
ProtocolBoot == usbd_state = "configured" => hid_protocol = boot_protocol
=============================================================================
