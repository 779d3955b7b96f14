-------------------------------- MODULE Layers --------------------------------
(***************************************************************************)
(* The layer logic of keyboard/keys.c and keyboard/keys/layers.c: which    *)
(* layers are enabled, and what the Fn, Keypad, layout, toggle and cut     *)
(* keys do to them.                                                        *)
(*                                                                         *)
(* Every edge that keys_scan reports is one step.  The order of the edges  *)
(* of one scan (rows and columns) is left open, and a request may come     *)
(* between any two of them: more than the code can do, never less.         *)
(***************************************************************************)
EXTENDS Integers, FiniteSetsExt

CONSTANTS
  Keys,       \* the keys in use
  HostDoes    \* the requests the host makes, and the wake-up scans

HostActs == {"set_config", "set_idle", "wake_scan"}

-----------------------------------------------------------------------------
(* Layers, keys and the keymap *)

\* enum layers: a lower number is searched first.
Layer == 0 .. 8
FN == 0
KEYPAD == 1
Layout == 2 .. 5           \* QWERTY_QWERTY .. DVORAK_QWERTY
QwertyLayout == {2, 3}     \* the two for a host that is set to Qwerty
DVORAK_DVORAK == 4
SHIFTED_NUMBER == 6
MAC == 7
COMMON == 8

\* layers_keymap for the keys that act on layers, each key named after what it
\* does.  A key that is not in the domain says "next layer"; a "usage" is
\* reported to the host and changes no layer.
FnEntry ==
  [QwertyQwerty |-> "layout", QwertyDvorak |-> "layout",
   DvorakDvorak |-> "layout", DvorakQwerty |-> "layout",
   Mac |-> "toggle", ShiftedNumber |-> "toggle", Cut |-> "cut",
   Keypad |-> "usage"]
KeypadEntry == [ShiftedNumber |-> "usage"]
CommonEntry ==
  [QwertyQwerty |-> "usage", QwertyDvorak |-> "usage",
   DvorakDvorak |-> "usage", DvorakQwerty |-> "usage",
   Mac |-> "usage", ShiftedNumber |-> "usage", Cut |-> "usage",
   Keypad |-> "keypad", Fn |-> "fn"]

layers_keymapMutant ==
  [l \in Layer |-> CASE l = FN -> [k \in {"Fn"} \cup DOMAIN FnEntry |->
                                   IF k = "Fn" THEN "usage" ELSE FnEntry[k]]
                     [] l = KEYPAD -> KeypadEntry
                     [] l = COMMON -> CommonEntry
                     [] OTHER -> <<>>]
layers_keymap ==
  [l \in Layer |-> CASE l = FN -> FnEntry
                     [] l = KEYPAD -> KeypadEntry
                     [] l = COMMON -> CommonEntry
                     [] OTHER -> <<>>]

ASSUME InputAssumption ==
  Keys \subseteq DOMAIN CommonEntry /\ HostDoes \subseteq HostActs

\* The operand of the "layout" and "toggle" entries.
LayerOf == [QwertyQwerty |-> 2, QwertyDvorak |-> 3, DvorakDvorak |-> 4,
            DvorakQwerty |-> 5, Mac |-> MAC, ShiftedNumber |-> SHIFTED_NUMBER]

VARIABLES
  down,                \* the keys whose previous_key_state is 1
  layers_state,        \* the set of the layers that are enabled
  layer_keypad_state,  \* the keypad layer as the Keypad key left it
  layout_unchanged,    \* layout_changes_counter = last_layout_changes_counter
  last_active_layout,  \* func_fn's static: the layout before Fn (0: none)
  registered           \* the cut sequence last registered, <<>> at first

(* History variables. *)
VARIABLES
  chosen,     \* the layout last chosen with a layout key, or by a reset
  swallowed,  \* a wake-up scan has consumed an edge of Fn since the last reset
  diverged    \* a reset disabled the keypad layer but not layer_keypad_state

memory == <<layer_keypad_state, layout_unchanged, last_active_layout>>
history == <<chosen, swallowed, diverged>>
vars == <<down, layers_state, memory, registered, history>>

-----------------------------------------------------------------------------
(* Helpers *)

\* key_event_callback: the entry of the first enabled layer that has one.
Entry(k) ==
  LET l == Min({m \in layers_state : k \in DOMAIN layers_keymap[m]})
  IN layers_keymap[l][k]

\* layout_set: the layout l and no other.
LayersWith(s, l) == (s \ Layout) \cup {l}

\* layout_get
ActiveLayout ==
  IF layers_state \cap Layout = {} THEN 0 ELSE Min(layers_state \cap Layout)

Family(l) == IF l \in QwertyLayout THEN "qwerty" ELSE "dvorak"
Host == IF MAC \in layers_state THEN "mac" ELSE "pc"

AlternativeMutant(l) ==
  IF l = 0 THEN 0 ELSE IF l \in QwertyLayout THEN 5 ELSE 2
\* func_fn's fn_alternative_layout: the Qwerty layout for the same host.
Alternative(l) ==
  IF l = 0 THEN 0 ELSE IF l \in QwertyLayout THEN 2 ELSE 5

DefaultLayersMutant == {DVORAK_DVORAK}
\* layers_default_state, where a layer to "load" is DVORAK_DVORAK or nothing.
DefaultLayers == {DVORAK_DVORAK, COMMON}

RestoresMutant == last_active_layout # 0
\* func_fn, on release: no layout was chosen since Fn went down.
Restores == layout_unchanged /\ last_active_layout # 0

LayersAfterFnMutant == layers_state \ {FN, KEYPAD}
\* func_fn, on release: the keypad layer goes back to what its key left.
LayersAfterFn ==
  (layers_state \ {FN, KEYPAD}) \cup (IF layer_keypad_state THEN {KEYPAD} ELSE {})

-----------------------------------------------------------------------------

Init ==
  /\ down = {} /\ layers_state = DefaultLayers
  /\ layer_keypad_state = FALSE
  /\ layout_unchanged = TRUE /\ last_active_layout = 0
  /\ registered = <<>>
  /\ chosen = DVORAK_DVORAK /\ swallowed = FALSE /\ diverged = FALSE

\* func_fn, pressed
FnPressed ==
  /\ layers_state' =
       LET s == layers_state \cup {FN, KEYPAD}
       IN IF ActiveLayout = 0 THEN s
          ELSE LayersWith(s, Alternative(ActiveLayout))
  /\ last_active_layout' = ActiveLayout /\ layout_unchanged' = TRUE
  /\ UNCHANGED <<layer_keypad_state, registered, history>>

\* func_fn, released
FnReleased ==
  /\ layers_state' = IF Restores THEN LayersWith(LayersAfterFn, last_active_layout)
                                 ELSE LayersAfterFn
  /\ layout_unchanged' = (layout_unchanged /\ ~Restores)
  /\ diverged' = FALSE
  /\ UNCHANGED <<layer_keypad_state, last_active_layout, registered,
                 chosen, swallowed>>

\* func_keypad
KeypadPressed ==
  /\ layer_keypad_state' = ~layer_keypad_state
  /\ layers_state' = IF layer_keypad_state THEN layers_state \ {KEYPAD}
                                           ELSE layers_state \cup {KEYPAD}
  /\ diverged' = FALSE
  /\ UNCHANGED <<layout_unchanged, last_active_layout, registered,
                 chosen, swallowed>>

\* layout_set, from a layout key
LayoutPressed(k) ==
  /\ layers_state' = LayersWith(layers_state, LayerOf[k])
  /\ layout_unchanged' = FALSE
  /\ chosen' = LayerOf[k]
  /\ UNCHANGED <<layer_keypad_state, last_active_layout, registered,
                 swallowed, diverged>>

\* toggle_layer
TogglePressed(k) ==
  /\ layers_state' = IF LayerOf[k] \in layers_state
                     THEN layers_state \ {LayerOf[k]}
                     ELSE layers_state \cup {LayerOf[k]}
  /\ UNCHANGED <<memory, registered, history>>

\* func_cut; func_copy and func_paste differ in the sequence alone
CutPressed ==
  /\ registered' = IF ActiveLayout = 0 THEN registered
                   ELSE <<Family(ActiveLayout), Host>>
  /\ UNCHANGED <<layers_state, memory, history>>

\* The edges of the keys, as keys_populate_hid_usage_list sees them.
Press(k) ==
  /\ k \notin down /\ down' = down \cup {k}
  /\ \/ Entry(k) = "fn" /\ FnPressed
     \/ Entry(k) = "keypad" /\ KeypadPressed
     \/ Entry(k) = "layout" /\ LayoutPressed(k)
     \/ Entry(k) = "toggle" /\ TogglePressed(k)
     \/ Entry(k) = "cut" /\ CutPressed
     \/ Entry(k) = "usage" /\ UNCHANGED <<layers_state, memory, registered, history>>

Release(k) ==
  /\ k \in down /\ down' = down \ {k}
  /\ \/ Entry(k) = "fn" /\ FnReleased
     \/ Entry(k) # "fn" /\ UNCHANGED <<layers_state, memory, registered, history>>

\* The scan of a suspended keyboard (hid.c) looks for presses and has no other
\* effect, but the debouncer has reported the edge and will not do so again.
WakeScan(k) ==
  /\ "wake_scan" \in HostDoes
  /\ down' = IF k \in down THEN down \ {k} ELSE down \cup {k}
  /\ swallowed' = (swallowed \/ k = "Fn")
  /\ UNCHANGED <<layers_state, memory, registered, chosen, diverged>>

\* keys_reset, from SET_CONFIGURATION: the scan state and the layers start
\* over, the statics of layers.c do not.
Reset ==
  /\ "set_config" \in HostDoes
  /\ down' = {} /\ layers_state' = DefaultLayers
  /\ chosen' = DVORAK_DVORAK /\ swallowed' = FALSE
  /\ diverged' = layer_keypad_state
  /\ UNCHANGED <<memory, registered>>

\* SET_IDLE on the boot interface: a host that sets a duration is a Mac.
SetIdle(mac) ==
  /\ "set_idle" \in HostDoes
  /\ layers_state' = IF mac THEN layers_state \cup {MAC} ELSE layers_state \ {MAC}
  /\ UNCHANGED <<down, memory, registered, history>>

Next ==
  \/ \E k \in Keys : Press(k)
  \/ \E k \in Keys : Release(k)
  \/ \E k \in Keys : WakeScan(k)
  \/ Reset
  \/ \E mac \in BOOLEAN : SetIdle(mac)

Spec == Init /\ [][Next]_vars
-----------------------------------------------------------------------------
(* Properties *)

\* Every variable keeps to its range; in particular the bottom layer COMMON,
\* the only one that has an entry for Fn, is never disabled.
TypeOK ==
  /\ down \subseteq Keys
  /\ layers_state \subseteq Layer /\ COMMON \in layers_state
  /\ layer_keypad_state \in BOOLEAN /\ layout_unchanged \in BOOLEAN
  /\ last_active_layout \in Layout \cup {0}
  /\ registered \in ({"qwerty", "dvorak"} \X {"mac", "pc"}) \cup {<<>>}
  /\ chosen \in Layout /\ swallowed \in BOOLEAN /\ diverged \in BOOLEAN

\* Exactly one layout is enabled, whatever happens (layout_get returns the first
\* and would hide a second one).
OneLayout == \E l \in Layout : layers_state \cap Layout = {l}

\* The Fn layer is on exactly while the Fn key is down, through every other
\* layer and through a reset, as long as no wake-up scan consumes an edge of Fn.
FnWhileHeld == ~swallowed => (FN \in layers_state <=> "Fn" \in down)

\* Under the same condition, the layout is the one the user chose last; while
\* Fn is held, and until a layout key is used, it is the Qwerty layout for the
\* same host.
ChosenLayout ==
  ~swallowed =>
    layers_state \cap Layout =
      {IF FN \in layers_state /\ layout_unchanged THEN Alternative(chosen)
                                                  ELSE chosen}

\* One layout is on, and Fn gives back the one it took, and never takes back one
\* that was chosen meanwhile (func_fn, layers.c:250-289).
LayoutAsChosen == OneLayout /\ ChosenLayout

\* Fn brings the keypad layer with it.  Without Fn the layer is as its own key
\* left it, except that a reset disables the layer and forgets to tell the
\* latch: until the next use of either key the two differ.
KeypadAsLatched ==
  IF FN \in layers_state
  THEN KEYPAD \in layers_state
  ELSE ~diverged => (KEYPAD \in layers_state <=> layer_keypad_state)

\* A cut sequence is the one for the layout the user chose and for the kind of
\* host, although Fn has put another layout in its place.
CutFitsHost ==
  [][registered' # registered /\ ~swallowed
       => registered' = <<Family(chosen), Host>>]_vars
=============================================================================
