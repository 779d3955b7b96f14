----------------------------- MODULE LayersProofs -----------------------------
(***************************************************************************)
(* What Layers.tla promises holds whatever keys are in use and whatever    *)
(* requests the host makes.                                                *)
(*                                                                         *)
(* The layout is the delicate part: Fn takes it away and gives it back     *)
(* from a static, unless a counter says that it was chosen meanwhile.  The *)
(* invariant adds what the static holds while that counter stands still.   *)
(***************************************************************************)
EXTENDS Layers, TLAPS

\* What func_fn remembers is worth restoring.
Remembered ==
  ~swallowed /\ FN \in layers_state /\ layout_unchanged
    => last_active_layout = chosen

LayoutInv == FnWhileHeld /\ ChosenLayout /\ Remembered

-----------------------------------------------------------------------------
(* The keymap *)

\* The layers that can have an entry for one of our keys.
Entries(k) == {m \in layers_state : k \in DOMAIN layers_keymap[m]}

LEMMA Lowest ==
  ASSUME NEW S, S \subseteq {0, 1, 8}, 8 \in S
  PROVE  /\ Min(S) \in S
         /\ \A m \in S : Min(S) <= m
<1>. DEFINE x == IF 0 \in S THEN 0 ELSE IF 1 \in S THEN 1 ELSE 8
<1>1. x \in S /\ \A y \in S : x =< y
  OBVIOUS
<1>. HIDE DEF x
<1>. QED BY <1>1 DEF Min

LEMMA KeymapLayers ==
  /\ layers_keymap[FN] = FnEntry /\ layers_keymap[KEYPAD] = KeypadEntry
  /\ layers_keymap[COMMON] = CommonEntry
  /\ \A m \in Layer \ {FN, KEYPAD, COMMON} : DOMAIN layers_keymap[m] = {}
<1>1. DOMAIN <<>> = {}
  OBVIOUS
<1>. QED BY <1>1 DEF layers_keymap, Layer, FN, KEYPAD, COMMON

\* The layer that key_event_callback finds, and its entry.
LEMMA Found ==
  ASSUME TypeOK, NEW k \in Keys
  PROVE  \E m \in {FN, KEYPAD, COMMON} :
           /\ m \in Entries(k) /\ Entry(k) = layers_keymap[m][k]
           /\ \A n \in Entries(k) : m <= n
<1>1. Entries(k) \subseteq {FN, KEYPAD, COMMON}
  BY KeymapLayers DEF Entries, TypeOK
<1>2. COMMON \in Entries(k)
  BY KeymapLayers, InputAssumption DEF Entries, TypeOK
<1>3. Min(Entries(k)) \in Entries(k) /\ \A n \in Entries(k) : Min(Entries(k)) <= n
  BY <1>1, <1>2, Lowest DEF FN, KEYPAD, COMMON
<1>4. Entry(k) = layers_keymap[Min(Entries(k))][k]
  BY DEF Entry, Entries
<1>. QED BY <1>1, <1>3, <1>4

\* The Fn key is "fn" in every layer, no other key is, and the Keypad key does
\* not act while the Fn layer is on.
LEMMA EntryIs ==
  ASSUME TypeOK, NEW k \in Keys
  PROVE  /\ Entry(k) = "fn" <=> k = "Fn"
         /\ Entry(k) = "layout" => LayerOf[k] \in Layout
         /\ Entry(k) = "toggle" => LayerOf[k] \in {SHIFTED_NUMBER, MAC}
         /\ Entry(k) = "keypad" => FN \notin layers_state
<1>. PICK m \in {FN, KEYPAD, COMMON} :
       /\ m \in Entries(k) /\ Entry(k) = layers_keymap[m][k]
       /\ \A n \in Entries(k) : m <= n
  BY Found
<1>1. CASE m = FN
  <2>1. k \in DOMAIN FnEntry /\ Entry(k) = FnEntry[k]
    BY <1>1, KeymapLayers DEF Entries
  <2>. QED BY <2>1 DEF FnEntry, LayerOf, Layout, SHIFTED_NUMBER, MAC
<1>2. CASE m = KEYPAD
  <2>1. k \in DOMAIN KeypadEntry /\ Entry(k) = KeypadEntry[k]
    BY <1>2, KeymapLayers DEF Entries
  <2>. QED BY <2>1 DEF KeypadEntry
<1>3. CASE m = COMMON
  <2>1. k \in DOMAIN CommonEntry /\ Entry(k) = CommonEntry[k]
    BY <1>3, KeymapLayers DEF Entries
  <2>2. FN \notin Entries(k)
    BY <1>3 DEF FN, COMMON
  <2>3. k = "Keypad" => FN \notin layers_state
    BY <2>2, KeymapLayers DEF Entries, FnEntry
  <2>. QED BY <2>1, <2>3 DEF CommonEntry
<1>. QED BY <1>1, <1>2, <1>3

-----------------------------------------------------------------------------
(* The layouts *)

LEMMA NewLayout ==
  ASSUME NEW s, NEW l \in Layout
  PROVE  /\ LayersWith(s, l) \cap Layout = {l}
         /\ \A m : m \notin Layout => (m \in LayersWith(s, l) <=> m \in s)
BY DEF LayersWith

LEMMA ActiveIs ==
  ASSUME NEW l \in Layout, layers_state \cap Layout = {l}
  PROVE  ActiveLayout = l
<1>1. Min({l}) = l
  BY DEF Min, Layout
<1>. QED BY <1>1 DEF ActiveLayout

LEMMA ActiveInRange ==
  ASSUME TypeOK
  PROVE  ActiveLayout \in Layout \cup {0}
<1>1. CASE layers_state \cap Layout = {}
  BY <1>1 DEF ActiveLayout
<1>2. CASE layers_state \cap Layout # {}
  <2>. DEFINE S == layers_state \cap Layout
              x == IF 2 \in S THEN 2 ELSE IF 3 \in S THEN 3
                   ELSE IF 4 \in S THEN 4 ELSE 5
  <2>0. S # {} /\ \A y \in S : y = 2 \/ y = 3 \/ y = 4 \/ y = 5
    BY <1>2 DEF Layout
  <2>. HIDE DEF S
  <2>1. x \in S
    BY <2>0
  <2>3. \A y \in S : x =< y
    BY <2>0
  <2>. HIDE DEF x
  <2>2. Min(S) \in S
    BY <2>1, <2>3 DEF Min
  <2>. QED BY <1>2, <2>2 DEF ActiveLayout, S
<1>. QED BY <1>1, <1>2

LEMMA AlternativeIs ==
  \A l \in Layout : Alternative(l) \in Layout
BY DEF Alternative, Layout, QwertyLayout

-----------------------------------------------------------------------------
(* Types *)

Layers(s) == s \subseteq Layer /\ COMMON \in s

LEMMA LayersWithType ==
  ASSUME NEW s, Layers(s), NEW l \in Layout
  PROVE  Layers(LayersWith(s, l))
<1>1. Layout \subseteq Layer /\ COMMON \notin Layout
  BY DEF Layout, Layer, COMMON
<1>. QED BY <1>1 DEF Layers, LayersWith

\* Adding or removing one of the layers that are no layout.
LEMMA LayersType ==
  ASSUME NEW s, Layers(s), NEW l \in {FN, KEYPAD, SHIFTED_NUMBER, MAC}
  PROVE  Layers(s \cup {l}) /\ Layers(s \ {l})
<1>1. l \in Layer /\ l # COMMON
  BY DEF Layer, COMMON, FN, KEYPAD, SHIFTED_NUMBER, MAC
<1>. QED BY <1>1 DEF Layers

LEMMA AfterFnType ==
  ASSUME Layers(layers_state)
  PROVE  Layers(LayersAfterFn)
<1>1. LayersAfterFn =
        IF layer_keypad_state THEN ((layers_state \ {FN}) \ {KEYPAD}) \cup {KEYPAD}
                              ELSE (layers_state \ {FN}) \ {KEYPAD}
  BY Zenon DEF LayersAfterFn
<1>2. Layers((layers_state \ {FN}) \ {KEYPAD})
  BY LayersType
<1>. QED BY <1>1, <1>2, LayersType

\* The flags, apart from the layers: SMT keeps Booleans and sets apart.
Flags ==
  /\ layer_keypad_state \in BOOLEAN /\ layout_unchanged \in BOOLEAN
  /\ registered \in ({"qwerty", "dvorak"} \X {"mac", "pc"}) \cup {<<>>}
  /\ swallowed \in BOOLEAN /\ diverged \in BOOLEAN

Shape ==
  /\ Layers(layers_state)
  /\ last_active_layout \in Layout \cup {0} /\ chosen \in Layout

LEMMA TypeParts == TypeOK <=> (down \subseteq Keys /\ Shape /\ Flags)
BY Zenon DEF TypeOK, Shape, Flags, Layers

LEMMA PressShape ==
  ASSUME TypeOK, NEW k \in Keys, Press(k)
  PROVE  Shape'
<1>0. Shape
  BY TypeParts
<1>. USE <1>0 DEF Shape
<1>1. CASE FnPressed
  <2>. DEFINE s == layers_state \cup {FN, KEYPAD}
  <2>1. ActiveLayout \in Layout \cup {0}
    BY ActiveInRange
  <2>2. ActiveLayout # 0 => Alternative(ActiveLayout) \in Layout
    BY <2>1, AlternativeIs
  <2>3. Layers(s)
    <3>1. s = (layers_state \cup {FN}) \cup {KEYPAD}
      BY Zenon
    <3>. QED BY <3>1, LayersType
  <2>4. layers_state' = IF ActiveLayout = 0 THEN s
                        ELSE LayersWith(s, Alternative(ActiveLayout))
    BY <1>1 DEF FnPressed
  <2>. HIDE DEF s
  <2>5. Layers(layers_state)'
    BY <2>2, <2>3, <2>4, LayersWithType DEF Layers
  <2>. QED BY <1>1, <2>1, <2>5 DEF FnPressed, history
<1>2. CASE KeypadPressed
  BY <1>2, LayersType DEF KeypadPressed, Layers
<1>3. CASE Entry(k) = "layout" /\ LayoutPressed(k)
  BY <1>3, EntryIs, LayersWithType DEF LayoutPressed, Layers
<1>4. CASE Entry(k) = "toggle" /\ TogglePressed(k)
  BY <1>4, EntryIs, LayersType DEF TogglePressed, Layers, memory, history
<1>5. CASE CutPressed \/ UNCHANGED <<layers_state, memory, registered, history>>
  BY <1>5 DEF CutPressed, memory, history, Layers
<1>. QED BY <1>1, <1>2, <1>3, <1>4, <1>5 DEF Press

LEMMA PressFlags ==
  ASSUME TypeOK, NEW k \in Keys, Press(k)
  PROVE  Flags'
<1>0. Flags
  BY TypeParts
<1>1. CASE FnPressed
  BY <1>0, <1>1 DEF FnPressed, Flags, history
<1>2. CASE KeypadPressed
  <2>1. layer_keypad_state' \in BOOLEAN
    BY <1>2 DEF KeypadPressed
  <2>. QED BY <1>0, <1>2, <2>1 DEF KeypadPressed, Flags
<1>3. CASE LayoutPressed(k)
  BY <1>0, <1>3 DEF LayoutPressed, Flags
<1>4. CASE TogglePressed(k)
  BY <1>0, <1>4 DEF TogglePressed, Flags, memory, history
<1>5. CASE CutPressed
  <2>1. registered' \in ({"qwerty", "dvorak"} \X {"mac", "pc"}) \cup {<<>>}
    BY <1>0, <1>5 DEF CutPressed, Flags, Family, Host
  <2>. QED BY <1>0, <1>5, <2>1 DEF CutPressed, Flags, memory, history
<1>6. CASE UNCHANGED <<layers_state, memory, registered, history>>
  BY <1>0, <1>6 DEF Flags, memory, history
<1>. QED BY <1>1, <1>2, <1>3, <1>4, <1>5, <1>6 DEF Press

\* Every variable keeps to its range, and COMMON is never disabled: no key and
\* no request reaches the layer that holds the entry of Fn.
THEOREM TypeCorrect == Spec => []TypeOK
<1>1. Init => TypeOK
  <2>. SUFFICES ASSUME Init PROVE TypeOK
    OBVIOUS
  <2>1. Shape
    BY DEF Init, Shape, Layers, DefaultLayers, Layer, Layout, DVORAK_DVORAK, COMMON
  <2>2. Flags
    BY DEF Init, Flags
  <2>. QED BY <2>1, <2>2, TypeParts DEF Init
<1>2. TypeOK /\ [Next]_vars => TypeOK'
  <2>. SUFFICES ASSUME TypeOK, [Next]_vars
                PROVE  (down \subseteq Keys /\ Shape /\ Flags)'
    BY Zenon DEF TypeOK, Shape, Flags, Layers
  <2>0. down \subseteq Keys /\ Shape /\ Flags
    BY TypeParts
  <2>1. ASSUME NEW k \in Keys, Press(k) PROVE (down \subseteq Keys /\ Shape /\ Flags)'
    BY <2>0, <2>1, PressShape, PressFlags DEF Press
  <2>2. ASSUME NEW k \in Keys, Release(k) PROVE (down \subseteq Keys /\ Shape /\ Flags)'
    <3>1. CASE FnReleased
      <4>1. Layers(layers_state)'
        BY <2>0, <3>1, AfterFnType, LayersWithType DEF FnReleased, Restores, Shape, Layers
      <4>2. layout_unchanged' \in BOOLEAN
        BY <3>1 DEF FnReleased
      <4>3. Flags'
        BY <2>0, <3>1, <4>2 DEF FnReleased, Flags
      <4>. QED BY <2>0, <2>2, <3>1, <4>1, <4>3 DEF Release, FnReleased, Shape
    <3>2. CASE UNCHANGED <<layers_state, memory, registered, history>>
      BY <2>0, <2>2, <3>2 DEF Release, Shape, Flags, Layers, memory, history
    <3>. QED BY <2>2, <3>1, <3>2 DEF Release
  <2>3. ASSUME NEW k \in Keys, WakeScan(k) PROVE (down \subseteq Keys /\ Shape /\ Flags)'
    <3>1. swallowed' \in BOOLEAN
      BY <2>3 DEF WakeScan
    <3>. QED BY <2>0, <2>3, <3>1 DEF WakeScan, Shape, Flags, Layers, memory
  <2>4. CASE Reset
    <3>1. Shape'
      BY <2>0, <2>4 DEF Reset, Shape, Layers, memory, DefaultLayers, DVORAK_DVORAK,
                        Layer, Layout, COMMON
    <3>2. Flags'
      BY <2>0, <2>4 DEF Reset, Flags, memory
    <3>3. down' = {}
      BY <2>4 DEF Reset
    <3>. QED BY <3>1, <3>2, <3>3
  <2>5. ASSUME NEW mac \in BOOLEAN, SetIdle(mac)
        PROVE  (down \subseteq Keys /\ Shape /\ Flags)'
    <3>1. Layers(layers_state)'
      BY <2>0, <2>5, LayersType DEF SetIdle, Shape, Layers
    <3>. QED BY <2>0, <2>5, <3>1 DEF SetIdle, Shape, Flags, memory, history
  <2>6. CASE UNCHANGED vars
    BY <2>0, <2>6 DEF Shape, Flags, Layers, vars, memory, history
  <2>. QED BY <2>1, <2>2, <2>3, <2>4, <2>5, <2>6 DEF Next
<1>. QED BY <1>1, <1>2, PTL DEF Spec

-----------------------------------------------------------------------------
(* One layout *)

LEMMA NotLayout ==
  \A l \in {FN, KEYPAD, SHIFTED_NUMBER, MAC, COMMON} : l \notin Layout
BY DEF FN, KEYPAD, SHIFTED_NUMBER, MAC, COMMON, Layout

LEMMA DefaultLayout == DVORAK_DVORAK \in Layout /\ DefaultLayers \cap Layout = {DVORAK_DVORAK}
BY DEF DefaultLayers, DVORAK_DVORAK, COMMON, Layout

LEMMA AfterFnLayout == LayersAfterFn \cap Layout = layers_state \cap Layout
BY NotLayout DEF LayersAfterFn

\* No sequence of keys, resets and requests leaves two layouts enabled, or none.
THEOREM LayoutIsUnique == Spec => []OneLayout
<1>1. Init => OneLayout
  BY DefaultLayout DEF Init, OneLayout
<1>2. TypeOK /\ OneLayout /\ [Next]_vars => OneLayout'
  <2>. SUFFICES ASSUME TypeOK, OneLayout, [Next]_vars PROVE OneLayout'
    OBVIOUS
  <2>0. PICK l \in Layout : layers_state \cap Layout = {l}
    BY DEF OneLayout
  <2>1. ASSUME NEW k \in Keys, Press(k) PROVE OneLayout'
    <3>1. CASE FnPressed
      <4>1. ActiveLayout = l /\ l # 0
        BY <2>0, ActiveIs DEF Layout
      <4>2. Alternative(l) \in Layout
        BY AlternativeIs
      <4>3. layers_state' = LayersWith(layers_state \cup {FN, KEYPAD}, Alternative(l))
        BY <3>1, <4>1 DEF FnPressed
      <4>. QED BY <4>2, <4>3, NewLayout DEF OneLayout
    <3>2. CASE KeypadPressed
      BY <2>0, <3>2, NotLayout DEF KeypadPressed, OneLayout
    <3>3. CASE Entry(k) = "layout" /\ LayoutPressed(k)
      BY <3>3, EntryIs, NewLayout DEF LayoutPressed, OneLayout
    <3>4. CASE Entry(k) = "toggle" /\ TogglePressed(k)
      BY <2>0, <3>4, EntryIs, NotLayout DEF TogglePressed, OneLayout
    <3>5. CASE CutPressed \/ UNCHANGED <<layers_state, memory, registered, history>>
      BY <2>0, <3>5 DEF CutPressed, OneLayout
    <3>. QED BY <2>1, <3>1, <3>2, <3>3, <3>4, <3>5 DEF Press
  <2>2. ASSUME NEW k \in Keys, Release(k) PROVE OneLayout'
    <3>1. CASE FnReleased
      <4>1. CASE Restores
        BY <3>1, <4>1, NewLayout DEF FnReleased, Restores, OneLayout, TypeOK
      <4>2. CASE ~Restores
        BY <2>0, <3>1, <4>2, AfterFnLayout DEF FnReleased, OneLayout
      <4>. QED BY <4>1, <4>2
    <3>. QED BY <2>0, <2>2, <3>1 DEF Release, OneLayout
  <2>3. ASSUME NEW k \in Keys, WakeScan(k) PROVE OneLayout'
    BY <2>0, <2>3 DEF WakeScan, OneLayout
  <2>4. CASE Reset
    BY <2>4, DefaultLayout DEF Reset, OneLayout
  <2>5. ASSUME NEW mac \in BOOLEAN, SetIdle(mac) PROVE OneLayout'
    BY <2>0, <2>5, NotLayout DEF SetIdle, OneLayout
  <2>6. CASE UNCHANGED vars
    BY <2>0, <2>6 DEF OneLayout, vars
  <2>. QED BY <2>1, <2>2, <2>3, <2>4, <2>5, <2>6 DEF Next
<1>. QED BY <1>1, <1>2, TypeCorrect, PTL DEF Spec

-----------------------------------------------------------------------------
(* Fn and the layout *)

LEMMA FnIsPressed ==
  ASSUME TypeOK, LayoutInv, NEW k \in Keys, Press(k)
  PROVE  LayoutInv'
<1>. SUFFICES ASSUME ~swallowed PROVE LayoutInv'
  <2>1. swallowed' = swallowed
    BY DEF Press, FnPressed, KeypadPressed, LayoutPressed, TogglePressed,
           CutPressed, history
  <2>. QED BY <2>1 DEF LayoutInv, FnWhileHeld, ChosenLayout, Remembered
<1>. DEFINE now == IF FN \in layers_state /\ layout_unchanged
                   THEN Alternative(chosen) ELSE chosen
<1>0. /\ FN \in layers_state <=> "Fn" \in down
      /\ layers_state \cap Layout = {now}
      /\ chosen \in Layout
  BY DEF LayoutInv, FnWhileHeld, ChosenLayout, TypeOK
<1>1. CASE k = "Fn"
  <2>1. FnPressed /\ k \notin down /\ down' = down \cup {"Fn"}
    BY <1>1, EntryIs DEF Press
  <2>2. layers_state \cap Layout = {chosen}
    BY <1>0, <1>1, <2>1
  <2>3. ActiveLayout = chosen /\ chosen # 0
    BY <1>0, <2>2, ActiveIs DEF Layout
  <2>4. layers_state' = LayersWith(layers_state \cup {FN, KEYPAD}, Alternative(chosen))
    BY <2>1, <2>3 DEF FnPressed
  <2>5. FN \in layers_state' /\ layers_state' \cap Layout = {Alternative(chosen)}
    BY <1>0, <2>4, NewLayout, NotLayout, AlternativeIs
  <2>6. layout_unchanged' = TRUE /\ last_active_layout' = chosen /\ chosen' = chosen
    BY <2>1, <2>3 DEF FnPressed, history
  <2>. QED BY <2>1, <2>5, <2>6 DEF LayoutInv, FnWhileHeld, ChosenLayout, Remembered
<1>2. CASE k # "Fn"
  <2>1. "Fn" \in down' <=> "Fn" \in down
    BY <1>2 DEF Press
  <2>2. CASE Entry(k) = "layout" /\ LayoutPressed(k)
    <3>1. chosen' \in Layout /\ layers_state' = LayersWith(layers_state, chosen')
      BY <2>2, EntryIs DEF LayoutPressed
    <3>2. layers_state' \cap Layout = {chosen'} /\ (FN \in layers_state' <=> FN \in layers_state)
      BY <3>1, NewLayout, NotLayout
    <3>3. layout_unchanged' = FALSE
      BY <2>2 DEF LayoutPressed
    <3>. QED BY <1>0, <2>1, <3>2, <3>3
            DEF LayoutInv, FnWhileHeld, ChosenLayout, Remembered
  <2>3. CASE \/ KeypadPressed
             \/ Entry(k) = "toggle" /\ TogglePressed(k)
             \/ CutPressed
             \/ UNCHANGED <<layers_state, memory, registered, history>>
    <3>1. layers_state' \cap Layout = layers_state \cap Layout
      BY <2>3, EntryIs, NotLayout DEF KeypadPressed, TogglePressed, CutPressed
    <3>2. FN \in layers_state' <=> FN \in layers_state
      BY <2>3, EntryIs DEF KeypadPressed, TogglePressed, CutPressed,
                           FN, KEYPAD, SHIFTED_NUMBER, MAC
    <3>3. /\ chosen' = chosen /\ layout_unchanged' = layout_unchanged
          /\ last_active_layout' = last_active_layout /\ swallowed' = swallowed
      BY <2>3 DEF KeypadPressed, TogglePressed, CutPressed, memory, history
    <3>. QED BY Zenon, <2>1, <3>1, <3>2, <3>3
            DEF LayoutInv, FnWhileHeld, ChosenLayout, Remembered
  <2>. QED BY <1>2, <2>2, <2>3, EntryIs DEF Press
<1>. QED BY <1>1, <1>2

LEMMA FnIsReleased ==
  ASSUME TypeOK, LayoutInv, NEW k \in Keys, Release(k)
  PROVE  LayoutInv'
<1>. SUFFICES ASSUME ~swallowed PROVE LayoutInv'
  <2>1. swallowed' = swallowed
    BY DEF Release, FnReleased, history
  <2>. QED BY <2>1 DEF LayoutInv, FnWhileHeld, ChosenLayout, Remembered
<1>1. CASE k = "Fn"
  <2>1. FnReleased /\ k \in down /\ down' = down \ {"Fn"}
    BY <1>1, EntryIs DEF Release
  <2>2. FN \in layers_state
    BY <1>1, <2>1 DEF LayoutInv, FnWhileHeld
  <2>3. chosen \in Layout /\ chosen # 0 /\ chosen' = chosen
    BY <2>1 DEF TypeOK, Layout, FnReleased
  <2>4. FN \notin LayersAfterFn
    BY DEF LayersAfterFn, FN, KEYPAD
  <2>5. CASE layout_unchanged
    <3>1. last_active_layout = chosen
      BY <2>2, <2>5 DEF LayoutInv, Remembered
    <3>2. layers_state' = LayersWith(LayersAfterFn, chosen)
      BY <2>1, <2>3, <2>5, <3>1 DEF FnReleased, Restores
    <3>3. layers_state' \cap Layout = {chosen} /\ FN \notin layers_state'
      BY <2>3, <2>4, <3>2, NewLayout, NotLayout
    <3>. QED BY <2>1, <2>3, <3>3 DEF LayoutInv, FnWhileHeld, ChosenLayout, Remembered
  <2>6. CASE ~layout_unchanged
    <3>1. layers_state' = LayersAfterFn
      BY <2>1, <2>6 DEF FnReleased, Restores
    <3>2. layers_state' \cap Layout = {chosen} /\ FN \notin layers_state'
      BY <2>4, <2>6, <3>1, AfterFnLayout DEF LayoutInv, ChosenLayout
    <3>. QED BY <2>1, <2>3, <3>2 DEF LayoutInv, FnWhileHeld, ChosenLayout, Remembered
  <2>. QED BY <2>5, <2>6
<1>2. CASE k # "Fn"
  <2>1. /\ UNCHANGED <<layers_state, memory, registered, history>>
        /\ "Fn" \in down' <=> "Fn" \in down
    BY <1>2, EntryIs DEF Release
  <2>. QED BY Zenon, <2>1
          DEF memory, history, LayoutInv, FnWhileHeld, ChosenLayout, Remembered
<1>. QED BY <1>1, <1>2

LEMMA InitLayout == Init => LayoutInv
BY DefaultLayout
DEF Init, LayoutInv, FnWhileHeld, ChosenLayout, Remembered, DefaultLayers,
    FN, DVORAK_DVORAK, COMMON

LEMMA NextLayout ==
  ASSUME TypeOK, LayoutInv, [Next]_vars
  PROVE  LayoutInv'
<1>1. ASSUME NEW k \in Keys, Press(k) PROVE LayoutInv'
  BY <1>1, FnIsPressed
<1>2. ASSUME NEW k \in Keys, Release(k) PROVE LayoutInv'
  BY <1>2, FnIsReleased
<1>3. ASSUME NEW k \in Keys, WakeScan(k) PROVE LayoutInv'
  <2>1. CASE k = "Fn"
    BY <1>3, <2>1 DEF WakeScan, LayoutInv, FnWhileHeld, ChosenLayout, Remembered
  <2>2. CASE k # "Fn"
    <3>1. /\ UNCHANGED <<layers_state, memory, chosen>>
          /\ "Fn" \in down' <=> "Fn" \in down
          /\ ~swallowed' => ~swallowed
      BY <1>3, <2>2 DEF WakeScan
    <3>. QED BY Zenon, <3>1
            DEF memory, LayoutInv, FnWhileHeld, ChosenLayout, Remembered
  <2>. QED BY <2>1, <2>2
<1>4. CASE Reset
  <2>1. FN \notin DefaultLayers
    BY DEF DefaultLayers, FN, DVORAK_DVORAK, COMMON
  <2>. QED BY <1>4, <2>1, DefaultLayout
          DEF Reset, LayoutInv, FnWhileHeld, ChosenLayout, Remembered
<1>5. ASSUME NEW mac \in BOOLEAN, SetIdle(mac) PROVE LayoutInv'
  <2>1. layers_state' \cap Layout = layers_state \cap Layout
    BY <1>5, NotLayout DEF SetIdle
  <2>2. FN \in layers_state' <=> FN \in layers_state
    BY <1>5 DEF SetIdle, FN, MAC
  <2>3. UNCHANGED <<down, memory, history>>
    BY <1>5 DEF SetIdle
  <2>. QED BY Zenon, <2>1, <2>2, <2>3
          DEF memory, history, LayoutInv, FnWhileHeld, ChosenLayout, Remembered
<1>6. CASE UNCHANGED vars
  BY Zenon, <1>6 DEF vars, memory, history, LayoutInv, FnWhileHeld, ChosenLayout,
                     Remembered
<1>. QED BY <1>1, <1>2, <1>3, <1>4, <1>5, <1>6 DEF Next

\* The Fn layer follows the Fn key, whatever keys, resets and requests come.
THEOREM FnFollowsKey == Spec => []FnWhileHeld
<1>1. LayoutInv => FnWhileHeld
  BY DEF LayoutInv
<1>. QED BY <1>1, InitLayout, NextLayout, TypeCorrect, PTL DEF Spec

\* One layout is on: the one the user chose last, or Fn's stand-in for it
\* (LayoutAsChosen).
THEOREM LayoutKept == Spec => []LayoutAsChosen
<1>1. LayoutInv /\ OneLayout => LayoutAsChosen
  BY DEF LayoutInv, LayoutAsChosen
<1>. QED
  BY <1>1, InitLayout, NextLayout, TypeCorrect, LayoutIsUnique, PTL DEF Spec

-----------------------------------------------------------------------------
(* The keypad layer and its latch *)

LEMMA InitKeypad == Init => KeypadAsLatched
BY DEF Init, KeypadAsLatched, DefaultLayers, FN, KEYPAD, DVORAK_DVORAK, COMMON

LEMMA KeypadIsPressed ==
  ASSUME TypeOK, KeypadAsLatched, NEW k \in Keys, Press(k)
  PROVE  KeypadAsLatched'
<1>1. CASE FnPressed
  <2>1. KEYPAD \in layers_state' /\ FN \in layers_state'
    BY <1>1, ActiveInRange, AlternativeIs, NewLayout, NotLayout DEF FnPressed
  <2>. QED BY <2>1 DEF KeypadAsLatched
<1>2. CASE Entry(k) = "keypad" /\ KeypadPressed
  <2>1. FN \notin layers_state /\ FN # KEYPAD
    BY <1>2, EntryIs DEF FN, KEYPAD
  <2>2. FN \notin layers_state'
    BY <1>2, <2>1 DEF KeypadPressed
  <2>3. layer_keypad_state' = ~layer_keypad_state
    BY <1>2 DEF KeypadPressed
  <2>4. KEYPAD \in layers_state' <=> ~layer_keypad_state
    BY <1>2 DEF KeypadPressed
  <2>. QED BY Zenon, <2>2, <2>3, <2>4 DEF KeypadAsLatched
<1>3. CASE Entry(k) = "layout" /\ LayoutPressed(k)
  <2>1. /\ KEYPAD \in layers_state' <=> KEYPAD \in layers_state
        /\ FN \in layers_state' <=> FN \in layers_state
    BY <1>3, EntryIs, NewLayout, NotLayout DEF LayoutPressed
  <2>2. UNCHANGED <<layer_keypad_state, diverged>>
    BY <1>3 DEF LayoutPressed
  <2>. QED BY Zenon, <2>1, <2>2 DEF KeypadAsLatched
<1>4. CASE Entry(k) = "toggle" /\ TogglePressed(k)
  <2>1. /\ KEYPAD \in layers_state' <=> KEYPAD \in layers_state
        /\ FN \in layers_state' <=> FN \in layers_state
    BY <1>4, EntryIs DEF TogglePressed, FN, KEYPAD, SHIFTED_NUMBER, MAC
  <2>2. UNCHANGED <<layer_keypad_state, diverged>>
    BY <1>4 DEF TogglePressed, memory, history
  <2>. QED BY Zenon, <2>1, <2>2 DEF KeypadAsLatched
<1>5. CASE CutPressed \/ UNCHANGED <<layers_state, memory, registered, history>>
  <2>1. UNCHANGED <<layers_state, layer_keypad_state, diverged>>
    BY <1>5 DEF CutPressed, memory, history
  <2>. QED BY Zenon, <2>1 DEF KeypadAsLatched
<1>. QED BY <1>1, <1>2, <1>3, <1>4, <1>5 DEF Press

LEMMA KeypadIsReleased ==
  ASSUME TypeOK, KeypadAsLatched, NEW k \in Keys, Release(k)
  PROVE  KeypadAsLatched'
<1>1. CASE FnReleased
  <2>1. /\ FN \notin LayersAfterFn
        /\ KEYPAD \in LayersAfterFn <=> layer_keypad_state
    BY DEF LayersAfterFn, FN, KEYPAD
  <2>2. Restores => last_active_layout \in Layout
    BY DEF Restores, TypeOK
  <2>3. /\ FN \notin layers_state'
        /\ KEYPAD \in layers_state' <=> KEYPAD \in LayersAfterFn
    BY <1>1, <2>1, <2>2, NewLayout, NotLayout DEF FnReleased
  <2>4. UNCHANGED layer_keypad_state
    BY <1>1 DEF FnReleased
  <2>. QED BY Zenon, <2>1, <2>3, <2>4 DEF KeypadAsLatched
<1>2. CASE UNCHANGED <<layers_state, memory, registered, history>>
  <2>1. UNCHANGED <<layers_state, layer_keypad_state, diverged>>
    BY <1>2 DEF memory, history
  <2>. QED BY Zenon, <2>1 DEF KeypadAsLatched
<1>. QED BY <1>1, <1>2 DEF Release

LEMMA NextKeypad ==
  ASSUME TypeOK, KeypadAsLatched, [Next]_vars
  PROVE  KeypadAsLatched'
<1>1. ASSUME NEW k \in Keys, WakeScan(k) \/ UNCHANGED vars PROVE KeypadAsLatched'
  <2>1. UNCHANGED <<layers_state, layer_keypad_state, diverged>>
    BY <1>1 DEF WakeScan, vars, memory, history
  <2>. QED BY Zenon, <2>1 DEF KeypadAsLatched
<1>2. CASE Reset
  <2>1. FN \notin layers_state' /\ KEYPAD \notin layers_state'
    BY <1>2 DEF Reset, DefaultLayers, FN, KEYPAD, DVORAK_DVORAK, COMMON
  <2>2. diverged' = layer_keypad_state /\ layer_keypad_state' = layer_keypad_state
    BY <1>2 DEF Reset, memory
  <2>. QED BY Zenon, <2>1, <2>2 DEF KeypadAsLatched
<1>3. ASSUME NEW mac \in BOOLEAN, SetIdle(mac) PROVE KeypadAsLatched'
  <2>1. /\ KEYPAD \in layers_state' <=> KEYPAD \in layers_state
        /\ FN \in layers_state' <=> FN \in layers_state
    BY <1>3 DEF SetIdle, FN, KEYPAD, MAC
  <2>2. UNCHANGED <<layer_keypad_state, diverged>>
    BY <1>3 DEF SetIdle, memory, history
  <2>. QED BY Zenon, <2>1, <2>2 DEF KeypadAsLatched
<1>4. CASE UNCHANGED vars
  <2>1. UNCHANGED <<layers_state, layer_keypad_state, diverged>>
    BY <1>4 DEF vars, memory, history
  <2>. QED BY Zenon, <2>1 DEF KeypadAsLatched
<1>. QED BY <1>1, <1>2, <1>3, <1>4, KeypadIsPressed, KeypadIsReleased DEF Next

\* The keypad layer is with Fn, or as its own key latched it (KeypadAsLatched).
THEOREM KeypadKept == Spec => []KeypadAsLatched
<1>. QED BY InitKeypad, NextKeypad, TypeCorrect, PTL DEF Spec

-----------------------------------------------------------------------------
(* Cut *)

LEMMA SameFamily == \A l \in Layout : Family(Alternative(l)) = Family(l)
BY DEF Family, Alternative, Layout, QwertyLayout

\* The cut sequence is that of the layout the user chose, Fn or no Fn, and of the
\* kind of host (CutFitsHost).
THEOREM CutFits == Spec => CutFitsHost
<1>1. TypeOK /\ LayoutInv /\ [Next]_vars
        => [registered' # registered /\ ~swallowed
              => registered' = <<Family(chosen), Host>>]_vars
  <2>. SUFFICES ASSUME TypeOK, LayoutInv, Next, registered' # registered, ~swallowed
                PROVE  registered' = <<Family(chosen), Host>>
    OBVIOUS
  <2>1. CutPressed
    BY DEF Next, Press, Release, FnPressed, FnReleased, KeypadPressed, LayoutPressed,
           TogglePressed, WakeScan, Reset, SetIdle
  <2>. DEFINE l == IF FN \in layers_state /\ layout_unchanged THEN Alternative(chosen)
                                                              ELSE chosen
  <2>2. chosen \in Layout /\ l \in Layout
    BY AlternativeIs DEF TypeOK
  <2>3. layers_state \cap Layout = {l}
    BY DEF LayoutInv, ChosenLayout
  <2>4. ActiveLayout = l /\ l # 0
    BY <2>2, <2>3, ActiveIs DEF Layout
  <2>5. Family(l) = Family(chosen)
    BY <2>2, SameFamily
  <2>. QED BY <2>1, <2>4, <2>5 DEF CutPressed
<1>. QED BY <1>1, InitLayout, NextLayout, TypeCorrect, PTL DEF Spec, CutFitsHost
=============================================================================
