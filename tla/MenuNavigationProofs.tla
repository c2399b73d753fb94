------------------------ MODULE MenuNavigationProofs ------------------------
(***************************************************************************)
(* What the menus show and act on agrees with the devices in memory, for   *)
(* any devices, capacity of the memory and length of a session at the      *)
(* buttons.                                                                *)
(***************************************************************************)
EXTENDS MenuNavigation, SequenceTheorems, TLAPS

(* The views form a tree, and the stack is the path from its root.         *)
Parent(view) ==
  CASE view \in {"main", "visualizer"}      -> "home"
    [] view \in {"devices", "pair", "info"} -> "main"
    [] OTHER                                -> "devices"

HomePath    == <<"home">>
MainPath    == Append(HomePath, "main")
DevicesPath == Append(MainPath, "devices")
Path(view) ==
  CASE view = "home"                      -> HomePath
    [] view \in {"main", "visualizer"}      -> Append(HomePath, view)
    [] view \in {"devices", "pair", "info"} -> Append(MainPath, view)
    [] OTHER                                -> Append(DevicesPath, view)

Placed == Top \in Views /\ stack = Path(Top)

(* A menu is drawn again when it comes back to the top.                    *)
RedrawnOnReturn == \A m \in Menus : m # Top => hasChanged[m]

(* What the session found is offered while its menu is on top, each device *)
(* once, and none of those in memory.                                      *)
OffersNewDevices ==
  /\ Top # "pair" => found = <<>>
  /\ Top = "pair" => /\ IsInjective(found)
                     /\ ToSet(found) \cap ToSet(devices) = {}

(* The index the menu of a device captured is one of memory.               *)
EntryInMemory == Top = "entry" => entry.index \in DOMAIN devices

(* The inductive invariant. *)
Consistent ==
  /\ TypeOK /\ Placed /\ RedrawnOnReturn /\ OffersNewDevices /\ EntryInMemory
  /\ StorageSound /\ ListsAgreeWithStorage /\ MenuIsShown

-----------------------------------------------------------------------------
(* Going up and down the tree.                                             *)

LEMMA PathUp ==
  ASSUME NEW v \in Views, v # "home"
  PROVE  /\ Parent(v) \in Views /\ Parent(v) # v
         /\ Path(v) = Append(Path(Parent(v)), v)
  BY DEF Path, Parent, Views, Menus, MainPath, DevicesPath

LEMMA AppendEnds ==
  ASSUME NEW p \in Seq(Views), p # <<>>, NEW v \in Views
  PROVE  /\ Append(p, v) \in Seq(Views) /\ Append(p, v) # <<>>
         /\ Head(Append(p, v)) = Head(p)
         /\ Last(Append(p, v)) = v
         /\ Front(Append(p, v)) = p
<1> DEFINE a == Append(p, v)
           q == SubSeq(a, 1, Len(p))
<1>1. /\ a \in Seq(Views) /\ Len(a) = Len(p) + 1 /\ a # <<>>
      /\ \A i \in 1 .. Len(p) : a[i] = p[i]
      /\ a[Len(p) + 1] = v
  BY AppendProperties
<1>2. Len(p) \in Nat \ {0}
  BY EmptySeq
<1>3. Head(a) = Head(p)
  BY HeadTailAppend
<1>4. /\ q \in Seq(Views) /\ Len(q) = Len(p)
      /\ \A i \in 1 .. Len(p) : q[i] = p[i]
  <2>1. \A i \in 1 .. Len(p) : a[i] \in Views
    BY <1>1, ElementOfSeq
  <2>2. /\ q \in Seq(Views)
        /\ Len(q) = IF 1 <= Len(p) THEN Len(p) - 1 + 1 ELSE 0
        /\ \A i \in 1 .. Len(p) - 1 + 1 : q[i] = a[1 + i - 1]
    BY <1>2, <2>1, SubSeqProperties
  <2> HIDE DEF q, a
  <2> QED  BY <1>1, <1>2, <2>2
<1>5. q = p
  <2> HIDE DEF q
  <2> QED  BY <1>4, SeqEqual
<1> QED  BY <1>1, <1>2, <1>3, <1>5 DEF Last, Front

LEMMA PathEnds ==
  ASSUME NEW v \in Views
  PROVE  /\ Path(v) \in Seq(Views) /\ Path(v) # <<>>
         /\ Head(Path(v)) = "home" /\ Last(Path(v)) = v
<1>1. HomePath \in Seq(Views) /\ HomePath # <<>> /\ Head(HomePath) = "home"
      /\ Last(HomePath) = "home"
  BY DEF HomePath, Views, Last
<1>2. MainPath \in Seq(Views) /\ MainPath # <<>> /\ Head(MainPath) = "home"
  BY <1>1, AppendEnds DEF MainPath, Views, Menus
<1>3. DevicesPath \in Seq(Views) /\ DevicesPath # <<>>
      /\ Head(DevicesPath) = "home"
  BY <1>2, AppendEnds DEF DevicesPath, Views, Menus
<1> QED  BY <1>1, <1>2, <1>3, AppendEnds DEF Path, Views, Menus

(* A step stays at a view, enters one below it or leaves it for the one    *)
(* above.                                                                  *)
Enters == /\ Top' \in Views \ {"home"} /\ Parent(Top') = Top
          /\ stack' = Path(Top') /\ NavigateTo(Top')
Leaves == /\ Top \in Views \ {"home"} /\ Parent(Top) = Top'
          /\ stack' = Path(Top') /\ Back

LEMMA EntersBelow ==
  ASSUME Placed, NEW v \in Views \ {"home"}, Parent(v) = Top, NavigateTo(v)
  PROVE  Enters /\ Top' = v
<1>1. stack' = Path(v)
  BY PathUp DEF Placed, NavigateTo
<1>2. Top' = v
  BY <1>1, PathEnds DEF Top
<1> QED  BY <1>1, <1>2 DEF Enters

LEMMA LeavesForAbove ==
  ASSUME Placed, Top # "home", Back
  PROVE  Leaves
<1>1. stack' = Path(Parent(Top)) /\ Parent(Top) \in Views
  <2>1. stack = Append(Path(Parent(Top)), Top) /\ Parent(Top) \in Views
    BY PathUp DEF Placed
  <2> QED  BY <2>1, PathEnds, AppendEnds DEF Placed, Back
<1>2. Top' = Parent(Top)
  BY <1>1, PathEnds DEF Top
<1> QED  BY <1>1, <1>2 DEF Leaves, Placed

(* The kinds of steps: those that go down without touching memory, those   *)
(* that come back without touching it, those that come back having changed *)
(* it, the keys that stay at their view, and those that do nothing here.   *)
Goes    == /\ Enters /\ UNCHANGED storageVars
           /\ Top' = "entry" => \E d \in Devices : SelectedIs("devices", d)
Returns == Leaves /\ UNCHANGED storageVars
Changes == Leaves /\ (SetAsActive \/ Forget \/ Pair)
Keys    == KeyUp \/ KeyDown \/ SelectInfo \/ DrawLogo
Idle    == UNCHANGED <<uiVars, storageVars>>

LEMMA KindsOfSteps ==
  Placed /\ [Next]_vars =>
    Goes \/ Returns \/ Changes \/ Keys \/ NewDevice \/ Redraw \/ Idle
<1> SUFFICES ASSUME Placed, [Next]_vars
             PROVE  Goes \/ Returns \/ Changes \/ Keys \/ NewDevice \/ Redraw \/ Idle
  OBVIOUS
<1>1. CASE HomeToMenu
  BY <1>1, EntersBelow DEF HomeToMenu, Goes, Views, Menus, Parent
<1>2. CASE HomeToVisualizer
  BY <1>2, EntersBelow DEF HomeToVisualizer, Goes, Views, Menus, Parent
<1>3. CASE SelectMenu
  BY <1>3, EntersBelow DEF SelectMenu, SelectedIs, Goes, Views, Menus, Parent
<1>4. CASE SelectDevice
  BY <1>4, EntersBelow DEF SelectDevice, SelectedIs, Goes, Views, Menus, Parent
<1>5. CASE LeaveVisualizer \/ SelectBack \/ Disconnect
  BY <1>5, LeavesForAbove DEF LeaveVisualizer, SelectBack, Disconnect, Activate,
                              SelectedIs, Returns, Menus
<1>6. CASE SetAsActive \/ Forget \/ Pair
  BY <1>6, LeavesForAbove DEF SetAsActive, Forget, Pair, Activate, SelectedIs,
                              Changes
<1>7. CASE KeyUp \/ KeyDown \/ SelectInfo \/ DrawLogo \/ NewDevice \/ Redraw
  BY <1>7 DEF Keys
<1>8. CASE SelectPastTheEnd \/ TurnOff \/ UNCHANGED vars
  BY <1>8 DEF SelectPastTheEnd, TurnOff, vars, Idle
<1> QED
  BY <1>1, <1>2, <1>3, <1>4, <1>5, <1>6, <1>7, <1>8 DEF Next

LEMMA PlacedInductive == Placed /\ [Next]_vars => Placed'
<1>1. (Enters \/ Leaves) /\ Placed => Placed'
  BY PathUp DEF Placed, Enters, Leaves
<1>2. stack' = stack /\ Placed => Placed'
  BY DEF Placed, Top
<1>3. Keys \/ NewDevice \/ Redraw \/ Idle => stack' = stack
  BY DEF Keys, KeyUp, KeyDown, SelectInfo, DrawLogo, Activate, Stay, NewDevice,
         Redraw, Idle, uiVars
<1> QED  BY <1>1, <1>2, <1>3, KindsOfSteps DEF Goes, Returns, Changes

-----------------------------------------------------------------------------
(* What KEY_SELECT acts on.                                                *)

(* Behind "Back" stand the devices of a list, from the first to the last.  *)
LEMMA BehindBack ==
  ASSUME NEW s \in Seq(Devices)
  PROVE  /\ Len(<<"Back">> \o s) = Len(s) + 1
         /\ \A i \in 1 .. Len(<<"Back">> \o s) - 1 :
              i \in DOMAIN s /\ (<<"Back">> \o s)[i + 1] = s[i]
<1> DEFINE S == Devices \cup {"Back"}
           b == <<"Back">>
<1>1. b \in Seq(S) /\ s \in Seq(S) /\ Len(b) = 1
  BY SeqMonotonic
<1>2. /\ Len(b \o s) = Len(b) + Len(s)
      /\ \A i \in 1 .. Len(b) + Len(s) :
           (b \o s)[i] = IF i <= Len(b) THEN b[i] ELSE s[i - Len(b)]
  BY <1>1, ConcatProperties
<1>3. Len(s) \in Nat /\ DOMAIN s = 1 .. Len(s)
  BY LenProperties
<1> HIDE DEF b
<1> QED  BY <1>1, <1>2, <1>3 DEF b

LEMMA SelectedInDevices ==
  ASSUME TypeOK, NEW d, SelectedIs("devices", d)
  PROVE  /\ selectedItem["devices"] \in DOMAIN listed
         /\ listed[selectedItem["devices"]] = d
<1>1. Items("devices") = <<"Back">> \o listed /\ listed \in Seq(Devices)
  BY DEF Items, TypeOK
<1> QED  BY <1>1, BehindBack DEF SelectedIs, Selected

LEMMA SelectedInPair ==
  ASSUME TypeOK, NEW d, SelectedIs("pair", d)
  PROVE  d \in ToSet(found)
<1>1. Items("pair") = <<"Back">> \o found /\ found \in Seq(Devices)
  BY DEF Items, TypeOK
<1>2. /\ selectedItem["pair"] \in DOMAIN found
      /\ found[selectedItem["pair"]] = d
  BY <1>1, BehindBack DEF SelectedIs, Selected
<1> QED  BY <1>2 DEF ToSet

(* "Forget" is the third item and there only where it is allowed.          *)
LEMMA ForgetIsOffered ==
  SelectedIs("entry", "Forget") => entry.forget
<1> SUFFICES ASSUME SelectedIs("entry", "Forget"), ~ entry.forget
             PROVE  FALSE
  OBVIOUS
<1> DEFINE two == <<"Back", "Set as active">>
           chosen == selectedItem["entry"]
<1>1. Items("entry") = two
  <2>1. Items("entry") = two \o <<>>
    BY DEF Items
  <2>2. two \in Seq({"Back", "Set as active"})
    OBVIOUS
  <2> HIDE DEF two
  <2> QED  BY <2>1, <2>2, ConcatEmptySeq
<1>2. chosen \in 1 .. Len(two) - 1
  BY <1>1 DEF SelectedIs
<1>3. two[chosen + 1] = "Forget"
  BY <1>1 DEF SelectedIs, Selected
<1>4. Len(two) = 2
  OBVIOUS
<1>5. chosen = 1
  <2> HIDE DEF two, chosen
  <2> QED  BY <1>2, <1>4
<1> QED  BY <1>3, <1>5

(* Every menu has an item.                                                 *)
LEMMA ItemsOfMenu ==
  ASSUME TypeOK, NEW m \in Menus
  PROVE  Len(Items(m)) \in Nat \ {0}
<1>1. CASE m = "devices"
  BY <1>1, BehindBack, LenProperties DEF TypeOK, Items
<1>2. CASE m = "pair"
  BY <1>2, BehindBack, LenProperties DEF TypeOK, Items
<1>3. CASE m = "entry"
  BY <1>3 DEF Items
<1>4. CASE m \in {"main", "info"}
  BY <1>4 DEF Items
<1> QED  BY <1>1, <1>2, <1>3, <1>4 DEF Menus

-----------------------------------------------------------------------------
(* What is captured on entering a menu.                                    *)

Moves == Enters \/ Leaves

LEMMA MoveOnTop ==
  ASSUME Moves
  PROVE  /\ Move(Top, Top') /\ Top' # Top
         /\ Top' = "entry" => Top = "devices"
         /\ Top = "entry" => Top' = "devices"
         /\ Top = "pair" => Top' = "main"
         /\ Leaves => Top' \notin {"entry", "pair"}
<1>1. Move(Top, Top')
  BY DEF Moves, Enters, Leaves, NavigateTo, Back, Top
<1>2. \/ Top \in Views \ {"home"} /\ Top' = Parent(Top)
      \/ Top' \in Views \ {"home"} /\ Top = Parent(Top')
  BY DEF Moves, Enters, Leaves
<1>3. ASSUME NEW v \in Views \ {"home"}
      PROVE  /\ Parent(v) \in {"home", "main", "devices"} /\ Parent(v) # v
             /\ v = "entry" => Parent(v) = "devices"
             /\ v = "pair" => Parent(v) = "main"
  BY DEF Parent, Views, Menus
<1> QED  BY <1>1, <1>2, <1>3 DEF Leaves

-----------------------------------------------------------------------------
(* Types.                                                                  *)

LEMMA RemoveAtProperties ==
  ASSUME NEW S, NEW s \in Seq(S), NEW i \in DOMAIN s
  PROVE  /\ RemoveAt(s, i) \in Seq(S)
         /\ Len(RemoveAt(s, i)) = Len(s) - 1
         /\ \A k \in 1 .. Len(s) - 1 :
              RemoveAt(s, i)[k] = s[IF k < i THEN k ELSE k + 1]
<1> DEFINE a == SubSeq(s, 1, i - 1)
           b == SubSeq(s, i + 1, Len(s))
<1>1. Len(s) \in Nat /\ i \in 1 .. Len(s)
  BY LenProperties
<1>2. \A k \in 1 .. Len(s) : s[k] \in S
  BY ElementOfSeq
<1>3. /\ a \in Seq(S) /\ Len(a) = i - 1
      /\ \A k \in 1 .. i - 1 : a[k] = s[k]
  <2>1. 1 \in Int /\ i - 1 \in Int /\ \A k \in 1 .. i - 1 : s[k] \in S
    BY <1>1, <1>2
  <2>2. /\ a \in Seq(S)
        /\ Len(a) = IF 1 <= i - 1 THEN i - 1 - 1 + 1 ELSE 0
        /\ \A k \in 1 .. i - 1 - 1 + 1 : a[k] = s[1 + k - 1]
    BY <2>1, SubSeqProperties
  <2> HIDE DEF a
  <2> QED  BY <1>1, <2>2
<1>4. /\ b \in Seq(S) /\ Len(b) = Len(s) - i
      /\ \A k \in 1 .. Len(s) - i : b[k] = s[i + k]
  <2>1. i + 1 \in Int /\ Len(s) \in Int /\ \A k \in i + 1 .. Len(s) : s[k] \in S
    BY <1>1, <1>2
  <2>2. /\ b \in Seq(S)
        /\ Len(b) = IF i + 1 <= Len(s) THEN Len(s) - (i + 1) + 1 ELSE 0
        /\ \A k \in 1 .. Len(s) - (i + 1) + 1 : b[k] = s[i + 1 + k - 1]
    BY <2>1, SubSeqProperties
  <2> HIDE DEF b
  <2> QED  BY <1>1, <2>2
<1>5. /\ a \o b \in Seq(S) /\ Len(a \o b) = Len(a) + Len(b)
      /\ \A k \in 1 .. Len(a) + Len(b) :
           (a \o b)[k] = IF k <= Len(a) THEN a[k] ELSE b[k - Len(a)]
  <2> HIDE DEF a, b
  <2> QED  BY <1>3, <1>4, ConcatProperties
<1>6. RemoveAt(s, i) = a \o b
  BY DEF RemoveAt
<1> HIDE DEF a, b
<1>7. ASSUME NEW k \in 1 .. Len(s) - 1
      PROVE  (a \o b)[k] = s[IF k < i THEN k ELSE k + 1]
  <2>1. k \in 1 .. Len(a) + Len(b)
    BY <1>1, <1>3, <1>4
  <2>2. CASE k < i
    BY <1>1, <1>3, <1>5, <2>1, <2>2
  <2>3. CASE ~ (k < i)
    <3>1. (a \o b)[k] = b[k - (i - 1)]
      BY <1>1, <1>3, <1>5, <2>1, <2>3
    <3>2. k - (i - 1) \in 1 .. Len(s) - i /\ i + (k - (i - 1)) = k + 1
      BY <1>1, <2>3
    <3> QED  BY <1>4, <2>3, <3>1, <3>2
  <2> QED  BY <2>2, <2>3
<1>8. Len(a \o b) = Len(s) - 1
  BY <1>1, <1>3, <1>4, <1>5
<1> HIDE DEF RemoveAt
<1> QED  BY <1>5, <1>6, <1>7, <1>8

TypeOfStorage == devices \in Seq(Devices) /\ activeDevice \in Devices \cup {NoDevice}

(* A device that is paired is one that was found.                          *)
LEMMA PairsADevice ==
  ASSUME TypeOK, Pair
  PROVE  \E d \in Devices : /\ d \in ToSet(found)
                            /\ devices' = Append(devices, d) /\ activeDevice' = d
  BY SelectedInPair DEF Pair, AddDevice, SetActiveDevice

LEMMA StorageTyped ==
  ASSUME TypeOK, EntryInMemory, Changes
  PROVE  TypeOfStorage'
<1>1. devices \in Seq(Devices) /\ activeDevice \in Devices \cup {NoDevice}
      /\ entry.device \in Devices \cup {NoDevice}
  BY DEF TypeOK
<1>2. CASE SetAsActive
  BY <1>1, <1>2 DEF SetAsActive, SetActiveDevice, TypeOfStorage
<1>3. CASE Forget
  <2>1. entry.index \in DOMAIN devices /\ devices' = RemoveAt(devices, entry.index)
        /\ activeDevice' = activeDevice
    BY <1>3 DEF Forget, Removed, SelectedIs, EntryInMemory
  <2> QED  BY <1>1, <2>1, RemoveAtProperties DEF TypeOfStorage
<1>4. CASE Pair
  BY <1>1, <1>4, PairsADevice, AppendProperties DEF TypeOfStorage
<1> QED  BY <1>2, <1>3, <1>4 DEF Changes

LEMMA MovesTyped ==
  ASSUME TypeOK, Moves, TypeOfStorage',
         Top' = "entry" => Selected("devices") \in Devices
  PROVE  /\ selectedItem' \in [Menus -> Nat]
         /\ hasChanged' \in [Views -> BOOLEAN]
         /\ listed' \in Seq(Devices) /\ found' \in Seq(Devices)
         /\ kept' \in Devices \cup {NoDevice}
         /\ entry'.device \in Devices \cup {NoDevice}
         /\ session' \subseteq Devices
<1>1. Move(Top, Top') /\ (Top' = "entry" => Top = "devices")
  BY MoveOnTop
<1>2. listed' \in Seq(Devices) /\ kept' \in Devices \cup {NoDevice}
  BY <1>1 DEF Move, DevicesMove, TypeOfStorage
<1>3. found' \in Seq(Devices) /\ session' \subseteq Devices
  BY <1>1, ElementOfSeq, LenProperties
     DEF Move, PairMove, ToSet, TypeOfStorage, TypeOK
<1>4. selectedItem' \in [Menus -> Nat]
  BY <1>1 DEF Move, EntryMove, TypeOK
<1>5. entry'.device \in Devices \cup {NoDevice}
  BY <1>1 DEF Move, EntryMove, NoEntry
<1>6. hasChanged' \in [Views -> BOOLEAN]
  BY <1>1 DEF Move
<1> QED  BY <1>2, <1>3, <1>4, <1>5, <1>6

LEMMA PowerTyped ==
  TypeOK /\ [Next]_vars => power' \in {"on", "off", "undefined"}
  BY DEF TypeOK, Next, vars, HomeToMenu, HomeToVisualizer, LeaveVisualizer,
         KeyUp, KeyDown, SelectBack, SelectPastTheEnd, SelectMenu, Disconnect,
         TurnOff, SelectInfo, DrawLogo, SelectDevice, SetAsActive, Forget, Pair,
         NewDevice, Redraw

(* What the keys at a view leave alone.                                    *)
LEMMA KeysLeave ==
  ASSUME Keys
  PROVE  /\ UNCHANGED <<stack, listed, kept, entry, found, session, storageVars>>
         /\ Top \in Menus
         /\ hasChanged' = [hasChanged EXCEPT ![Top] = TRUE]
  BY DEF Keys, KeyUp, KeyDown, SelectInfo, DrawLogo, Activate, Stay, SelectedIs,
         Menus

LEMMA KeysTyped ==
  ASSUME TypeOK, Keys
  PROVE  selectedItem' \in [Menus -> Nat]
<1>1. selectedItem \in [Menus -> Nat] /\ Top \in Menus
  BY KeysLeave DEF TypeOK
<1>2. CASE KeyUp
  <2>1. Len(Items(Top)) - 1 \in Nat
    BY <1>1, ItemsOfMenu
  <2>2. selectedItem[Top] # 0 => selectedItem[Top] - 1 \in Nat
    BY <1>1
  <2> QED  BY <1>1, <1>2, <2>1, <2>2 DEF KeyUp
<1>3. CASE KeyDown
  <2>1. Len(Items(Top)) \in Nat \ {0} /\ selectedItem[Top] + 1 \in Nat
    BY <1>1, ItemsOfMenu
  <2>2. (selectedItem[Top] + 1) % Len(Items(Top)) \in Nat
    BY <2>1
  <2> QED  BY <1>1, <1>3, <2>2 DEF KeyDown
<1>4. CASE SelectInfo \/ DrawLogo
  BY <1>1, <1>4 DEF SelectInfo, DrawLogo, Activate
<1> QED  BY <1>2, <1>3, <1>4 DEF Keys

LEMMA TypeInductive ==
  TypeOK /\ Placed /\ EntryInMemory /\ [Next]_vars => TypeOK'
<1> SUFFICES ASSUME TypeOK, Placed, EntryInMemory, [Next]_vars PROVE TypeOK'
  OBVIOUS
<1>1. stack' \in Seq(Views) /\ stack' # <<>> /\ Head(stack') = "home"
  BY PlacedInductive, PathEnds DEF Placed
<1>2. power' \in {"on", "off", "undefined"}
  BY PowerTyped
<1> DEFINE Typed == /\ selectedItem \in [Menus -> Nat]
                    /\ hasChanged \in [Views -> BOOLEAN]
                    /\ listed \in Seq(Devices) /\ found \in Seq(Devices)
                    /\ kept \in Devices \cup {NoDevice}
                    /\ entry.device \in Devices \cup {NoDevice}
                    /\ session \subseteq Devices
                    /\ TypeOfStorage
<1>3. Typed
  BY DEF TypeOK, TypeOfStorage
<1>4. ASSUME Goes \/ Returns \/ Changes PROVE Typed'
  <2>1. Moves /\ TypeOfStorage'
    BY <1>3, <1>4, StorageTyped
       DEF Goes, Returns, Changes, Moves, TypeOfStorage, storageVars
  <2>2. Top' = "entry" => Selected("devices") \in Devices
    BY <1>4, <2>1, MoveOnTop DEF Goes, Returns, Changes, SelectedIs
  <2> QED  BY <2>1, <2>2, MovesTyped
<1>5. ASSUME Keys PROVE Typed'
  BY <1>3, <1>5, KeysTyped, KeysLeave DEF TypeOfStorage, storageVars, Menus, Views
<1>6. ASSUME NewDevice PROVE Typed'
  BY <1>3, <1>6, AppendProperties DEF NewDevice, TypeOfStorage, storageVars, Menus, Views
<1>7. ASSUME Redraw \/ Idle PROVE Typed'
  BY <1>3, <1>7 DEF Redraw, Draw, Idle, TypeOfStorage, storageVars, uiVars, Placed
<1>8. Typed'
  BY <1>4, <1>5, <1>6, <1>7, KindsOfSteps
<1> QED  BY <1>1, <1>2, <1>8 DEF TypeOK, TypeOfStorage

-----------------------------------------------------------------------------
(* What is on the display.                                                 *)

LEMMA QuietSteps ==
  ASSUME Keys \/ NewDevice \/ Redraw \/ Idle
  PROVE  Top' = Top /\ UNCHANGED <<listed, kept, entry, storageVars>>
  BY KeysLeave DEF NewDevice, Redraw, Idle, uiVars, Top

LEMMA RedrawnInductive ==
  TypeOK /\ Placed /\ RedrawnOnReturn /\ [Next]_vars => RedrawnOnReturn'
<1> SUFFICES ASSUME TypeOK, Placed, RedrawnOnReturn, [Next]_vars,
                    NEW m \in Menus, m # Top'
             PROVE  hasChanged'[m]
  BY DEF RedrawnOnReturn
<1>1. m \in Views /\ hasChanged \in [Views -> BOOLEAN]
      /\ (m # Top => hasChanged[m])
  BY DEF TypeOK, RedrawnOnReturn, Views
<1>2. CASE Goes \/ Returns \/ Changes
  BY <1>1, <1>2, MoveOnTop DEF Goes, Returns, Changes, Moves, Move
<1>3. CASE Keys
  BY <1>1, <1>3, KeysLeave, QuietSteps
<1>4. CASE NewDevice \/ Redraw \/ Idle
  BY <1>1, <1>4, QuietSteps DEF NewDevice, Redraw, Draw, Idle, uiVars
<1> QED  BY <1>2, <1>3, <1>4, KindsOfSteps

LEMMA ShownInductive ==
  TypeOK /\ Placed /\ RedrawnOnReturn /\ MenuIsShown /\ [Next]_vars => MenuIsShown'
<1> SUFFICES ASSUME TypeOK, Placed, RedrawnOnReturn, MenuIsShown, [Next]_vars,
                    Top' \in Menus, ~ hasChanged'[Top']
             PROVE  shown' = Picture(Top)'
  BY DEF MenuIsShown
<1>1. Top' \in Views /\ hasChanged \in [Views -> BOOLEAN]
  BY DEF TypeOK, Views
<1>2. CASE Goes \/ Returns \/ Changes
  <2>1. Move(Top, Top') /\ Top' # Top
    BY <1>2, MoveOnTop DEF Goes, Returns, Changes, Moves
  <2>2. hasChanged[Top']
    BY <2>1 DEF RedrawnOnReturn
  <2> QED  BY <1>1, <2>1, <2>2 DEF Move
<1>3. CASE Keys
  BY <1>1, <1>3, KeysLeave, QuietSteps
<1>4. CASE NewDevice
  BY <1>1, <1>4, QuietSteps DEF NewDevice
<1>5. CASE Redraw
  BY <1>5, QuietSteps DEF Redraw, Draw, Picture, Items
<1>6. CASE Idle
  BY <1>6, QuietSteps DEF Idle, uiVars, MenuIsShown, Picture, Items
<1> QED  BY <1>2, <1>3, <1>4, <1>5, <1>6, KindsOfSteps

-----------------------------------------------------------------------------
(* What the menus of devices hold.                                         *)

LEMMA AppendNew ==
  ASSUME NEW S, NEW s \in Seq(S), NEW d \in S
  PROVE  /\ ToSet(Append(s, d)) = ToSet(s) \cup {d}
         /\ IsInjective(s) /\ d \notin ToSet(s) => IsInjective(Append(s, d))
<1> DEFINE a == Append(s, d)
<1>1. /\ Len(a) = Len(s) + 1 /\ a[Len(s) + 1] = d
      /\ \A i \in 1 .. Len(s) : a[i] = s[i]
      /\ a \in Seq(S)
  BY AppendProperties
<1>2. Len(s) \in Nat /\ DOMAIN s = 1 .. Len(s) /\ DOMAIN a = 1 .. Len(a)
  BY <1>1, LenProperties
<1> HIDE DEF a
<1>3. DOMAIN a = DOMAIN s \cup {Len(s) + 1} /\ Len(s) + 1 \notin DOMAIN s
  BY <1>1, <1>2
<1>4. \A i \in DOMAIN s : a[i] = s[i]
  BY <1>1, <1>2
<1> QED  BY <1>1, <1>3, <1>4 DEF ToSet, IsInjective, a

LEMMA EmptyOffer == IsInjective(<<>>) /\ ToSet(<<>>) = {}
  BY DEF IsInjective, ToSet

LEMMA OffersInductive ==
  TypeOK /\ Placed /\ OffersNewDevices /\ ListsAgreeWithStorage /\ [Next]_vars
    => OffersNewDevices'
<1> SUFFICES ASSUME TypeOK, Placed, OffersNewDevices, ListsAgreeWithStorage,
                    [Next]_vars
             PROVE  OffersNewDevices'
  OBVIOUS
<1>1. CASE Goes \/ Returns \/ Changes
  <2>1. found' = <<>>
    BY <1>1, MoveOnTop
       DEF Goes, Returns, Changes, Moves, Move, PairMove, OffersNewDevices
  <2> QED  BY <2>1, EmptyOffer DEF OffersNewDevices
<1>2. CASE NewDevice
  <2>1. Top = "pair" /\ Top' = Top /\ devices' = devices
    BY <1>2, QuietSteps DEF NewDevice, storageVars
  <2>2. PICK d \in Devices \ session : found' = Append(found, d)
    BY <1>2 DEF NewDevice
  <2>3. /\ found \in Seq(Devices) /\ IsInjective(found)
        /\ ToSet(found) \cap ToSet(devices) = {}
        /\ d \notin ToSet(devices) /\ d \notin ToSet(found)
    BY <2>1, <2>2 DEF TypeOK, OffersNewDevices, ListsAgreeWithStorage
  <2>4. IsInjective(found') /\ ToSet(found') = ToSet(found) \cup {d}
    BY <2>2, <2>3, AppendNew
  <2> QED  BY <2>1, <2>3, <2>4 DEF OffersNewDevices
<1>3. CASE Keys \/ Redraw \/ Idle
  <2>1. Top' = Top /\ found' = found /\ devices' = devices
    BY <1>3, KeysLeave, QuietSteps DEF Redraw, Idle, uiVars, storageVars
  <2> QED  BY <2>1 DEF OffersNewDevices
<1> QED  BY <1>1, <1>2, <1>3, KindsOfSteps

(* What the menu of a device captures of the list it is entered from.      *)
LEMMA EntryCaptured ==
  ASSUME TypeOK, ListsAgreeWithStorage, Goes, Top' = "entry"
  PROVE  /\ entry'.index \in DOMAIN devices /\ UNCHANGED storageVars
         /\ devices[entry'.index] = entry'.device
         /\ entry'.forget = (entry'.device # activeDevice)
<1>1. Move(Top, Top') /\ Top = "devices" /\ UNCHANGED storageVars
  BY MoveOnTop DEF Goes, Moves
<1>2. listed = devices /\ kept = activeDevice
  BY <1>1 DEF ListsAgreeWithStorage
<1>3. PICK d \in Devices : SelectedIs("devices", d)
  BY DEF Goes
<1>4. /\ selectedItem["devices"] \in DOMAIN devices
      /\ devices[selectedItem["devices"]] = d /\ Selected("devices") = d
  BY <1>2, <1>3, SelectedInDevices DEF SelectedIs
<1>5. entry' = [index |-> selectedItem["devices"], device |-> d, forget |-> d # kept]
  BY <1>1, <1>4 DEF Move, EntryMove
<1> QED  BY <1>1, <1>2, <1>4, <1>5

LEMMA EntryInductive ==
  TypeOK /\ Placed /\ EntryInMemory /\ ListsAgreeWithStorage /\ [Next]_vars
    => EntryInMemory'
<1> SUFFICES ASSUME TypeOK, Placed, EntryInMemory, ListsAgreeWithStorage,
                    [Next]_vars, Top' = "entry"
             PROVE  entry'.index \in DOMAIN devices'
  BY DEF EntryInMemory
<1>1. CASE Goes
  BY <1>1, EntryCaptured DEF storageVars
<1>2. CASE Returns \/ Changes
  BY <1>2, MoveOnTop DEF Returns, Changes, Moves
<1>3. CASE Keys \/ NewDevice \/ Redraw \/ Idle
  BY <1>3, QuietSteps DEF EntryInMemory, storageVars
<1> QED  BY <1>1, <1>2, <1>3, KindsOfSteps

LEMMA ListsInductive ==
  /\ TypeOK /\ Placed /\ OffersNewDevices /\ ListsAgreeWithStorage /\ [Next]_vars
  => ListsAgreeWithStorage'
<1> SUFFICES ASSUME TypeOK, Placed, OffersNewDevices, ListsAgreeWithStorage,
                    [Next]_vars
             PROVE  ListsAgreeWithStorage'
  OBVIOUS
<1>1. CASE Goes \/ Returns \/ Changes
  <2>1. Moves
    BY <1>1 DEF Goes, Returns, Changes, Moves
  <2>2. Move(Top, Top')
    BY <2>1, MoveOnTop
  <2>3. Top' = "devices" => listed' = devices' /\ kept' = activeDevice'
    BY <2>2 DEF Move, DevicesMove
  <2>4. Top' = "entry" => /\ devices'[entry'.index] = entry'.device
                          /\ entry'.forget = (entry'.device # activeDevice')
    <3>1. Top' = "entry" => Goes
      BY <1>1, <2>1, MoveOnTop DEF Returns, Changes
    <3> QED  BY <3>1, EntryCaptured DEF storageVars
  <2>5. Top' = "pair" => session' = ToSet(devices') \cup ToSet(found')
    <3>1. Top' = "pair" => Top # "pair"
      BY <2>1, MoveOnTop
    <3>2. Top' = "pair" => found' = <<>> /\ session' = ToSet(devices')
      BY <2>2, <3>1 DEF Move, PairMove, OffersNewDevices
    <3> QED  BY <3>2, EmptyOffer
  <2> QED  BY <2>3, <2>4, <2>5 DEF ListsAgreeWithStorage
<1>2. CASE NewDevice
  <2>1. PICK d \in Devices \ session :
          found' = Append(found, d) /\ session' = session \cup {d}
    BY <1>2 DEF NewDevice
  <2>2. ToSet(found') = ToSet(found) \cup {d}
    BY <2>1, AppendNew DEF TypeOK
  <2>3. Top = "pair" /\ Top' = Top /\ devices' = devices
    BY <1>2, QuietSteps DEF NewDevice, storageVars
  <2> QED  BY <2>1, <2>2, <2>3 DEF ListsAgreeWithStorage
<1>3. CASE Keys \/ Redraw \/ Idle
  <2>1. Top' = Top /\ UNCHANGED <<listed, kept, entry, found, session, devices, activeDevice>>
    BY <1>3, KeysLeave, QuietSteps DEF Redraw, Idle, uiVars, storageVars
  <2> QED  BY <2>1 DEF ListsAgreeWithStorage
<1> QED  BY <1>1, <1>2, <1>3, KindsOfSteps

-----------------------------------------------------------------------------
(* What memory holds.                                                      *)

LEMMA RemoveFromInjective ==
  ASSUME NEW S, NEW s \in Seq(S), NEW i \in DOMAIN s, IsInjective(s)
  PROVE  /\ IsInjective(RemoveAt(s, i))
         /\ ToSet(RemoveAt(s, i)) = ToSet(s) \ {s[i]}
<1> DEFINE r == RemoveAt(s, i)
           At(k) == IF k < i THEN k ELSE k + 1
<1>1. /\ Len(s) \in Nat /\ DOMAIN s = 1 .. Len(s) /\ i \in 1 .. Len(s)
      /\ r \in Seq(S) /\ Len(r) = Len(s) - 1
      /\ \A k \in 1 .. Len(s) - 1 : r[k] = s[At(k)]
  BY RemoveAtProperties, LenProperties
<1>2. DOMAIN r = 1 .. Len(s) - 1
  BY <1>1, LenProperties
<1> HIDE DEF r
<1>3. \A k \in DOMAIN r : At(k) \in DOMAIN s /\ At(k) # i
  BY <1>1, <1>2
<1>4. \A k, l \in DOMAIN r : At(k) = At(l) => k = l
  BY <1>1, <1>2
<1>5. \A j \in DOMAIN s : j # i => \E k \in DOMAIN r : At(k) = j
  <2> SUFFICES ASSUME NEW j \in DOMAIN s, j # i
               PROVE  \E k \in DOMAIN r : At(k) = j
    OBVIOUS
  <2>1. CASE j < i
    BY <1>1, <1>2, <2>1
  <2>2. CASE ~ (j < i)
    <3>1. j - 1 \in DOMAIN r /\ At(j - 1) = j
      BY <1>1, <1>2, <2>2
    <3> QED  BY <3>1
  <2> QED  BY <2>1, <2>2
<1>6. \A k \in DOMAIN r : r[k] = s[At(k)]
  BY <1>1, <1>2
<1> HIDE DEF At
<1>7. IsInjective(r)
  BY <1>3, <1>4, <1>6 DEF IsInjective
<1>8. ToSet(r) = ToSet(s) \ {s[i]}
  BY <1>3, <1>5, <1>6 DEF IsInjective, ToSet
<1> QED  BY <1>7, <1>8 DEF r

LEMMA StorageInductive ==
  /\ TypeOK /\ Placed /\ OffersNewDevices /\ EntryInMemory
  /\ ListsAgreeWithStorage /\ StorageSound /\ [Next]_vars
  => StorageSound'
<1> SUFFICES ASSUME TypeOK, Placed, OffersNewDevices, EntryInMemory,
                    ListsAgreeWithStorage, StorageSound, [Next]_vars
             PROVE  StorageSound'
  OBVIOUS
<1>1. devices \in Seq(Devices) /\ IsInjective(devices)
      /\ (activeDevice # NoDevice => activeDevice \in ToSet(devices))
  BY DEF TypeOK, StorageSound, StoredOnce, ActiveIsStored
<1>2. CASE SetAsActive
  <2>1. Top = "entry" /\ activeDevice' = entry.device /\ devices' = devices
    BY <1>2 DEF SetAsActive, SelectedIs, SetActiveDevice
  <2>2. entry.device \in ToSet(devices)
    BY <2>1 DEF EntryInMemory, ListsAgreeWithStorage, ToSet
  <2> QED  BY <1>1, <2>1, <2>2 DEF StorageSound, StoredOnce, ActiveIsStored
<1>3. CASE Forget
  <2>1. /\ Top = "entry" /\ entry.forget /\ activeDevice' = activeDevice
        /\ devices' = RemoveAt(devices, entry.index)
    BY <1>3, ForgetIsOffered DEF Forget, SelectedIs, Removed
  <2>2. /\ entry.index \in DOMAIN devices /\ devices[entry.index] = entry.device
        /\ entry.device # activeDevice
    BY <2>1 DEF EntryInMemory, ListsAgreeWithStorage
  <2>3. IsInjective(devices') /\ ToSet(devices') = ToSet(devices) \ {entry.device}
    BY <1>1, <2>1, <2>2, RemoveFromInjective
  <2> QED  BY <1>1, <2>1, <2>2, <2>3 DEF StorageSound, StoredOnce, ActiveIsStored
<1>4. CASE Pair
  <2>1. PICK d \in Devices : /\ d \in ToSet(found)
                             /\ devices' = Append(devices, d) /\ activeDevice' = d
    BY <1>4, PairsADevice
  <2>2. d \notin ToSet(devices)
    BY <1>4, <2>1 DEF Pair, SelectedIs, OffersNewDevices
  <2>3. IsInjective(devices') /\ d \in ToSet(devices')
    BY <1>1, <2>1, <2>2, AppendNew
  <2> QED  BY <2>1, <2>3 DEF StorageSound, StoredOnce, ActiveIsStored
<1>5. CASE UNCHANGED storageVars
  BY <1>1, <1>5 DEF StorageSound, StoredOnce, ActiveIsStored, storageVars
<1> QED
  BY <1>2, <1>3, <1>4, <1>5, KindsOfSteps, QuietSteps DEF Goes, Returns, Changes

-----------------------------------------------------------------------------
LEMMA ConsistentInit == Init => Consistent
<1> SUFFICES ASSUME Init PROVE Consistent
  OBVIOUS
<1>1. stack = Path("home") /\ "home" \in Views /\ "home" \notin Menus
  BY DEF Init, Path, HomePath, Views, Menus
<1>2. Top = "home" /\ Placed
  BY <1>1, PathEnds DEF Top, Placed
<1>3. TypeOK
  <2>1. stack \in Seq(Views) /\ stack # <<>> /\ Head(stack) = "home"
    BY <1>1, PathEnds
  <2>2. hasChanged \in [Views -> BOOLEAN] /\ selectedItem \in [Menus -> Nat]
    BY DEF Init
  <2> QED  BY <2>1, <2>2 DEF Init, TypeOK, NoEntry
<1>4. StorageSound
  BY EmptyOffer DEF Init, StorageSound, ActiveIsStored, StoredOnce
<1>5. OffersNewDevices /\ EntryInMemory /\ ListsAgreeWithStorage
  BY <1>2 DEF Init, OffersNewDevices, EntryInMemory, ListsAgreeWithStorage
<1>6. RedrawnOnReturn /\ MenuIsShown
  BY <1>1, <1>2 DEF Init, RedrawnOnReturn, MenuIsShown, Views, Menus
<1> QED  BY <1>2, <1>3, <1>4, <1>5, <1>6 DEF Consistent

LEMMA ConsistentInductive == Consistent /\ [Next]_vars => Consistent'
  BY TypeInductive, PlacedInductive, RedrawnInductive, ShownInductive,
     OffersInductive, ListsInductive, EntryInductive, StorageInductive
     DEF Consistent

LEMMA AlwaysConsistent == Spec => []Consistent
  BY ConsistentInit, ConsistentInductive, PTL DEF Spec

(* Every variable of the menus keeps its type, whatever the devices, the   *)
(* capacity of memory and the keys pressed.                                *)
THEOREM TypeCorrect == Spec => []TypeOK
<1>1. Consistent => TypeOK
  BY DEF Consistent
<1> QED  BY <1>1, AlwaysConsistent, PTL

(* The active device is one of those in memory, and each is there once:    *)
(* nothing done at the menus forgets the active device or pairs one twice  *)
(* (DevicesMenu::onEnter, PairMenu::onEnter, Storage::removeDevice).       *)
THEOREM MemoryStaysSound == Spec => []StorageSound
<1>1. Consistent => StorageSound
  BY DEF Consistent
<1> QED  BY <1>1, AlwaysConsistent, PTL

(* What the menus of devices captured when they were entered is what       *)
(* memory holds when it is used.                                           *)
THEOREM ListsStayTrue == Spec => []ListsAgreeWithStorage
<1>1. Consistent => ListsAgreeWithStorage
  BY DEF Consistent
<1> QED  BY <1>1, AlwaysConsistent, PTL

(* A menu that is not to be drawn again is on the display as KEY_SELECT    *)
(* would act on it (Menu::input, notifyChanged, draw).                     *)
THEOREM ActsOnWhatIsShown == Spec => []MenuIsShown
<1>1. Consistent => MenuIsShown
  BY DEF Consistent
<1> QED  BY <1>1, AlwaysConsistent, PTL

(* Only "Forget" makes memory shorter, and it takes out the device the     *)
(* menu is titled with, by the index that menu captured                    *)
(* (Storage::removeDevice).                                                *)
THEOREM OnlyTheDeviceShownIsForgotten == Spec => ForgetsTheDeviceShown
<1> DEFINE Forgets == \E i \in DOMAIN devices :
                        /\ devices[i] = entry.device
                        /\ devices' = RemoveAt(devices, i)
<1>1. ASSUME Consistent, [Next]_vars, Len(devices') < Len(devices)
      PROVE  Forgets
  <2>1. TypeOK /\ Placed /\ EntryInMemory /\ ListsAgreeWithStorage
        /\ devices \in Seq(Devices) /\ Len(devices) \in Nat
    BY <1>1, LenProperties DEF Consistent, TypeOK
  <2>2. CASE Forget
    <3>1. Top = "entry" /\ devices' = RemoveAt(devices, entry.index)
      BY <2>2 DEF Forget, SelectedIs, Removed
    <3>2. entry.index \in DOMAIN devices /\ devices[entry.index] = entry.device
      BY <2>1, <3>1 DEF EntryInMemory, ListsAgreeWithStorage
    <3> QED  BY <3>1, <3>2
  <2>3. ~ Pair
    <3>1. Pair => \E d \in Devices : devices' = Append(devices, d)
      BY <2>1, PairsADevice
    <3>2. \A d \in Devices : Len(Append(devices, d)) = Len(devices) + 1
      BY <2>1, AppendProperties
    <3> QED  BY <1>1, <2>1, <3>1, <3>2
  <2>4. devices' # devices
    BY <1>1, <2>1
  <2> QED  BY <1>1, <2>1, <2>2, <2>3, <2>4, KindsOfSteps, QuietSteps
           DEF Goes, Returns, Changes, SetAsActive, storageVars
<1>2. Consistent /\ [Next]_vars
        => [Len(devices') < Len(devices) => Forgets]_vars
  BY <1>1
<1> QED  BY <1>2, AlwaysConsistent, PTL DEF Spec, ForgetsTheDeviceShown
=============================================================================
