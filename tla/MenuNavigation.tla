---------------------------- MODULE MenuNavigation ----------------------------
(***************************************************************************)
(* The menus of the device with buttons and a display, in the PandaMicTxUI *)
(* build: the stack of views (Navigation.h), the menus (Menu.h), the list  *)
(* of paired devices (DevicesMenu.h), the list of devices in range         *)
(* (PairMenu.h, PairCommand.h) and the devices in memory (Storage.h).      *)
(*                                                                         *)
(* Arduino's loop() reads the buttons and redraws what changed, on one     *)
(* task.  In this build it does not update the tickers and the devices are *)
(* neither read from flash nor, for want of a handle, written to it.       *)
(*                                                                         *)
(* Assumed: the discovery session, whose library is not in the repository, *)
(* calls PairMenu back (NewDevice) between two of loop()'s handlers.  Were *)
(* it to do so from a task of its own, a callback that arrives during      *)
(* Menu::draw would be undone by its hasChanged = false (Menu.h:61), so    *)
(* that the device found stays undrawn, and it would change the vector of  *)
(* items while the drawing reads it.                                       *)
(***************************************************************************)
EXTENDS Integers, SequencesExt

CONSTANTS
  Devices,      \* Bluetooth devices in range
  NoDevice,     \* the zero bytes of an active device never set
  MAX_DEVICES

ASSUME MenuAssumption == NoDevice \notin Devices /\ MAX_DEVICES \in Nat \ {0}

Menus == {"main", "devices", "pair", "info", "entry"}
Views == Menus \cup {"home", "visualizer"}

VARIABLES
  stack,        \* of views
  selectedItem, \* of each menu
  hasChanged,   \* of each view
  listed,       \* DevicesMenu: the devices it has submenus of ...
  kept,         \* ... of which this one has no "Forget"
  entry,        \* the submenu of a device last entered, and what it captured
  found,        \* PairMenu: the devices it offers
  session,      \* external: the devices its discovery session knows
  devices, activeDevice, \* Storage
  shown,        \* what the display shows
  power         \* "on", "off" or, after undefined behaviour, "undefined"

uiVars == <<stack, selectedItem, hasChanged, listed, kept, entry, found,
            session, shown>>
storageVars == <<devices, activeDevice>>
vars == <<uiVars, storageVars, power>>

NoEntry == [index |-> 0, device |-> NoDevice, forget |-> FALSE]

(* The items of a menu; the first one always leads back. *)
Items(view) ==
  CASE view = "main"    -> <<"Back", "devices", "pair", "Disconnect", "info", "Turn off">>
    [] view = "info"    -> <<"Back", "Battery", "CPU", "Draw logo">>
    [] view = "devices" -> <<"Back">> \o listed
    [] view = "pair"    -> <<"Back">> \o found
    [] view = "entry"   -> <<"Back", "Set as active">>
                             \o (IF entry.forget THEN <<"Forget">> ELSE <<>>)
    [] OTHER            -> <<>>

Selected(menu) == Items(menu)[selectedItem[menu] + 1]

(* What the display shows once the view is drawn. *)
Picture(view) ==
  [view |-> view, items |-> Items(view),
   of       |-> IF view = "entry" THEN entry.device ELSE NoDevice,
   selected |-> IF view \in Menus THEN selectedItem[view] ELSE 0]

NoPicture == [view |-> "none", items |-> <<>>, of |-> NoDevice, selected |-> 0]

Top == Last(stack)

(* setup() has entered the home view and cleared the display. *)
Init ==
  /\ stack = <<"home">>
  /\ selectedItem = [m \in Menus |-> 0]
  /\ hasChanged = [v \in Views |-> v # "visualizer"]
  /\ listed = <<>> /\ kept = NoDevice /\ entry = NoEntry
  /\ found = <<>> /\ session = {}
  /\ devices = <<>> /\ activeDevice = NoDevice
  /\ shown = NoPicture /\ power = "on"

-----------------------------------------------------------------------------
(* DevicesMenu: onEnter makes submenus of the devices in memory, onLeave    *)
(* clears the list, but not the selection.                                  *)
DevicesMove_OnlyForward(old, new) ==
  /\ listed' = IF new = "devices" /\ old # "entry" THEN devices' ELSE <<>>
  /\ kept' = IF new = "devices" THEN activeDevice' ELSE NoDevice
DevicesMove(old, new) ==
  /\ listed' = IF new = "devices" THEN devices' ELSE <<>>
  /\ kept' = IF new = "devices" THEN activeDevice' ELSE NoDevice

(* PairMenu: onEnter starts a session that knows the devices in memory,     *)
(* onLeave stops it and clears the list.                                    *)
PairMove_KnowsNone(old, new) ==
  /\ session' = {}
  /\ found' = IF old = "pair" THEN <<>> ELSE found
PairMove(old, new) ==
  /\ session' = IF new = "pair" THEN ToSet(devices') ELSE {}
  /\ found' = IF old = "pair" THEN <<>> ELSE found

(* The submenu of a device is a new object each time. *)
EntryMove(old, new) ==
  /\ selectedItem' = [selectedItem EXCEPT !["entry"] = 0]
  /\ entry' = IF new = "entry"
                THEN [index  |-> selectedItem[old],
                      device |-> Selected(old),
                      forget |-> Selected(old) # kept]
                ELSE NoEntry

(* onLeave of the old view and onEnter of the new one. *)
Move(old, new) ==
  /\ DevicesMove(old, new) /\ PairMove(old, new) /\ EntryMove(old, new)
  /\ hasChanged' = [v \in Views |->
                      \/ hasChanged[v]
                      \/ v = old /\ old \in Menus
                      \/ v = "entry"
                      \/ v = "devices" /\ new = v /\ devices' # <<>>]
  /\ UNCHANGED shown

NavigateTo(view) ==
  /\ stack' = Append(stack, view)
  /\ Move(Top, view)

Back ==
  /\ stack' = Front(stack)
  /\ Move(Top, Last(Front(stack)))

(* A key that leaves the view as it is. *)
Stay ==
  /\ hasChanged' = [hasChanged EXCEPT ![Top] = TRUE]
  /\ UNCHANGED <<stack, listed, kept, entry, found, session>>

(* A MenuCommand was activated: its CallbackAction. *)
Activate(action) == \/ action = "Back" /\ Back
                    \/ action = "Nop" /\ Stay /\ UNCHANGED selectedItem

On == power = "on"

-----------------------------------------------------------------------------
(* Home and visualizer. *)

HomeToMenu ==
  /\ On /\ Top = "home"
  /\ UNCHANGED <<storageVars, power>>
  /\ NavigateTo("main")

HomeToVisualizer ==
  /\ On /\ Top = "home"
  /\ UNCHANGED <<storageVars, power>>
  /\ NavigateTo("visualizer")

LeaveVisualizer ==
  /\ On /\ Top = "visualizer"
  /\ UNCHANGED <<storageVars, power>>
  /\ Back

-----------------------------------------------------------------------------
(* Menu::input. *)

KeyUp ==
  /\ On /\ Top \in Menus
  /\ selectedItem' = [selectedItem EXCEPT ![Top] =
                        IF @ = 0 THEN Len(Items(Top)) - 1 ELSE @ - 1]
  /\ Stay
  /\ UNCHANGED <<storageVars, power, shown>>

KeyDown_NotNotified ==
  /\ On /\ Top \in Menus
  /\ selectedItem' = [selectedItem EXCEPT ![Top] = (@ + 1) % Len(Items(Top))]
  /\ UNCHANGED <<hasChanged, stack, listed, kept, entry, found, session>>
  /\ UNCHANGED <<storageVars, power, shown>>
KeyDown ==
  /\ On /\ Top \in Menus
  /\ selectedItem' = [selectedItem EXCEPT ![Top] = (@ + 1) % Len(Items(Top))]
  /\ Stay
  /\ UNCHANGED <<storageVars, power, shown>>

(* KEY_SELECT on an item that exists; Back has its own disjunct. *)
SelectedIs(menu, item) ==
  /\ On /\ Top = menu
  /\ selectedItem[menu] \in 1 .. Len(Items(menu)) - 1
  /\ Selected(menu) = item

SelectBack ==
  /\ On /\ Top \in Menus /\ selectedItem[Top] = 0
  /\ UNCHANGED <<storageVars, power>>
  /\ Back

(* menuItems[selectedItem] past the end. *)
SelectPastTheEnd ==
  /\ On /\ Top \in Menus /\ selectedItem[Top] >= Len(Items(Top))
  /\ power' = "undefined"
  /\ UNCHANGED <<uiVars, storageVars>>

SelectMenu ==
  /\ UNCHANGED <<storageVars, power>>
  /\ \E menu \in {"devices", "pair", "info"} :
       SelectedIs("main", menu) /\ NavigateTo(menu)

Disconnect ==
  /\ SelectedIs("main", "Disconnect")
  /\ UNCHANGED <<storageVars, power>>
  /\ Activate("Back")

TurnOff ==
  /\ SelectedIs("main", "Turn off")
  /\ power' = "off"
  /\ UNCHANGED <<uiVars, storageVars>>

SelectInfo ==
  /\ SelectedIs("info", "Battery") \/ SelectedIs("info", "CPU")
  /\ Stay
  /\ UNCHANGED <<selectedItem, storageVars, power, shown>>

DrawLogo ==
  /\ SelectedIs("info", "Draw logo")
  /\ Activate("Nop")
  /\ shown' = NoPicture
  /\ UNCHANGED <<storageVars, power>>

-----------------------------------------------------------------------------
(* The devices in memory (Storage) and their lists. *)

SetActiveDevice(d) == activeDevice' = d
AddDevice(d) == devices' = Append(devices, d)
Removed_OffByOne(index) == RemoveAt(devices, IF index < Len(devices) THEN index + 1 ELSE index)
Removed(index) == RemoveAt(devices, index)

SelectDevice ==
  /\ \E d \in Devices : SelectedIs("devices", d)
  /\ UNCHANGED <<storageVars, power>>
  /\ NavigateTo("entry")

SetAsActive ==
  /\ SelectedIs("entry", "Set as active")
  /\ SetActiveDevice(entry.device)
  /\ UNCHANGED <<devices, power>>
  /\ Activate("Back")

(* Storage::removeDevice with the captured index. *)
Forget ==
  /\ SelectedIs("entry", "Forget")
  /\ devices' = Removed(entry.index)
  /\ UNCHANGED <<activeDevice, power>>
  /\ Activate("Back")

(* PairCommand::activate: Storage::addDevice, whose array may be full, and *)
(* setActiveDevice.                                                        *)
Pair ==
  /\ \E d \in Devices :
       /\ SelectedIs("pair", d)
       /\ AddDevice(d)
       /\ SetActiveDevice(d)
  /\ power' = IF Len(devices) < MAX_DEVICES THEN "on" ELSE "undefined"
  /\ Back

(* PairMenu's callback: the session, which is started, reports a device it *)
(* does not know.                                                          *)
NewDevice ==
  /\ On /\ Top = "pair"
  /\ \E d \in Devices \ session :
       /\ found' = Append(found, d)
       /\ session' = session \cup {d}
  /\ hasChanged' = [hasChanged EXCEPT !["pair"] = TRUE]
  /\ UNCHANGED <<stack, selectedItem, listed, kept, entry, shown, storageVars,
                 power>>

(* Drawable::draw of the view on top. *)
Draw ==
  /\ shown' = Picture(Top)
  /\ hasChanged' = [hasChanged EXCEPT ![Top] = FALSE]

(* loop() redraws. *)
Redraw ==
  /\ On /\ hasChanged[Top]
  /\ Draw
  /\ UNCHANGED <<stack, selectedItem, listed, kept, entry, found, session,
                 storageVars, power>>

Next ==
  \/ HomeToMenu \/ HomeToVisualizer \/ LeaveVisualizer
  \/ KeyUp \/ KeyDown
  \/ SelectBack \/ SelectPastTheEnd \/ SelectMenu \/ Disconnect \/ TurnOff
  \/ SelectInfo \/ DrawLogo
  \/ SelectDevice \/ SetAsActive \/ Forget \/ Pair
  \/ NewDevice \/ Redraw

Spec == Init /\ [][Next]_vars

-----------------------------------------------------------------------------
TypeOK ==
  /\ stack \in Seq(Views) /\ stack # <<>> /\ Head(stack) = "home"
  /\ selectedItem \in [Menus -> Nat]
  /\ hasChanged \in [Views -> BOOLEAN]
  /\ {listed, found, devices} \subseteq Seq(Devices)
  /\ {kept, activeDevice, entry.device} \subseteq Devices \cup {NoDevice}
  /\ session \subseteq Devices
  /\ power \in {"on", "off", "undefined"}

(* The device that is active is one of those in memory: it cannot be       *)
(* forgotten, although "Forget" is offered or not when the list is entered *)
(* and not when it is chosen (DevicesMenu::onEnter).  And a device is in   *)
(* memory once: what is paired is not offered for pairing again            *)
(* (PairMenu::onEnter).                                                    *)
ActiveIsStored == activeDevice # NoDevice => activeDevice \in ToSet(devices)
StoredOnce == IsInjective(devices)
StorageSound == ActiveIsStored /\ StoredOnce

(* "Forget" forgets the device the menu is titled with and no other,       *)
(* although it was given an index (DevicesMenu::onEnter, removeDevice).    *)
ForgetsTheDeviceShown ==
  [][Len(devices') < Len(devices) =>
       \E i \in DOMAIN devices : /\ devices[i] = entry.device
                                 /\ devices' = RemoveAt(devices, i)]_vars

(* What the menus of devices captured when they were entered still agrees  *)
(* with memory when it is used (DevicesMenu::onEnter and onLeave).         *)
ListsAgreeWithStorage ==
  /\ Top = "devices" => listed = devices /\ kept = activeDevice
  /\ Top = "entry" =>
       /\ devices[entry.index] = entry.device
       /\ entry.forget = (entry.device # activeDevice)
  /\ Top = "pair" => session = ToSet(devices) \cup ToSet(found)

(* A menu that needs no redraw is on the display as it is, with the item   *)
(* that KEY_SELECT would act on (Menu::input, notifyChanged, draw).        *)
MenuIsShown ==
  Top \in Menus /\ ~ hasChanged[Top] => shown = Picture(Top)

(* The selected item exists: clear() "int selectedItem = 0;" (Menu.h:134). *)
SelectionInRange ==
  Top \in Menus => selectedItem[Top] < Len(Items(Top))
=============================================================================
