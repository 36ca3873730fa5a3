----------------------------- MODULE InputPath -----------------------------
(***************************************************************************)
(* One input event from a frontend to the remote desktop:                  *)
(*   - the two facades (session_compat.rs of the OpenHarmony library,      *)
(*     flutter_ffi.rs and flutter_input.rs);                               *)
(*   - the key tables of viewer.rs and its two outgoing queues;            *)
(*   - the VNC translation of session_backend.rs;                          *)
(*   - decoding and injection on a Windows host (input.rs,                 *)
(*     platform/windows_input.rs, the input arm of host.rs).               *)
(*                                                                         *)
(* A key is a model name.  The tables are modelled by what they do to the  *)
(* names that they tell apart: two names for one key, a character outside  *)
(* Latin-1, a character outside the BMP, a key that has no remote          *)
(* counterpart and one that Windows refuses.  The wire is first in first   *)
(* out and has one reader, so writing and injecting are one step.          *)
(***************************************************************************)
EXTENDS Naturals, Sequences, FiniteSets

CONSTANTS Commands,    \* COMMANDS: capacity of each outgoing queue
          MaxEvents    \* bound: calls of the frontend

ASSUME InputConstants == Commands \in Nat \ {0} /\ MaxEvents \in Nat

VARIABLES seat,      \* front end and route of the session, fixed
          user,      \* keys and buttons the user holds
          control,   \* the control queue of the viewer: keys and text
          pointer,   \* its mouse queue
          remote,    \* what the remote desktop has seen
          sent,      \* control messages taken so far, and events so far
          lost,      \* some call was refused or dropped on the way
          clicked    \* some call was a click

inputVars == <<seat, user, control, pointer, remote, sent, lost, clicked>>

Keys == {"a", "accented", "wide", "emoji", "Alt", "RAlt", "LockScreen", "unnamed"}
Characters == {"a", "digit", "accented", "wide", "emoji"}
Buttons == {"left", "middle", "back"}
Modifiers == {"ctrl", "shift"}
None == "none"

-----------------------------------------------------------------------------
(* The key tables.                                                         *)

(* legacy_key_name: a single character is itself; the right hand Alt has   *)
(* no name of its own.                                                     *)
legacy_key_name(k) ==
    CASE k = "RAlt" -> "Alt"
      [] k = "unnamed" -> None
      [] OTHER -> k

(* usb_hid_key: the event's character counts only when it is one byte      *)
(* long; any other falls back to what the key means on a US keyboard.  The *)
(* key of "accented" is a digit there, those of "wide" and "emoji" are not *)
(* in the table, and no usage code means LockScreen.                       *)
usb_hid_key(k) ==
    CASE k = "accented" -> "digit"
      [] k \in {"wide", "emoji", "LockScreen", "unnamed"} -> None
      [] OTHER -> k

(* windows_virtual_key: Windows refuses LockScreen.                        *)
windows_virtual_key(k) == IF k = "LockScreen" THEN None ELSE k

(* vnc_keysym: Latin-1 characters and the keys of its own table.           *)
vnc_keysym(k) == IF k \in {"wide", "emoji", "LockScreen", "RAlt"} THEN None ELSE k

(* vnc_pointer: the mask of a button; the RustDesk code of the middle      *)
(* button is the X11 number of the wheel, and side buttons have no bit.    *)
vnc_button(b) ==
    CASE b = "left" -> {"left"}
      [] b = "middle" -> {"wheel_up"}
      [] OTHER -> {}
VncTakes(b) == b \in {"left", "middle"}

(* Where the user points.  coordinate: the Flutter payload may hold a      *)
(* fraction, which is no coordinate; mouse_event_from_json then takes the  *)
(* corner of the desktop.                                                  *)
Places == {"here", "outside", "fraction"}
coordinate(place) == IF place = "fraction" THEN None ELSE place
PlaceOf(place) == IF coordinate(place) = None THEN "corner" ELSE coordinate(place)

(* The name the remote desktop knows a key by that was pressed through a   *)
(* call that uses one table or the other.                                  *)
Tables == {"name", "hid"}
Named(k, table) == IF table = "name" THEN legacy_key_name(k) ELSE usb_hid_key(k)

-----------------------------------------------------------------------------
(* Messages.                                                               *)

KeyMessage(key, down, press) == [kind |-> "key", key |-> key, down |-> down, press |-> press]
TextMessage(text) == [kind |-> "text", text |-> text]
MouseMessage(type, button, place) ==
    [kind |-> "mouse", type |-> type, button |-> button, place |-> place,
     after |-> sent.control + Len(control)]

Texts == {<<"a">>, <<"a", "wide">>, <<"large">>}

Down(r, k) == [r EXCEPT !.keys = @ \cup {k},
                        !.typed = IF k \in Characters THEN @ \cup {k} ELSE @]
Up(r, k) == [r EXCEPT !.keys = @ \ {k}]

InputTypeOK ==
    /\ seat \in [front : {"ohos", "flutter"}, route : {"rustdesk", "vnc"}, viewOnly : BOOLEAN]
    /\ user.keys \subseteq Keys \X Tables /\ user.buttons \subseteq Buttons
    /\ Len(control) <= Commands /\ Len(pointer) <= Commands
    /\ remote.keys \subseteq Keys \cup Characters \cup Modifiers
    /\ sent.events \in 0..MaxEvents /\ sent.control \in 0..MaxEvents
    /\ lost \in BOOLEAN /\ clicked \in BOOLEAN

InputInit ==
    /\ seat \in [front : {"ohos", "flutter"}, route : {"rustdesk", "vnc"}, viewOnly : BOOLEAN]
    /\ seat.front = "flutter" => seat.route = "rustdesk" /\ ~seat.viewOnly
    /\ user = [keys |-> {}, buttons |-> {}]
    /\ control = <<>> /\ pointer = <<>>
    /\ remote = [keys |-> {}, buttons |-> {}, typed |-> {}, place |-> "start",
                 seen |-> 0, owed |-> 0]
    /\ sent = [control |-> 0, events |-> 0] /\ lost = FALSE /\ clicked = FALSE

-----------------------------------------------------------------------------
(* Sending.                                                                *)

(* A call that is answered with an error, or that does nothing at all.     *)
Refused == lost' = TRUE /\ UNCHANGED <<control, pointer, remote>>

(* Viewer::enqueue on either queue: a full queue refuses.                  *)
Enqueue(message) ==
    IF message.kind = "mouse"
    THEN IF Len(pointer) = Commands THEN Refused
         ELSE pointer' = Append(pointer, message) /\ UNCHANGED <<control, remote, lost>>
    ELSE IF Len(control) = Commands THEN Refused
         ELSE control' = Append(control, message) /\ UNCHANGED <<pointer, remote, lost>>

(* SessionBackend::send_key to a VNC server: the modifiers go down, the    *)
(* key goes down and up, the modifiers come up.                            *)
\* mutant
VncKeystrokeHeld(key, down, press, mods) ==
    LET pressed == [remote EXCEPT !.keys = @ \cup mods]
        struck == IF down THEN Down(pressed, key) ELSE pressed IN
    IF ~down \/ press THEN Up(struck, key) ELSE struck

VncKeystroke(key, down, press, mods) ==
    LET pressed == [remote EXCEPT !.keys = @ \cup mods]
        struck == IF down THEN Down(pressed, key) ELSE pressed
        released == IF ~down \/ press THEN Up(struck, key) ELSE struck IN
    [released EXCEPT !.keys = @ \ mods]

send_key(key, down, press, mods) ==
    CASE key = None -> Refused
      [] key # None /\ seat.route = "rustdesk" -> Enqueue(KeyMessage(key, down, press))
      [] key # None /\ seat.route = "vnc" ->
            IF vnc_keysym(key) = None THEN Refused
            ELSE /\ remote' = VncKeystroke(key, down, press, mods)
                 /\ UNCHANGED <<control, pointer, lost>>

(* SessionBackend::send_text to a VNC server types a character at a time   *)
(* and stops at the first one it has no keysym for.                        *)
Typeable(text) == \A i \in 1..Len(text) : vnc_keysym(text[i]) # None
send_text(text) ==
    IF seat.route = "rustdesk" THEN Enqueue(TextMessage(text))
    ELSE /\ remote' = [remote EXCEPT !.typed = @ \cup
                {text[i] : i \in {j \in 1..Len(text) : Typeable(SubSeq(text, 1, j))}}]
         /\ lost' = (lost \/ ~Typeable(text))
         /\ UNCHANGED <<control, pointer>>

(* VncLiveSession::send_mouse: the server takes the mask as the set of all *)
(* buttons held, at a place inside its framebuffer.                        *)
vnc_send_mouse(mask, place) ==
    /\ remote' = [remote EXCEPT !.place = place, !.buttons = mask]
    /\ UNCHANGED <<control, pointer, lost>>

(* SessionBackend::send_mouse to a VNC server: the steps of a wheel, which *)
(* carries no button, are taken for a place.                               *)
vnc_mouse(type, button, place) ==
    IF type \in {"down", "up"} /\ ~VncTakes(button) THEN Refused
    ELSE vnc_send_mouse(IF type = "down" THEN vnc_button(button) ELSE {},
                        IF type = "wheel" THEN "corner" ELSE place)

(* Viewer::send_mouse: a place outside the display is refused on either    *)
(* route.                                                                  *)
send_mouse(type, button, place) ==
    CASE place = "outside" /\ type # "wheel" -> Refused
      [] seat.route = "rustdesk" /\ (place # "outside" \/ type = "wheel") ->
            Enqueue(MouseMessage(type, button, place))
      [] seat.route = "vnc" /\ (place # "outside" \/ type = "wheel") ->
            vnc_mouse(type, button, place)

-----------------------------------------------------------------------------
(* The calls of a frontend.                                                *)

Call(front) == /\ sent.events < MaxEvents /\ seat.front = front
               /\ sent' = [sent EXCEPT !.events = @ + 1]
               /\ UNCHANGED seat

(* A view-only session of the OpenHarmony facade refuses input; the policy *)
(* is fixed once the session has started.                                  *)
Unless(refused, operation) == IF refused THEN Refused ELSE operation

(* The user presses a key, or lets go of one through the call that pressed *)
(* it.                                                                     *)
Moves(k, table, down) ==
    /\ down <=> (<<k, table>> \notin user.keys)
    /\ user' = [user EXCEPT !.keys = IF down THEN @ \cup {<<k, table>>} ELSE @ \ {<<k, table>>}]

Strikes(k, down, press) ==
    /\ IF press THEN UNCHANGED user ELSE Moves(k, "name", down)
    /\ clicked' = (clicked \/ press)

(* The OpenHarmony facade.  Its session_input_key refuses an event that is *)
(* neither a press nor a key down.                                         *)
ohos_session_input_key ==
    /\ Call("ohos")
    /\ \E k \in Keys, down \in BOOLEAN, press \in BOOLEAN, mods \in {{}, Modifiers} :
          /\ Strikes(k, down, press)
          /\ Unless(seat.viewOnly \/ (~down /\ ~press),
                    send_key(legacy_key_name(k), down, press, mods))

ohos_session_handle_flutter_key_event ==
    /\ Call("ohos")
    /\ \E k \in Keys, down \in BOOLEAN :
          /\ Moves(k, "hid", down)
          /\ Unless(seat.viewOnly, send_key(usb_hid_key(k), down, FALSE, {}))
    /\ UNCHANGED clicked

ohos_session_input_string ==
    /\ Call("ohos")
    /\ \E text \in Texts : Unless(seat.viewOnly, send_text(text))
    /\ UNCHANGED <<user, clicked>>

(* The user moves the pointer, turns the wheel, or presses or lets go of a *)
(* button.                                                                 *)
Points(type, b) ==
    /\ type = "down" => b \notin user.buttons
    /\ type = "up" => b \in user.buttons
    /\ type \in {"move", "wheel"} => b = "left"
    /\ user' = [user EXCEPT !.buttons = CASE type = "down" -> @ \cup {b}
                                          [] type = "up" -> @ \ {b}
                                          [] OTHER -> @]
    /\ UNCHANGED clicked

ohos_session_send_mouse_event ==
    /\ Call("ohos")
    /\ \E type \in {"move", "down", "up", "wheel"}, b \in Buttons, place \in {"here", "outside"} :
          /\ Points(type, b)
          /\ Unless(seat.viewOnly, send_mouse(type, b, place))

(* The Flutter facade: nobody hears of an error.                           *)
session_input_key ==
    /\ Call("flutter")
    /\ \E k \in Keys, down \in BOOLEAN, press \in BOOLEAN, mods \in {{}, Modifiers} :
          /\ Strikes(k, down, press)
          /\ send_key(legacy_key_name(k), down, press, mods)

session_handle_flutter_key_event ==
    /\ Call("flutter")
    /\ \E k \in Keys, down \in BOOLEAN :
          /\ Moves(k, "hid", down)
          /\ send_key(usb_hid_key(k), down, FALSE, {})
    /\ UNCHANGED clicked

session_handle_flutter_raw_key_event ==
    /\ Call("flutter")
    /\ \E k \in Keys, down \in BOOLEAN :
          /\ Moves(k, "name", down)
          /\ send_key(legacy_key_name(k), down, FALSE, {})
    /\ UNCHANGED clicked

session_input_string ==
    /\ Call("flutter")
    /\ \E text \in Texts : send_text(text)
    /\ UNCHANGED <<user, clicked>>

session_send_mouse ==
    /\ Call("flutter")
    /\ \E type \in {"move", "down", "up", "wheel"}, b \in Buttons, place \in Places :
          /\ Points(type, b)
          /\ send_mouse(type, b, PlaceOf(place))

(* session_lock_screen and session_ctrl_alt_del.                           *)
session_lock_screen ==
    /\ Call("flutter")
    /\ send_key("LockScreen", TRUE, FALSE, {})
    /\ UNCHANGED <<user, clicked>>

-----------------------------------------------------------------------------
(* The writer of the viewer and the Windows host behind it.                *)

(* decode_key: a press and a key down are the same thing to the host.      *)
\* mutant
decode_down_held(event) == event.down \/ event.press \/ event.key \notin Characters

decode_down(event) == event.down \/ event.press

(* inject_character: outside the BMP the whole character is typed on the   *)
(* way down.                                                               *)
inject_key(r, key, down) ==
    CASE windows_virtual_key(key) = None -> r
      [] key = "emoji" -> IF down THEN [r EXCEPT !.typed = @ \cup {key}] ELSE r
      [] OTHER -> IF down THEN Down(r, key) ELSE Up(r, key)

(* decode_key drops a text over MAX_TEXT_BYTES, which is far below what    *)
(* the viewer lets through; inject_text types the others unit by unit.     *)
inject_text(r, text) ==
    IF text = <<"large">> THEN r
    ELSE [r EXCEPT !.typed = @ \cup {text[i] : i \in 1..Len(text)}]

(* decode_mouse: only a move keeps its place; a button goes down or up     *)
(* where the pointer is, and the wheel turns there.                        *)
decode_mouse(event) ==
    [event EXCEPT !.place = IF event.type = "move" THEN @ ELSE remote.place]

inject_mouse(r, event) ==
    CASE event.type = "down" -> [r EXCEPT !.buttons = @ \cup {event.button}]
      [] event.type = "up" -> [r EXCEPT !.buttons = @ \ {event.button}]
      [] OTHER -> [r EXCEPT !.place = event.place]

Injected(event) ==
    CASE event.kind = "key" -> inject_key(remote, event.key, decode_down(event))
      [] event.kind = "text" -> inject_text(remote, event.text)
      [] event.kind = "mouse" ->
            [inject_mouse(remote, decode_mouse(event)) EXCEPT !.seen = sent.control, !.owed = event.after]

Unsupported(event) == \/ event.kind = "key" /\ windows_virtual_key(event.key) = None
                      \/ event.kind = "text" /\ event.text = <<"large">>

(* The operating system may refuse a record: the host counts it and goes   *)
(* on.                                                                     *)
Arrives(event) ==
    \/ remote' = Injected(event) /\ lost' = (lost \/ Unsupported(event))
    \/ /\ remote' = [remote EXCEPT !.seen = sent.control,
                                   !.owed = IF event.kind = "mouse" THEN event.after ELSE 0]
       /\ lost' = TRUE

WriteControl ==
    /\ control # <<>>
    /\ Arrives(Head(control))
    /\ control' = Tail(control) /\ sent' = [sent EXCEPT !.control = @ + 1]
    /\ UNCHANGED <<seat, user, pointer, clicked>>

(* write: the control queue first.                                         *)
\* mutant
MouseTurnAny == pointer # <<>>

MouseTurn == pointer # <<>> /\ control = <<>>

WriteMouse ==
    /\ MouseTurn
    /\ Arrives(Head(pointer))
    /\ pointer' = Tail(pointer)
    /\ UNCHANGED <<seat, user, control, sent, clicked>>

InputNext ==
    \/ ohos_session_input_key \/ ohos_session_handle_flutter_key_event
    \/ ohos_session_input_string \/ ohos_session_send_mouse_event
    \/ session_input_key \/ session_handle_flutter_key_event
    \/ session_handle_flutter_raw_key_event \/ session_input_string
    \/ session_send_mouse \/ session_lock_screen
    \/ WriteControl \/ WriteMouse

InputSpec == InputInit /\ [][InputNext]_inputVars

-----------------------------------------------------------------------------
Delivered == control = <<>> /\ pointer = <<>>

(* When everything has been delivered, nothing was refused on the way and  *)
(* every key was reported as a transition, the remote desktop holds no key *)
(* the user let go of, no modifier, and no button: whichever table named   *)
(* the key and whichever queue carried it.                                 *)
NoStuckInput ==
    (Delivered /\ ~lost /\ ~clicked) =>
        /\ remote.keys \subseteq {Named(h[1], h[2]) : h \in user.keys}
        /\ seat.route = "rustdesk" => remote.buttons \subseteq user.buttons

(* A mouse event never overtakes the keys accepted before it: a modifier   *)
(* pressed before a click is down when the click lands.                    *)
ClickSeesModifiers == remote.owed <= remote.seen
=============================================================================
