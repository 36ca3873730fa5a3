------------------------------ MODULE VncClient ------------------------------
(***************************************************************************)
(* A VNC session: the handshake of crates/rd-engine/src/vnc/mod.rs, the    *)
(* live session with its reader thread (vnc/live.rs) and the calls of      *)
(* session_backend.rs that reach it.                                       *)
(*                                                                         *)
(* The handshake runs inside VncLiveSession::open, in one thread.  After   *)
(* it a reader thread holds the session lock while it waits for the next   *)
(* message; input, refresh and close use a second handle of the socket and *)
(* never take that lock.  The frontend polls for pictures.                 *)
(*                                                                         *)
(* The server is external.  It follows RFB: it picks the security type     *)
(* before 3.7 and offers a list from 3.7 on, it tells the result of None   *)
(* only from 3.8 on, and it sends one update for each request, the whole   *)
(* screen or, for an incremental request, what changed.                    *)
(***************************************************************************)
EXTENDS Naturals, Sequences, FiniteSets

CONSTANTS Cells,        \* parts of the screen
          MaxChanges,   \* bound: changes of every part of the screen
          MaxPending    \* bound: updates on the wire when a refresh is asked

ASSUME VncConstants == MaxChanges \in Nat /\ MaxPending \in Nat /\ Cells # {}

VARIABLES server,       \* version, offered types, password, screen, request
          client,       \* what open() decided
          wire,         \* messages of the server not read yet
          socket,       \* "open", "shut" by the client, "broken" by the network
          reader,       \* the reader thread
          working,      \* its framebuffer
          shared,       \* state behind the shared mutex, and the closed flag
          shown         \* what the frontend last took

vncVars == <<server, client, wire, socket, reader, working, shared, shown>>

VncSecurities == {"none", "vnc", "other"}
Opening == {"banner", "security", "challenge", "result", "init"}

(* Messages of the server that carry no picture.                           *)
Asides == {"bell", "clipboard", "unsupported"}

Msg(kind) == [kind |-> kind, cells |-> <<>>]

Blank == [c \in Cells |-> 0]     \* version 0 is a pixel never painted
NoPicture == <<>>

(* The type of the session.                                                *)
VncTypeOK ==
    /\ client \in [step : Opening \cup {"live", "failed"}, secret : BOOLEAN,
                   security : VncSecurities \cup {"unknown"}]
    /\ server.minor \in {3, 7, 8} /\ server.offers \subseteq VncSecurities
    /\ server.screen \in [Cells -> 1..(MaxChanges + 1)]
    /\ server.sent \in [Cells -> 0..(MaxChanges + 1)]
    /\ server.request \in {"none", "full", "incremental"}
    /\ socket \in {"open", "shut", "broken"}
    /\ reader \in {"none", "reading", "erred", "done"}
    /\ shared.ready \in BOOLEAN /\ shared.closed \in BOOLEAN
    /\ shared.failure \in BOOLEAN

VncInit ==
    /\ \E minor \in {3, 7, 8}, offers \in SUBSET VncSecurities, right \in BOOLEAN :
          /\ minor = 3 => Cardinality(offers) = 1
          /\ server = [minor |-> minor, offers |-> offers, right |-> right,
                       screen |-> [c \in Cells |-> 1], sent |-> Blank,
                       request |-> "none", aside |-> "none"]
    /\ \E secret \in BOOLEAN :
          client = [step |-> "banner", secret |-> secret, security |-> "unknown"]
    /\ wire = <<Msg("banner")>> /\ socket = "open" /\ reader = "none"
    /\ working = Blank /\ shown = NoPicture
    /\ shared = [picture |-> NoPicture, ready |-> FALSE, closed |-> FALSE,
                 failure |-> FALSE]

-----------------------------------------------------------------------------
(* VncSession::handshake                                                   *)

Handshake(c, w) == /\ client' = c /\ wire' = w
                   /\ UNCHANGED <<server, socket, reader, working, shared, shown>>

Fails(c) == [c EXCEPT !.step = "failed"]

(* The version answered is the server's own, 3.8 at most.                  *)
VersionAnswered ==
    /\ client.step = "banner" /\ Head(wire).kind = "banner"
    /\ Handshake([client EXCEPT !.step = "security"], <<Msg("types")>>)

(* The server's next messages once a type is chosen.                       *)
AfterChoice(security) ==
    IF security = "vnc" THEN <<Msg("challenge")>>
    ELSE IF server.minor = 8 THEN <<Msg("ok"), Msg("init")>> ELSE <<Msg("init")>>

(* From 3.7 on: with a password VNC authentication or nothing, without     *)
(* one None or nothing.                                                    *)
\* mutant
ChooseWeaker(offers, secret) ==
    IF "none" \in offers THEN "none"
    ELSE IF secret /\ "vnc" \in offers THEN "vnc" ELSE "unknown"

Choose(offers, secret) ==
    IF secret THEN IF "vnc" \in offers THEN "vnc" ELSE "unknown"
    ELSE IF "none" \in offers THEN "none" ELSE "unknown"

NegotiateSecurity ==
    LET chosen == IF server.minor < 7
                  THEN CHOOSE t \in server.offers : TRUE
                  ELSE Choose(server.offers, client.secret)
        next == IF chosen = "vnc" THEN "challenge"
                ELSE IF server.minor < 7 THEN "init" ELSE "result" IN
    /\ client.step = "security"
    /\ IF chosen \in {"unknown", "other"} \/ server.offers = {}
       THEN Handshake(Fails(client), <<>>)
       ELSE Handshake([client EXCEPT !.step = next, !.security = chosen],
                      AfterChoice(chosen))

(* vnc_authenticate: the DES answer is right when the password is.  No     *)
(* password answers with the empty one.                                    *)
AnswerChallenge ==
    /\ client.step = "challenge" /\ Head(wire).kind = "challenge"
    /\ Handshake([client EXCEPT !.step = "result"],
                 IF server.right /\ client.secret THEN <<Msg("ok"), Msg("init")>>
                                                  ELSE <<Msg("failed")>>)

(* read_security_result: any word that is not 0 fails, also the first      *)
(* bytes of a ServerInit.                                                  *)
ReadSecurityResult ==
    /\ client.step = "result"
    /\ IF Head(wire).kind = "ok"
       THEN Handshake([client EXCEPT !.step = "init"], Tail(wire))
       ELSE Handshake(Fails(client), <<>>)

(* initialise, and open() after it: one full request, then the reader.     *)
Initialise ==
    /\ client.step = "init" /\ Head(wire).kind = "init"
    /\ client' = [client EXCEPT !.step = "live"] /\ wire' = <<>>
    /\ server' = [server EXCEPT !.request = "full"]
    /\ reader' = "reading"
    /\ UNCHANGED <<socket, working, shared, shown>>

(* The connection may fail at any step of open().                          *)
HandshakeBreaks ==
    /\ client.step \in Opening
    /\ Handshake(Fails(client), <<>>)

-----------------------------------------------------------------------------
(* The server and the network, external.                                   *)

ScreenChanges ==
    /\ client.step = "live" /\ \E c \in Cells :
          /\ server.screen[c] <= MaxChanges
          /\ server' = [server EXCEPT !.screen[c] = @ + 1]
    /\ UNCHANGED <<client, wire, socket, reader, working, shared, shown>>

ServerUpdates ==
    LET changed == {c \in Cells : server.sent[c] # server.screen[c]}
        cells == IF server.request = "full" THEN Cells ELSE changed IN
    /\ server.request # "none" /\ cells # {} /\ socket = "open"
    /\ wire' = Append(wire, [kind |-> "update",
                                cells |-> [c \in cells |-> server.screen[c]]])
    /\ server' = [server EXCEPT !.request = "none", !.sent = server.screen]
    /\ UNCHANGED <<client, socket, reader, working, shared, shown>>

(* At most once: a bell, a clipboard, or a rectangle the client cannot     *)
(* decode.                                                                 *)
ServerAside ==
    /\ client.step = "live" /\ socket = "open" /\ server.aside = "none"
    /\ \E kind \in Asides : /\ wire' = Append(wire, Msg(kind))
                            /\ server' = [server EXCEPT !.aside = kind]
    /\ UNCHANGED <<client, socket, reader, working, shared, shown>>

NetworkBreaks ==
    /\ client.step = "live" /\ socket = "open" /\ socket' = "broken"
    /\ UNCHANGED <<server, client, wire, reader, working, shared, shown>>

-----------------------------------------------------------------------------
(* spawn_reader                                                            *)

(* decode_framebuffer_update and apply_rectangles.                         *)
Paints(buffer, update) ==
    [c \in Cells |-> IF c \in DOMAIN update THEN update[c] ELSE buffer[c]]

(* read_message: the reader has the next whole message of this kind.       *)
ReadMessage(kinds) == reader = "reading" /\ wire # <<>> /\ Head(wire).kind \in kinds

(* take_buffer moves the picture out and leaves a buffer never painted.    *)
ReaderPublishes ==
    /\ ReadMessage({"update"})
    /\ shared' = [shared EXCEPT !.picture = Paints(working, Head(wire).cells),
                                !.ready = TRUE]
    /\ working' = Blank /\ wire' = Tail(wire)
    /\ UNCHANGED <<server, client, socket, reader, shown>>

(* A bell is ignored; the clipboard waits for the frontend (not followed). *)
ReaderPasses ==
    /\ ReadMessage({"bell", "clipboard"}) /\ wire' = Tail(wire)
    /\ UNCHANGED <<server, client, socket, reader, working, shared, shown>>

(* A read returns an error once the socket is shut or broken, and for a    *)
(* message decode_framebuffer_update cannot read.                          *)
ReadFails ==
    /\ reader = "reading" /\ reader' = "erred"
    /\ socket # "open" \/ ReadMessage({"unsupported"})
    /\ UNCHANGED <<server, client, wire, socket, working, shared, shown>>

(* Under the shared lock: a close asked for by the frontend is no failure. *)
\* mutant
FailureAlways(s) == TRUE

FailureUnlessClosed(s) == ~s.closed

ReaderEnds ==
    /\ reader = "erred" /\ reader' = "done"
    /\ shared' = [shared EXCEPT !.failure = FailureUnlessClosed(shared),
                                !.closed = TRUE]
    /\ UNCHANGED <<server, client, wire, socket, working, shown>>

(* The flag is also read before every message.                             *)
ReaderSeesClose ==
    /\ reader = "reading" /\ shared.closed /\ reader' = "done"
    /\ UNCHANGED <<server, client, wire, socket, working, shared, shown>>

-----------------------------------------------------------------------------
(* Calls of the frontend.                                                  *)

(* session_take_rgba_frame                                                 *)
TakeFrame ==
    /\ shared.ready
    /\ shown' = shared.picture /\ shared' = [shared EXCEPT !.ready = FALSE]
    /\ UNCHANGED <<server, client, wire, socket, reader, working>>

(* session_refresh asks for a full repaint.                                *)
\* mutant
RefreshRequestIncremental == "incremental"

RefreshRequest == "full"

RefreshVideo ==
    /\ client.step = "live" /\ socket = "open"
    /\ server.request = "none" /\ Len(wire) < MaxPending
    /\ server' = [server EXCEPT !.request = RefreshRequest]
    /\ UNCHANGED <<client, wire, socket, reader, working, shared, shown>>

(* close(), also from Drop: the flag, then the socket by its own handle.   *)
\* mutant
CloseLocksSession == reader # "reading"

CloseNeedsNoLock == TRUE

CloseBegins ==
    /\ client.step = "live" /\ ~shared.closed
    /\ shared' = [shared EXCEPT !.closed = TRUE]
    /\ UNCHANGED <<server, client, wire, socket, reader, working, shown>>

CloseShuts ==
    /\ shared.closed /\ socket = "open" /\ CloseNeedsNoLock
    /\ socket' = "shut"
    /\ UNCHANGED <<server, client, wire, reader, working, shared, shown>>

VncNext ==
    \/ VersionAnswered \/ NegotiateSecurity \/ AnswerChallenge
    \/ ReadSecurityResult \/ Initialise \/ HandshakeBreaks
    \/ ScreenChanges \/ ServerUpdates \/ ServerAside \/ NetworkBreaks
    \/ ReaderPublishes \/ ReaderPasses \/ ReadFails \/ ReaderEnds \/ ReaderSeesClose
    \/ TakeFrame \/ RefreshVideo \/ CloseBegins \/ CloseShuts

ReaderSteps == ReaderPublishes \/ ReaderPasses \/ ReadFails \/ ReaderEnds

(* The reader runs and a close that began shuts the socket; the server and *)
(* the frontend owe nothing.                                               *)
VncFairness == WF_vncVars(ReaderSteps) /\ WF_vncVars(CloseShuts)

VncSpec == VncInit /\ [][VncNext]_vncVars /\ VncFairness

(* With a server that answers every request and a frontend that takes      *)
(* every picture; nobody must press refresh.                               *)
VncStreamSpec == VncSpec /\ WF_vncVars(ServerUpdates) /\ WF_vncVars(TakeFrame)

-----------------------------------------------------------------------------
(* Properties                                                              *)

(* A user who gave a password is never connected without authentication    *)
(* because a 3.7 or 3.8 server also offered None, and a live session used  *)
(* a type the server offered.                                              *)
NoSilentDowngrade ==
    client.step = "live" =>
        /\ client.security \in server.offers
        /\ (client.secret /\ server.minor >= 7) => client.security = "vnc"
        /\ client.security = "vnc" => server.right

(* A failure is reported only when the connection or the stream broke: a   *)
(* close racing the reader's error is never shown as a failed session.     *)
ClosingIsNoFailure ==
    shared.failure => socket = "broken" \/ server.aside = "unsupported"

(* take_buffer hands out a cleared buffer, so a picture is complete only   *)
(* while every request asks for the whole screen: no part of a published   *)
(* picture is unpainted.                                                   *)
PictureIsWhole ==
    shared.picture # NoPicture => \A c \in Cells : shared.picture[c] # 0

(* The reader spends its life in a blocking read with the session lock     *)
(* held; closing ends it whether or not the server ever sends again.       *)
CloseEndsReader == (shared.closed /\ reader # "none") ~> reader \in {"done"}

(* "there is nothing to request beyond the continuous stream the reader    *)
(* already maintains" (session_next_rgba): while the session stays open    *)
(* the frontend comes to show every part of the screen as it is, or as it  *)
(* was later.                                                              *)
PictureFollowsScreen ==
    \A c \in Cells, n \in 1..(MaxChanges + 1) :
        (client.step = "live" /\ server.screen[c] = n)
        ~> \/ shared.closed \/ server.aside = "unsupported" \/ socket # "open"
           \/ (shown # NoPicture /\ shown[c] >= n)

(* A VNC session is no weaker than the user asked for, its pictures are    *)
(* whole, and closing it is not reported as a failure (vnc/mod.rs,         *)
(* vnc/live.rs).                                                           *)
VncIsSound == VncTypeOK /\ NoSilentDowngrade /\ PictureIsWhole /\ ClosingIsNoFailure
=============================================================================
