-------------------------------- MODULE Chat --------------------------------
(***************************************************************************)
(* The chat: the widget that every page of a signed-in user holds, the     *)
(* socket it keeps, the gateway's handlers and the messages they store.    *)
(* A room is joined and its history answered by one call, whose reading    *)
(* of the rows other calls interleave with; new messages are pushed to the *)
(* sockets in their room.  A link is lost with all that is on it and made  *)
(* again by the client library; what a handler awaits goes on meanwhile.   *)
(*                                                                         *)
(* A message is its number in the order of createdAt.  Whether a message   *)
(* is empty or too long, and whether the panel is open, is left out.       *)
(***************************************************************************)
EXTENDS Integers, Sequences, FiniteSets

CONSTANTS
    Clients,        \* widgets, each with its socket; others only send
    Rooms,          \* VALID_ROOMS
    FirstRoom,      \* the room of a widget that has just been mounted
    NoRoom,
    HistoryLimit,   \* messages in a history
    MaxSteps        \* bound: messages, choices, failures and disconnections together

ASSUME ChatAssumption ==
    /\ FirstRoom \in Rooms /\ NoRoom \notin Rooms
    /\ HistoryLimit \in Nat \ {0}
    /\ MaxSteps \in Nat

VARIABLES
    rows,       \* chat messages ever stored: [room, shown, asked]
    dropped,    \* the messages up to this one have been cleaned up
    sending,    \* stored messages whose handler has not pushed them yet
    joins,      \* join_room handlers that await their history
    sock,       \* the gateway's side of a socket: [rooms, room], room being client.data.room
    cooling,    \* the sockets that have sent in the last two seconds
    linked,     \* the clients whose socket is connected
    refused,    \*   and those whose token the gateway has refused
    up, down,   \* what is on its way to and from the gateway
    room,       \* the room a widget shows as chosen
    messages,   \*   and the messages it shows
    asked,      \* history: the room of the newest join a widget has emitted,
    latest,     \*   the number of that join,
    shows,      \*   the number of the join whose history it shows,
    blurred,    \*   the messages that were stored or pushed across that history,
    astray,     \*   and who never got, or no longer shows, the history of the newest join
    steps

stored  == <<rows, dropped, sending>>
gateway == <<joins, sock, cooling>>
link    == <<linked, refused, up, down>>
widget  == <<room, messages>>
seen    == <<asked, latest, shows, blurred, astray>>
chatVars == <<stored, gateway, link, widget, seen, steps>>

Ids       == 1 .. Len(rows)
Bounded   == steps < MaxSteps /\ steps' = steps + 1
Closed    == [rooms |-> {}, room |-> NoRoom]
JoinEvent(c) == [ev |-> "join", room |-> asked'[c], n |-> latest'[c]]
Tail1(q, c) == [q EXCEPT ![c] = Tail(@)]
Put(q, S, m) == [c \in Clients |-> IF c \in S THEN Append(q[c], m) ELSE q[c]]

\* What is on its way: the gateway gets joins and messages, a widget histories and messages.
Upward   == [ev : {"join"}, room : Rooms, n : Nat] \cup
            [ev : {"send"}, shown : Rooms, asked : Rooms]
Downward == [ev : {"history"}, n : Nat, history : Seq(Nat), blurred : SUBSET Nat] \cup
            [ev : {"new_message"}, id : Nat]
Handler  == [c : Clients, n : Nat, room : Rooms, read : BOOLEAN, history : Seq(Nat), upto : Nat]

ChatTypeOK ==
    /\ rows \in Seq([room : Rooms, shown : Rooms, asked : Rooms])
    /\ dropped \in 0 .. Len(rows) /\ sending \subseteq Ids
    /\ \A j \in joins : j \in Handler /\ j.c \in linked /\ j.n <= latest[j.c]
    /\ sock \in [Clients -> [rooms : SUBSET Rooms, room : Rooms \cup {NoRoom}]]
    /\ cooling \subseteq linked /\ linked \cap refused = {}
    /\ linked \cup refused \cup astray \subseteq Clients
    /\ up \in [Clients -> Seq(Upward)] /\ down \in [Clients -> Seq(Downward)]
    /\ room \in [Clients -> Rooms] /\ asked \in [Clients -> Rooms]
    /\ messages \in [Clients -> Seq(Nat)] /\ blurred \in [Clients -> SUBSET Nat]
    /\ latest \in [Clients -> Nat] /\ shows \in [Clients -> Nat]
    /\ steps \in 0 .. MaxSteps

ChatInit ==
    /\ rows = << >> /\ dropped = 0 /\ sending = {}
    /\ joins = {}
    /\ sock = [c \in Clients |-> Closed]
    /\ cooling = {} /\ linked = {} /\ refused = {}
    /\ up = [c \in Clients |-> << >>] /\ down = up
    /\ room = [c \in Clients |-> FirstRoom]
    /\ messages = [c \in Clients |-> << >>]
    /\ asked = room
    /\ latest = [c \in Clients |-> 0] /\ shows = latest
    /\ blurred = [c \in Clients |-> {}] /\ astray = {}
    /\ steps = 0

-----------------------------------------------------------------------------
\* The widget

\* A join is emitted: the gateway gets what a socket emits in order.
EmitJoin(c, r) ==
    /\ asked' = [asked EXCEPT ![c] = r]
    /\ latest' = [latest EXCEPT ![c] = @ + 1]
    /\ up' = Put(up, {c}, JoinEvent(c))
    /\ astray' = astray \ {c}
    /\ UNCHANGED <<shows, blurred>>

\* The handler of "connect" is the one of the mount: it knows the room of then.
Connect(c) ==
    /\ c \notin linked \cup refused
    /\ linked' = linked \cup {c}
    /\ EmitJoin(c, FirstRoom)
    /\ UNCHANGED <<stored, gateway, refused, down, widget, steps>>

\* The token has expired.  A socket that the gateway has disconnected stays so.
Refuse(c) ==
    /\ c \notin linked \cup refused
    /\ Bounded
    /\ refused' = refused \cup {c}
    /\ UNCHANGED <<stored, gateway, linked, up, down, widget, seen>>

\* A room is chosen.  Without a connection it is shown as chosen, and nothing else.
SwitchRoom(c, r) ==
    /\ r # room[c]
    /\ Bounded
    /\ room' = [room EXCEPT ![c] = r]
    /\ IF c \in linked
       THEN messages' = [messages EXCEPT ![c] = << >>] /\ EmitJoin(c, r)
       ELSE UNCHANGED <<messages, seen, up>>
    /\ UNCHANGED <<stored, gateway, linked, refused, down>>

\* Without a connection the input and its button are disabled.
CanSend(c) == c \in linked

\* Written and sent; the input is cleared whatever the gateway will answer.
HandleSend(c) ==
    /\ CanSend(c)
    /\ Bounded
    /\ up' = Put(up, {c}, [ev |-> "send", shown |-> room[c], asked |-> asked[c]])
    /\ UNCHANGED <<stored, gateway, linked, refused, down, widget, seen>>

ShowHistory(c) ==
    /\ down[c] # << >> /\ Head(down[c]).ev = "history"
    /\ messages' = [messages EXCEPT ![c] = Head(down[c]).history]
    /\ shows' = [shows EXCEPT ![c] = Head(down[c]).n]
    /\ blurred' = [blurred EXCEPT ![c] = Head(down[c]).blurred]
    /\ astray' = IF shows[c] = latest[c] THEN astray \cup {c} ELSE astray
    /\ down' = Tail1(down, c)
    /\ UNCHANGED <<stored, gateway, linked, refused, up, room, asked, latest, steps>>

\* Appended, whatever its room.
ShowMessage(c) ==
    /\ down[c] # << >> /\ Head(down[c]).ev = "new_message"
    /\ messages' = [messages EXCEPT ![c] = Append(@, Head(down[c]).id)]
    /\ down' = Tail1(down, c)
    /\ UNCHANGED <<stored, gateway, linked, refused, up, room, seen, steps>>

\* The gateway forgets the socket; its handlers' answers have nowhere to go.
Forget(c) ==
    /\ linked' = linked \ {c}
    /\ up' = [up EXCEPT ![c] = << >>]
    /\ down' = [down EXCEPT ![c] = << >>]
    /\ joins' = {j \in joins : j.c # c}
    /\ sock' = [sock EXCEPT ![c] = Closed]
    /\ cooling' = cooling \ {c}

Disconnect(c) ==
    /\ c \in linked
    /\ Bounded
    /\ Forget(c)
    /\ UNCHANGED <<stored, refused, widget, seen>>

\* Signing out unmounts the widget, signing in mounts another.
Remount(c) ==
    /\ Bounded
    /\ Forget(c)
    /\ refused' = refused \ {c}
    /\ room' = [room EXCEPT ![c] = FirstRoom]
    /\ messages' = [messages EXCEPT ![c] = << >>]
    /\ UNCHANGED <<stored, seen>>

-----------------------------------------------------------------------------
\* The gateway

\* Up to its await: the other rooms are left, the room is joined and remembered.
JoinTo(c, place, S) ==
    /\ up[c] # << >> /\ Head(up[c]).ev = "join"
    /\ sock' = [sock EXCEPT ![c] = place]
    /\ joins' = joins \cup {[c |-> c, n |-> Head(up[c]).n, room |-> Head(up[c]).room,
                             read |-> FALSE, history |-> << >>, upto |-> 0] : k \in S}
    /\ up' = Tail1(up, c)
    /\ UNCHANGED <<stored, cooling, linked, refused, down, widget, seen, steps>>

In(r) == [rooms |-> {r}, room |-> r]

\* Variant that does not leave the other rooms.
JoinRoomToo(c) ==
    JoinTo(c, [In(Head(up[c]).room) EXCEPT !.rooms = @ \cup sock[c].rooms], {1})

\* Variant that remembers the first room only.
JoinUnremembered(c) ==
    JoinTo(c, [In(Head(up[c]).room) EXCEPT !.room = IF sock[c].room = NoRoom THEN @ ELSE sock[c].room],
           {1})

\* Variant that does not answer a join while another of the socket is answered.
JoinUnlessBusy(c) == JoinTo(c, In(Head(up[c]).room), IF \E j \in joins : j.c = c THEN {} ELSE {1})

HandleJoinRoom(c) == JoinTo(c, In(Head(up[c]).room), {1})

Later(i) == {k \in Ids : k > i /\ rows[k].room = rows[i].room}

\* The latest messages of the room, the oldest of them first.
Latest(r) == {i \in Ids : i > dropped /\ rows[i].room = r /\ Cardinality(Later(i)) < HistoryLimit}
History(r) ==
    [k \in 1 .. Cardinality(Latest(r)) |->
        CHOOSE i \in Latest(r) : Cardinality({m \in Latest(r) : m <= i}) = k]

GetHistory(j) ==
    /\ j \in joins /\ ~j.read
    /\ joins' = (joins \ {j}) \cup
          {[j EXCEPT !.read = TRUE, !.history = History(j.room), !.upto = Len(rows)]}
    /\ UNCHANGED <<stored, sock, cooling, link, widget, seen, steps>>

\* Stored after the reading and pushed before the answer: wiped by the history.
\* Stored before the reading and not pushed yet: in the history, and pushed again.
Blurred(j) == {i \in Ids : rows[i].room = j.room /\ ((i \in sending) = (i <= j.upto))}

AnswerJoin(j) ==
    /\ j \in joins /\ j.read
    /\ joins' = joins \ {j}
    /\ down' = Put(down, {j.c}, [ev |-> "history", n |-> j.n, history |-> j.history,
                                 blurred |-> Blurred(j)])
    /\ UNCHANGED <<stored, sock, cooling, linked, refused, up, widget, seen, steps>>

\* The reading fails: the caller is never answered.
FailJoin(j) ==
    /\ j \in joins /\ ~j.read
    /\ Bounded
    /\ joins' = joins \ {j}
    /\ astray' = IF j.n = latest[j.c] THEN astray \cup {j.c} ELSE astray
    /\ UNCHANGED <<stored, sock, cooling, link, widget, asked, latest, shows, blurred>>

\* Refused: without a room, or within two seconds of the last.
RefuseMessage(c) ==
    /\ up[c] # << >> /\ Head(up[c]).ev = "send"
    /\ sock[c].room = NoRoom \/ c \in cooling
    /\ up' = Tail1(up, c)
    /\ UNCHANGED <<stored, gateway, linked, refused, down, widget, seen, steps>>

Accept(c) ==
    /\ up[c] # << >> /\ Head(up[c]).ev = "send"
    /\ sock[c].room # NoRoom /\ c \notin cooling
    /\ cooling' = cooling \cup {c}
    /\ up' = Tail1(up, c)
    /\ UNCHANGED <<dropped, joins, sock, linked, refused, down, widget, seen>>

SaveMessage(c) ==
    /\ Accept(c)
    /\ rows' = Append(rows, [room |-> sock[c].room, shown |-> Head(up[c]).shown,
                             asked |-> Head(up[c]).asked])
    /\ sending' = sending \cup {Len(rows')}
    /\ UNCHANGED steps

\* Not stored: the message is lost, for its input has been cleared.
FailMessage(c) ==
    /\ Accept(c)
    /\ Bounded
    /\ UNCHANGED <<rows, sending>>

\* Somebody whose socket is not one of these is sending.
SaveOther(r) ==
    /\ Bounded
    /\ rows' = Append(rows, [room |-> r, shown |-> r, asked |-> r])
    /\ sending' = sending \cup {Len(rows')}
    /\ UNCHANGED <<dropped, gateway, link, widget, seen>>

PushMessage(i) ==
    /\ i \in sending
    /\ sending' = sending \ {i}
    /\ down' = Put(down, {c \in Clients : rows[i].room \in sock[c].rooms},
                   [ev |-> "new_message", id |-> i])
    /\ UNCHANGED <<rows, dropped, gateway, linked, refused, up, widget, seen, steps>>

TwoSecondsPass(c) ==
    /\ c \in cooling
    /\ cooling' = cooling \ {c}
    /\ UNCHANGED <<stored, joins, sock, link, widget, seen, steps>>

\* Messages that are being handled are no fourteen days old.
CleanupOldMessages ==
    /\ Bounded
    /\ \E d \in dropped + 1 .. Len(rows) :
          /\ \A i \in sending : d < i
          /\ dropped' = d
    /\ UNCHANGED <<rows, sending, gateway, link, widget, seen>>

-----------------------------------------------------------------------------
ChatNext ==
    \/ \E c \in Clients :
          \/ Connect(c) \/ Refuse(c) \/ HandleSend(c) \/ ShowHistory(c) \/ ShowMessage(c)
          \/ Disconnect(c) \/ Remount(c) \/ (\E r \in Rooms : SwitchRoom(c, r))
          \/ HandleJoinRoom(c) \/ RefuseMessage(c) \/ SaveMessage(c) \/ FailMessage(c)
          \/ TwoSecondsPass(c)
    \/ \E j \in joins : GetHistory(j) \/ AnswerJoin(j) \/ FailJoin(j)
    \/ \E i \in sending : PushMessage(i)
    \/ (\E r \in Rooms : SaveOther(r))
    \/ CleanupOldMessages

ChatSpec == ChatInit /\ [][ChatNext]_chatVars

\* The client library connects again, the network delivers and handlers return.
\* A query that is made is answered, or fails, in the end; users promise nothing.
ChatFairness ==
    /\ \A c \in Clients :
          /\ WF_chatVars(Connect(c)) /\ WF_chatVars(ShowHistory(c)) /\ WF_chatVars(ShowMessage(c))
          /\ WF_chatVars(HandleJoinRoom(c))
          /\ WF_chatVars(RefuseMessage(c) \/ SaveMessage(c) \/ FailMessage(c))
    /\ WF_chatVars(\E j \in joins : GetHistory(j))
    /\ WF_chatVars(\E j \in joins : AnswerJoin(j))
    /\ WF_chatVars(\E i \in sending : PushMessage(i))

ChatFairSpec == ChatSpec /\ ChatFairness

-----------------------------------------------------------------------------
\* Properties

\* A message is stored in the room its sender saw chosen (ChatWidget.tsx:201),
\* however soon after the choice it is sent, if the widget had asked for that room:
\* it has not when the choice was made, or the socket connected again, since.
SentWhereShown ==
    \A i \in Ids : rows[i].shown = rows[i].asked => rows[i].room = rows[i].shown

\* Nothing is on its way to the widget, or in a handler that would push it there.
Quiet(c) == up[c] = << >> /\ down[c] = << >> /\ sending = {} /\ \A j \in joins : j.c # c

\* Where a widget shows a message.
Places(h, i) == {k \in 1 .. Len(h) : h[k] = i}

\* A widget that shows the history of its newest join shows only messages of that
\* room, and each of them once or, when it is old enough for the limit or the
\* cleanup, not at all; but for those stored or pushed across the reading.
ShowsTheRoom ==
    \A c \in linked : Quiet(c) /\ shows[c] = latest[c] =>
        /\ \A k \in 1 .. Len(messages[c]) : rows[messages[c][k]].room = asked[c]
        /\ \A i \in Ids \ blurred[c] : rows[i].room = asked[c] =>
              \/ Cardinality(Places(messages[c], i)) = 1
              \/ /\ Places(messages[c], i) = {}
                 /\ i <= dropped \/ Cardinality(Later(i)) >= HistoryLimit

\* A join is answered, unless its reading fails, it is overtaken or the link is lost.
HistoryComes ==
    \A c \in Clients :
        (c \in linked /\ shows[c] # latest[c]) ~>
            (shows[c] = latest[c] \/ c \in astray \/ c \notin linked)
=============================================================================
