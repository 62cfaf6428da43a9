------------------------------- MODULE LiveView -------------------------------
(***************************************************************************)
(* One browser that looks at an issue, and the way a change reaches it.    *)
(* The API process announces a change on its own event bus, to which the   *)
(* sockets listen, and what the bridge publishes goes through Redis too; a *)
(* worker reaches the sockets through Redis alone (ciEventBridge.js,       *)
(* socket/index.js).  The browser must be in the room of the project; each *)
(* event makes the page fetch the delivery state again                     *)
(* (AppLayout.jsx, IssueDetailPage.jsx).  The activity of the issue is     *)
(* fetched beside it in the same way and is not told apart.                *)
(***************************************************************************)
EXTENDS Naturals, Sequences, SequencesExt

CONSTANTS
    MaxChanges,     \* bound: changes of what the page shows
    MaxHarms,       \* bound: faults, and visits that end
    MaxVisits       \* bound: how often the page is opened

VARIABLES
    member,     \* whether the user has a ProjectMember document, and is admin
    server,     \* version in the database, and the process still to announce it
    channel,    \* messages in the Redis channel
    socket,     \* connected; in the room; joins sent, asked, granted
    wire,       \* events on their way to the browser
    page,       \* open; what it shows; visits
    load,       \* the first fetch: of the issue, and of the delivery state
    asks,       \* fetches of the delivery state since, in the order they were made
    harm        \* history: whether something was lost, overtaken or left

viewVars == <<member, server, channel, socket, wire, page, load, asks, harm>>

Origins == {"issue", "api", "worker"}
Versions == 1..(MaxChanges + 1)
Asked == 0          \* a fetch without its answer
NoPage == 0         \* a page that shows nothing yet

ViewTypeOK ==
    /\ member \in [is : BOOLEAN, admin : BOOLEAN]
    /\ server \in [version : Versions, tell : Origins \cup {"none"}]
    /\ channel \in Seq(Versions)
    /\ socket \in [connected : BOOLEAN, room : BOOLEAN, sent : Seq({"join", "leave"}),
                   asked : 0..(2 * MaxVisits), granted : 0..(2 * MaxVisits)]
    /\ wire \in Seq(Versions)
    /\ page \in [open : BOOLEAN, issue : Versions \cup {NoPage},
                 delivery : Versions \cup {NoPage}, visits : 0..MaxVisits]
    /\ load \in [on : BOOLEAN, issue : Versions \cup {Asked}, delivery : Versions \cup {Asked}]
    /\ asks \in Seq(Versions \cup {Asked})
    /\ harm \in 0..MaxHarms

NotLoaded == [on |-> FALSE, issue |-> Asked, delivery |-> Asked]

ViewInit ==
    /\ member \in [is : BOOLEAN, admin : BOOLEAN]
    /\ server = [version |-> 1, tell |-> "none"]
    /\ channel = <<>>
    /\ socket = [connected |-> TRUE, room |-> FALSE, sent |-> <<>>, asked |-> 0, granted |-> 0]
    /\ wire = <<>>
    /\ page = [open |-> FALSE, issue |-> NoPage, delivery |-> NoPage, visits |-> 0]
    /\ load = NotLoaded
    /\ asks = <<>>
    /\ harm = 0

Harm == harm < MaxHarms /\ harm' = harm + 1
Harmed == harm > 0

-----------------------------------------------------------------------------
(***************************************************************************)
(* Membership, and changes of what the page shows.                         *)
(***************************************************************************)

AddMember ==
    /\ ~member.is
    /\ member' = [member EXCEPT !.is = TRUE]
    /\ UNCHANGED <<server, channel, socket, wire, page, load, asks, harm>>

RemoveMember ==
    /\ member.is
    /\ Harm
    /\ member' = [member EXCEPT !.is = FALSE]
    /\ UNCHANGED <<server, channel, socket, wire, page, load, asks>>

\* The database is written first, the event follows.
Change(o) ==
    /\ server.tell = "none" /\ server.version <= MaxChanges
    /\ server' = [version |-> server.version + 1, tell |-> o]
    /\ UNCHANGED <<member, channel, socket, wire, page, load, asks, harm>>

\* io.to(room).emit.
Broadcast(v) == wire' = IF socket.connected /\ socket.room THEN Append(wire, v) ELSE wire

\* setupEventBroadcasts hears the event bus of the API process only.
Announce ==
    /\ server.tell # "none"
    /\ server' = [server EXCEPT !.tell = "none"]
    /\ IF server.tell = "worker" THEN UNCHANGED wire ELSE Broadcast(server.version)
    /\ channel' = IF server.tell = "issue" THEN channel ELSE Append(channel, server.version)
    /\ UNCHANGED <<member, socket, page, load, asks, harm>>

\* The process dies in between, or Redis refuses the message.
AnnounceFails ==
    /\ server.tell # "none"
    /\ Harm
    /\ server' = [server EXCEPT !.tell = "none"]
    /\ \/ server.tell = "api" /\ Broadcast(server.version)
       \/ UNCHANGED wire
    /\ UNCHANGED <<member, channel, socket, page, load, asks>>

\* Mutant: every message is left to the event bus, where it is skipped.
HandleIncomingQuietly ==
    /\ channel # <<>>
    /\ channel' = Tail(channel)
    /\ UNCHANGED <<member, server, socket, wire, page, load, asks, harm>>

\* The broadcast to the room; the event goes to the bus as well, marked
\* fromRedis, so that setupEventBroadcasts does not send it again.
HandleIncomingRedisMessage ==
    /\ channel # <<>>
    /\ channel' = Tail(channel)
    /\ Broadcast(Head(channel))
    /\ UNCHANGED <<member, server, socket, page, load, asks, harm>>

\* Pub/Sub keeps nothing for a subscriber that is away.
RedisLoses ==
    /\ channel # <<>>
    /\ Harm
    /\ channel' = Tail(channel)
    /\ UNCHANGED <<member, server, socket, wire, page, load, asks>>

-----------------------------------------------------------------------------
(***************************************************************************)
(* The socket.  A join waits for the database, a leave does not.           *)
(***************************************************************************)

ReceiveJoin ==
    /\ socket.connected /\ socket.sent # <<>> /\ Head(socket.sent) = "join"
    /\ socket' = [socket EXCEPT !.sent = Tail(@), !.asked = @ + 1]
    /\ UNCHANGED <<member, server, channel, wire, page, load, asks, harm>>

ReceiveLeave ==
    /\ socket.connected /\ socket.sent # <<>> /\ Head(socket.sent) = "leave"
    /\ socket' = [socket EXCEPT !.sent = Tail(@), !.room = FALSE]
    /\ UNCHANGED <<member, server, channel, wire, page, load, asks, harm>>

CheckMembership ==
    /\ socket.asked > 0
    /\ IF member.is \/ member.admin
         THEN socket' = [socket EXCEPT !.asked = @ - 1, !.granted = @ + 1]
         ELSE socket' = [socket EXCEPT !.asked = @ - 1]
    /\ UNCHANGED <<member, server, channel, wire, page, load, asks, harm>>

JoinRoom ==
    /\ socket.granted > 0
    /\ socket' = [socket EXCEPT !.granted = @ - 1, !.room = socket.connected]
    /\ UNCHANGED <<member, server, channel, wire, page, load, asks, harm>>

\* The rooms of a connection are lost with it, and nobody joins them again.
SocketDrops ==
    /\ socket.connected
    /\ Harm
    /\ socket' = [socket EXCEPT !.connected = FALSE, !.room = FALSE,
                                !.asked = 0, !.granted = 0]
    /\ wire' = <<>>
    /\ UNCHANGED <<member, server, channel, page, load, asks>>

SocketReconnects ==
    /\ ~socket.connected
    /\ socket' = [socket EXCEPT !.connected = TRUE]
    /\ UNCHANGED <<member, server, channel, wire, page, load, asks, harm>>

-----------------------------------------------------------------------------
(***************************************************************************)
(* The page.                                                               *)
(***************************************************************************)

Send(what) == socket' = [socket EXCEPT !.sent = Append(@, what)]

\* The page joins the room and loads; the layout joins again when it has the
\* project, which adds nothing to a room the socket is in.
OpenPage ==
    /\ ~page.open /\ page.visits < MaxVisits
    /\ page' = [open |-> TRUE, issue |-> NoPage, delivery |-> NoPage, visits |-> page.visits + 1]
    /\ load' = [NotLoaded EXCEPT !.on = TRUE]
    /\ Send("join")
    /\ UNCHANGED <<member, server, channel, wire, asks, harm>>

\* Answers that still come change nothing once the page is gone.
ClosePage ==
    /\ page.open
    /\ Harm
    /\ page' = [page EXCEPT !.open = FALSE, !.issue = NoPage, !.delivery = NoPage]
    /\ load' = NotLoaded
    /\ asks' = <<>>
    /\ Send("leave")
    /\ UNCHANGED <<member, server, channel, wire>>

\* handleRealtimeUpdate: the delivery state is fetched again, the issue is not.
HandleRealtimeUpdate ==
    /\ wire # <<>>
    /\ wire' = Tail(wire)
    /\ asks' = IF page.open THEN Append(asks, Asked) ELSE asks
    /\ UNCHANGED <<member, server, channel, socket, page, load, harm>>

\* projectAccess and the reads of the API.
Readable == member.is \/ member.admin

AnswerLoad ==
    /\ Readable
    /\ load.on
    /\ \E part \in {"issue", "delivery"} :
          /\ load[part] = Asked
          /\ load' = [load EXCEPT ![part] = server.version]
    /\ UNCHANGED <<member, server, channel, socket, wire, page, asks, harm>>

\* Promise.all: both answers are shown when both are there.  An answer to a
\* later question may be there already, and is overwritten.
ShowLoad ==
    /\ load.issue # Asked /\ load.delivery # Asked
    /\ page' = [page EXCEPT !.issue = load.issue, !.delivery = load.delivery]
    /\ load' = NotLoaded
    /\ IF page.delivery # NoPage THEN Harm ELSE UNCHANGED harm
    /\ UNCHANGED <<member, server, channel, socket, wire, asks>>

AnswerAsk ==
    /\ Readable
    /\ \E i \in DOMAIN asks :
          /\ asks[i] = Asked
          /\ asks' = [asks EXCEPT ![i] = server.version]
    /\ UNCHANGED <<member, server, channel, socket, wire, page, load, harm>>

\* An answer that comes before that of an earlier question is shown, and the
\* earlier one after it.
ShowAsk ==
    /\ \E i \in DOMAIN asks :
          /\ asks[i] # Asked
          /\ page' = [page EXCEPT !.delivery = asks[i]]
          /\ asks' = RemoveAt(asks, i)
          /\ IF i # 1 THEN Harm ELSE UNCHANGED harm
    /\ UNCHANGED <<member, server, channel, socket, wire, load>>

\* The request is refused, fails or is lost; the page keeps what it shows.
FetchFails ==
    /\ Harm
    /\ \/ /\ load.on
          /\ load' = NotLoaded
          /\ UNCHANGED asks
       \/ /\ \E i \in DOMAIN asks : asks' = RemoveAt(asks, i)
          /\ UNCHANGED load
    /\ UNCHANGED <<member, server, channel, socket, wire, page>>

Deliver ==
    \/ Announce \/ HandleIncomingRedisMessage \/ ReceiveJoin \/ ReceiveLeave
    \/ CheckMembership \/ JoinRoom \/ SocketReconnects \/ HandleRealtimeUpdate
    \/ AnswerLoad \/ ShowLoad \/ AnswerAsk \/ ShowAsk

ViewNext ==
    \/ Deliver
    \/ AddMember \/ RemoveMember
    \/ \E o \in Origins : Change(o)
    \/ AnnounceFails \/ RedisLoses \/ SocketDrops \/ OpenPage \/ ClosePage \/ FetchFails

\* Processes and networks go on with what they hold.
ViewFairness ==
    /\ WF_viewVars(Announce) /\ WF_viewVars(HandleIncomingRedisMessage)
    /\ WF_viewVars(HandleRealtimeUpdate)
    /\ WF_viewVars(AnswerLoad) /\ WF_viewVars(ShowLoad)
    /\ WF_viewVars(AnswerAsk) /\ WF_viewVars(ShowAsk)

-----------------------------------------------------------------------------
(***************************************************************************)
(* Properties.                                                             *)
(***************************************************************************)

\* A page that is open in the room when a change is made comes to show the
\* newest delivery state, whichever process made the change and whichever of
\* its fetches are still under way, unless something is lost, overtaken or left.
ViewCatchesUp ==
    (page.open /\ socket.room /\ server.tell # "none")
        ~> (page.delivery = server.version \/ Harmed)
=============================================================================
