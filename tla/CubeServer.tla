----------------------------- MODULE CubeServer -----------------------------
(***************************************************************************)
(* The application of muduo/example/main.cpp: CubeServer with its Coder.   *)
(* Clients send frames, TCP cuts them anywhere, and onMessage puts each    *)
(* piece in buffer_, decodes the frames that are complete and sends each   *)
(* body back to the connection it was called for.                          *)
(*                                                                         *)
(* There is one buffer_ and one timerId_ for all connections.  The         *)
(* callbacks run one at a time, as with one sub-reactor; with several they *)
(* would also race.  buffer_ is the queue of bytes that module             *)
(* SimpleBuffer implements.                                                *)
(*                                                                         *)
(* A frame is a type unit, a length unit and its body; a unit is           *)
(* <<client, frame, place, length of the frame>>.  A unit of a body read   *)
(* as a type is not 2, and read as a length is greater than what is there: *)
(* both stop the decoder.  Shifting the bytes and the times are left out.  *)
(***************************************************************************)
EXTENDS Integers, Sequences

CONSTANTS
  Clients, NoClient,
  BodySizes,        \* sizes of the frames' bodies
  MaxFrames,        \* bound: frames of a client
  Orderly           \* connections follow one another, each ends between frames

ASSUME CubeServerAssumption ==
  /\ NoClient \notin Clients
  /\ BodySizes \subseteq Nat \ {0} /\ MaxFrames \in Nat
  /\ Orderly \in BOOLEAN

VARIABLES
  conns, gone,      \* clients connected, clients that were
  stream,           \* stream[c]: units on their way from c
  frames,           \* frames[c]: the body sizes of c's frames
  buffer_,
  handling,         \* the client onMessage runs for, or NoClient
  replies,          \* replies[c]: the bodies sent to c
  heartbeats,       \* timers: pairs of an id and a client
  timerId_

cubeVars == <<conns, gone, stream, frames, buffer_, handling, replies, heartbeats, timerId_>>
streamVars == <<stream, frames, buffer_, handling, replies>>

kHeaderLen == 2

(* encoder: the length counts the header *)
encoder(c, k, body) == [i \in 1..(kHeaderLen + body) |-> <<c, k, i, kHeaderLen + body>>]

CubeInit ==
  /\ conns = {} /\ gone = {}
  /\ stream = [c \in Clients |-> <<>>] /\ frames = [c \in Clients |-> <<>>]
  /\ buffer_ = <<>> /\ handling = NoClient
  /\ replies = [c \in Clients |-> <<>>]
  /\ heartbeats = {} /\ timerId_ = 0

(* The frames of c that have been delivered to their last unit: those before *)
(* the frame of the first unit still on its way.                           *)
whole(c) == IF stream[c] = <<>> THEN Len(frames[c]) ELSE Head(stream[c])[2] - 1

-----------------------------------------------------------------------------
(* onAccepted: a recurring timer, whose id replaces the last one *)
onAccepted(c) ==
  /\ handling = NoClient /\ c \notin conns \cup gone
  /\ Orderly => conns = {}
  /\ conns' = conns \cup {c}
  /\ timerId_' = timerId_ + 1
  /\ heartbeats' = heartbeats \cup {<<timerId_', c>>}
  /\ UNCHANGED <<gone, streamVars>>

(* onDisconnected: the timer timerId_ names, if it is there *)
onDisconnected(c) ==
  /\ handling = NoClient /\ c \in conns
  /\ Orderly => whole(c) = Len(frames[c])
  /\ conns' = conns \ {c} /\ gone' = gone \cup {c}
  /\ heartbeats' = {h \in heartbeats : h[1] # timerId_}
  /\ UNCHANGED <<timerId_, streamVars>>

(* external: client_run sends another frame *)
ClientSends(c) ==
  /\ c \in conns /\ Len(frames[c]) < MaxFrames
  /\ \E body \in BodySizes :
        /\ frames' = [frames EXCEPT ![c] = Append(@, body)]
        /\ stream' = [stream EXCEPT ![c] = @ \o encoder(c, Len(frames[c]) + 1, body)]
  /\ UNCHANGED <<conns, gone, buffer_, handling, replies, heartbeats, timerId_>>

-----------------------------------------------------------------------------
(* onMessage with the next n units of c: they are written to buffer_ *)
onMessage(c, n) ==
  /\ handling = NoClient /\ c \in conns
  /\ buffer_' = buffer_ \o SubSeq(stream[c], 1, n)
  /\ stream' = [stream EXCEPT ![c] = SubSeq(@, n + 1, Len(@))]
  /\ handling' = c
  /\ UNCHANGED <<conns, gone, frames, replies, heartbeats, timerId_>>

(* Bug: a frame that ends with the buffer is taken for incomplete. *)
Complete_OneMore(b) ==
  Len(b) >= kHeaderLen /\ b[1][3] = 1 /\ b[2][3] = 2 /\ Len(b) > b[2][4]

(* decode: a header of type 2, and as many units as its length says *)
Complete(b) ==
  Len(b) >= kHeaderLen /\ b[1][3] = 1 /\ b[2][3] = 2 /\ Len(b) >= b[2][4]

(* The loop of onMessage: a frame is decoded, its body sent back to the       *)
(* connection the call is for, and both are taken from buffer_.             *)
Answer ==
  /\ handling # NoClient /\ Complete(buffer_)
  /\ LET len == buffer_[2][4] IN
     /\ replies' = [replies EXCEPT ![handling] = Append(@, SubSeq(buffer_, kHeaderLen + 1, len))]
     /\ buffer_' = SubSeq(buffer_, len + 1, Len(buffer_))
  /\ UNCHANGED <<conns, gone, stream, frames, handling, heartbeats, timerId_>>

onMessageReturn ==
  /\ handling # NoClient /\ ~Complete(buffer_)
  /\ handling' = NoClient
  /\ UNCHANGED <<conns, gone, stream, frames, buffer_, replies, heartbeats, timerId_>>

CubeNext ==
  \/ \E c \in Clients : onAccepted(c) \/ onDisconnected(c) \/ ClientSends(c)
                          \/ \E n \in 1..Len(stream[c]) : onMessage(c, n)
  \/ Answer \/ onMessageReturn

CubeSpec == CubeInit /\ [][CubeNext]_cubeVars

-----------------------------------------------------------------------------
(* Properties.                                                             *)

(* Wherever TCP cuts the stream, a frame is answered as soon as its last     *)
(* unit has been handled: once, in order, with its own body and to its own   *)
(* client ("connection's private buffer", example/main.cpp:174).            *)
FramesAnswered ==
  handling = NoClient =>
    \A c \in Clients :
      replies[c] = [k \in 1..whole(c) |->
                      SubSeq(encoder(c, k, frames[c][k]), kHeaderLen + 1, kHeaderLen + frames[c][k])]

(* There is a heartbeat for each open connection and none for a closed one,  *)
(* which its callback would keep alive.                                     *)
OwnHeartbeat == {h[2] : h \in heartbeats} = conns
=============================================================================
