------------------------- MODULE EncryptedChannel -------------------------
(* The frames of one client between its end-to-end encrypted channel, the    *)
(* relay worker and the data sockets the daemon opens for it, one after      *)
(* another.                                                                  *)
(*   relay/encrypted-channel.ts, relay/cloudflare-adapter.ts                 *)
(*   server/relay-transport.ts, client/daemon-client-relay-e2ee-transport.ts *)
(* The client's key makes one shared key with the daemon's static key, so    *)
(* what tells the channels of its data sockets apart is their salt, which is *)
(* the socket. A client sends only after its channel has opened (its         *)
(* transport's open event), so pendingSends is empty and left out.           *)
EXTENDS Naturals, Sequences

CONSTANTS Sockets,   \* data sockets the daemon opens, at most
          Messages,  \* messages the client sends, at most
          Replies,   \* messages the daemon sends on a socket, at most
          Buffer,    \* length of pendingFrames (200)
          Flight,    \* bound: frames on a connection
          Faults     \* bound: data sockets that break

ASSUME ChannelAssumption ==
  /\ Sockets \in Nat \ {0} /\ Messages \in Nat /\ Replies \in Nat
  /\ Buffer \in Nat \ {0} /\ Flight \in Nat \ {0} /\ Faults \in Nat

VARIABLES cl,      \* the client's channel; leaving: it has closed its transport
          sent,    \* messages the client has sent
          recv,    \* the salt the client has locked and the last message it delivered
          up, down,\* frames between client and worker
          wc,      \* the client's socket at the worker
          buf,     \* pendingFrames
          sock,    \* data sockets: both ends, handshake, last message delivered, sent
          in, out, \* frames to and from the daemon on a data socket
          faults

vars == <<cl, sent, recv, up, down, wc, buf, sock, in, out, faults>>

Hello == 0    \* a frame of the client: hello, or its k-th message
Ready == 0    \* a frame of a data socket: ready, or its k-th message
None == [salt |-> 0, last |-> 0]
N == 1..Sockets

(* Type correctness. *)
TypeOK ==
  /\ cl \in {"handshaking", "open", "leaving", "closed"} /\ sent \in 0..Messages
  /\ recv \in [salt : 0..Sockets, last : 0..Replies]
  /\ up \in Seq(0..Messages) /\ Len(up) <= Flight
  /\ down \in Seq([salt : N, frame : 0..Replies])
  /\ wc \in {"open", "closing", "gone"}
  /\ buf \in Seq(0..Messages) /\ Len(buf) <= Buffer
  /\ sock \in [N -> [d : {"none", "connecting", "open", "closing", "closed"},
                     w : {"none", "asked", "open", "closing", "gone"},
                     shake : {"hello", "open", "failed"},
                     last : 0..Messages, sent : 0..Replies]]
  /\ in \in [N -> Seq(0..Messages)] /\ out \in [N -> Seq(0..Replies)]
  /\ faults \in 0..Faults

Fresh == [d |-> "none", w |-> "none", shake |-> "hello", last |-> 0, sent |-> 0]

(* The client's transport has opened: createClientChannel sends hello. *)
Init ==
  /\ cl = "handshaking" /\ sent = 0 /\ recv = None
  /\ up = <<Hello>> /\ down = <<>> /\ wc = "open" /\ buf = <<>>
  /\ sock = [n \in N |-> Fresh]
  /\ in = [n \in N |-> <<>>] /\ out = [n \in N |-> <<>>] /\ faults = Faults

client == <<cl, sent, recv>>
links == <<up, down>>
queues == <<in, out>>

-----------------------------------------------------------------------------
(* The client. *)
(* Mutant: the retry is not cleared when the channel opens. *)
Retries_Always == cl \in {"handshaking", "open"}

Retries == cl = "handshaking"

(* HANDSHAKE_RETRY_MS: until the channel is open. *)
SendHello ==
  /\ Retries /\ wc = "open" /\ Len(up) < Flight
  /\ up' = Append(up, Hello)
  /\ UNCHANGED <<client, down, wc, buf, sock, queues, faults>>

Send ==
  /\ cl = "open" /\ sent < Messages /\ Len(up) < Flight
  /\ sent' = sent + 1 /\ up' = Append(up, sent + 1)
  /\ UNCHANGED <<cl, recv, down, wc, buf, sock, queues, faults>>

(* Mutant: the salt is not compared. *)
Accepts_AnySalt(f) == recv = None \/ f.frame > recv.last

(* enforceReplayProtection: the first frame locks the salt. *)
Accepts(f) == recv = None \/ (f.salt = recv.salt /\ f.frame > recv.last)

(* A frame that is refused closes the transport; a browser throws on that    *)
(* code, the error is ignored and the channel goes on. Until its close event *)
(* the channel delivers what arrives.                                        *)
Receive ==
  /\ down # <<>> /\ cl # "closed" /\ down' = Tail(down)
  /\ LET f == Head(down)
     IN  CASE f.frame = Ready -> cl' = (IF cl = "handshaking" THEN "open" ELSE cl)
                                 /\ UNCHANGED recv
           [] f.frame # Ready /\ cl = "handshaking" -> UNCHANGED <<cl, recv>>
           [] f.frame # Ready /\ cl # "handshaking" /\ Accepts(f) ->
                recv' = [salt |-> f.salt, last |-> f.frame] /\ UNCHANGED cl
           [] OTHER -> cl' \in {cl, "leaving"} /\ UNCHANGED recv
  /\ UNCHANGED <<sent, up, wc, buf, sock, queues, faults>>

(* The application closes it, the transport breaks, or its close event comes. *)
ClientCloses ==
  /\ cl # "closed" /\ cl' = "closed" /\ down' = <<>>
  /\ UNCHANGED <<sent, recv, up, wc, buf, sock, queues, faults>>

-----------------------------------------------------------------------------
(* The worker. *)
Listed(end) == end \in {"open", "closing"}
Shut(S) == [n \in N |-> IF n \in S /\ sock[n].w = "open" THEN [sock[n] EXCEPT !.w = "closing"]
                        ELSE sock[n]]

(* bufferFrame: the newest frames are kept. *)
Buffered(f) == IF Len(buf) < Buffer THEN Append(buf, f) ELSE Append(Tail(buf), f)

FromClient ==
  /\ up # <<>> /\ wc # "gone" /\ up' = Tail(up)
  /\ LET targets == {n \in N : sock[n].w = "open"}
     IN  /\ \A n \in targets : Len(in[n]) < Flight
         /\ in' = [n \in N |-> IF n \in targets THEN Append(in[n], Head(up)) ELSE in[n]]
  /\ buf' = IF \E n \in N : Listed(sock[n].w) THEN buf ELSE Buffered(Head(up))
  /\ UNCHANGED <<client, down, wc, sock, out, faults>>

FromDaemon(n) ==
  /\ out[n] # <<>> /\ Listed(sock[n].w) /\ Len(down) < Flight
  /\ out' = [out EXCEPT ![n] = Tail(@)]
  /\ down' = IF wc = "open" /\ cl # "closed"
             THEN Append(down, [salt |-> n, frame |-> Head(out[n])]) ELSE down
  /\ UNCHANGED <<client, up, wc, buf, sock, in, faults>>

(* Replaces the older sockets, and gets what was kept. *)
Accept(n) ==
  /\ sock[n].w = "asked"
  /\ sock' = [Shut(N \ {n}) EXCEPT ![n].w = "open"]
  /\ in' = [in EXCEPT ![n] = buf] /\ buf' = <<>>
  /\ UNCHANGED <<client, links, wc, out, faults>>

ClientGone ==
  /\ cl = "closed" /\ wc # "gone" /\ wc' = "gone" /\ up' = <<>> /\ buf' = <<>>
  /\ sock' = Shut(N)
  /\ UNCHANGED <<client, down, queues, faults>>

(* Mutant: the clients of a data socket that ended keep their sockets. *)
Kicked_Never == wc

Kicked == IF wc = "open" THEN "closing" ELSE wc

DataGone(n) ==
  /\ sock[n].d \in {"closing", "closed"} /\ sock[n].w \in {"asked", "open", "closing"}
  /\ sock' = [sock EXCEPT ![n].w = "gone"] /\ out' = [out EXCEPT ![n] = <<>>]
  /\ wc' = IF sock[n].w = "asked" THEN wc ELSE Kicked
  /\ UNCHANGED <<client, links, buf, in, faults>>

-----------------------------------------------------------------------------
(* The daemon: one socket at a time, as the control socket asks. *)
Live(n) == sock[n].d \in {"connecting", "open", "closing"}

Dial ==
  /\ wc # "gone" /\ \A n \in N : ~Live(n)
  /\ \E n \in N :
       /\ sock[n].d = "none" /\ \A m \in 1..(n - 1) : sock[m].d # "none"
       /\ sock' = [sock EXCEPT ![n].d = "connecting", ![n].w = "asked"]
  /\ UNCHANGED <<client, links, wc, buf, queues, faults>>

Opens(n) ==
  /\ sock[n].d = "connecting" /\ Listed(sock[n].w)
  /\ sock' = [sock EXCEPT ![n].d = "open"]
  /\ UNCHANGED <<client, links, wc, buf, queues, faults>>

Reply(n) == out' = [out EXCEPT ![n] = Append(@, Ready)]

(* createDaemonChannel: the first frame must be hello. *)
Handshake(n) ==
  LET first == Head(in[n])
  IN  /\ sock[n].shake = "hello"
      /\ sock' = IF first = Hello THEN [sock EXCEPT ![n].shake = "open"]
                 ELSE [sock EXCEPT ![n].shake = "failed", ![n].d = "closing"]
      /\ IF first = Hello /\ sock[n].d = "open" THEN Reply(n) ELSE UNCHANGED out

(* A repeated hello is answered by ready, without a new key; a message is   *)
(* delivered when its number is above the last, and is fatal otherwise.      *)
Deliver(n) ==
  LET frame == Head(in[n])
  IN  /\ sock[n].shake = "open"
      /\ sock' = CASE frame = Hello -> sock
                   [] frame > sock[n].last -> [sock EXCEPT ![n].last = frame]
                   [] OTHER -> [sock EXCEPT ![n].d = "closing"]
      /\ IF frame = Hello /\ sock[n].d = "open" THEN Reply(n) ELSE UNCHANGED out

Ignore(n) == sock[n].shake = "failed" /\ UNCHANGED <<sock, out>>

DaemonReceives(n) ==
  /\ in[n] # <<>> /\ sock[n].d \in {"open", "closing"} /\ Len(out[n]) < Flight
  /\ in' = [in EXCEPT ![n] = Tail(@)]
  /\ Handshake(n) \/ Deliver(n) \/ Ignore(n)
  /\ UNCHANGED <<client, links, wc, buf, faults>>

DaemonSends(n) ==
  /\ sock[n].shake = "open" /\ sock[n].d = "open" /\ sock[n].sent < Replies
  /\ Len(out[n]) < Flight
  /\ sock' = [sock EXCEPT ![n].sent = @ + 1]
  /\ out' = [out EXCEPT ![n] = Append(@, sock[n].sent + 1)]
  /\ UNCHANGED <<client, links, wc, buf, in, faults>>

DataClosed(n) ==
  /\ sock[n].d = "closing" \/ (sock[n].d = "open" /\ sock[n].w = "closing" /\ in[n] = <<>>)
  /\ sock' = [sock EXCEPT ![n].d = "closed"] /\ in' = [in EXCEPT ![n] = <<>>]
  /\ UNCHANGED <<client, links, wc, buf, out, faults>>

Break(n) ==
  /\ faults > 0 /\ faults' = faults - 1
  /\ sock[n].d \in {"connecting", "open"}
  /\ sock' = [sock EXCEPT ![n].d = "closing"]
  /\ UNCHANGED <<client, links, wc, buf, queues>>

Next ==
  \/ SendHello \/ Send \/ Receive \/ ClientCloses \/ FromClient \/ ClientGone \/ Dial
  \/ \E n \in N : \/ FromDaemon(n) \/ Accept(n) \/ DataGone(n) \/ Opens(n)
                  \/ DaemonReceives(n) \/ DaemonSends(n) \/ DataClosed(n) \/ Break(n)

Spec == Init /\ [][Next]_vars

(* Timers fire, sockets are read, and a close is noticed. Messages, faults   *)
(* and a client that leaves need not come.                                   *)
Fairness ==
  /\ WF_vars(SendHello) /\ WF_vars(Receive) /\ WF_vars(FromClient) /\ WF_vars(ClientGone)
  /\ WF_vars((cl = "leaving" \/ wc = "closing") /\ ClientCloses) /\ WF_vars(Dial)
  /\ \A n \in N : /\ WF_vars(FromDaemon(n)) /\ WF_vars(Accept(n)) /\ WF_vars(DataGone(n))
                  /\ WF_vars(Opens(n)) /\ WF_vars(DaemonReceives(n)) /\ WF_vars(DataClosed(n))
FairSpec == Spec /\ Fairness

-----------------------------------------------------------------------------
(* What a data socket delivers to the daemon is the client's messages from  *)
(* the first one on, without a gap: a socket that comes in the middle of a   *)
(* conversation delivers nothing.                                            *)
NoGap == [][\A n \in N : sock'[n].last \in {sock[n].last, sock[n].last + 1}]_vars

(* What the client delivers are the messages of one data socket from the    *)
(* first on, although frames of two may follow one another on its socket.    *)
OneStream ==
  [][\/ recv' = recv
     \/ recv' = [salt |-> recv'.salt, last |-> recv.last + 1] /\ recv.salt \in {0, recv'.salt}]_vars

(* A client is not left with a channel nobody answers: it closes, or it is   *)
(* open and the daemon has a channel with it.                                *)
NotLeftBehind ==
  []<>(\/ cl = "closed"
       \/ cl = "open" /\ \E n \in N : sock[n].shake = "open" /\ sock[n].d = "open"
                                      /\ sock[n].w = "open")
=============================================================================
