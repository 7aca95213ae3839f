----------------------- MODULE EncryptedChannelProofs -----------------------
(***************************************************************************)
(* Proofs about EncryptedChannel, for any number of data sockets, messages *)
(* and faults, and any length of the buffer and of the connections.        *)
(***************************************************************************)
EXTENDS EncryptedChannel, SequenceTheorems, TLAPS

-----------------------------------------------------------------------------
(* From the client to the daemon.                                          *)

(* What may follow a frame of the client: a repeated hello, or the next     *)
(* message.                                                                *)
Follows(a, b) == b = a + 1 \/ (a = Hello /\ b = Hello)
Chained(s) == \A i \in 1..(Len(s) - 1) : Follows(s[i], s[i + 1])

(* x is the frame that the next one of u follows, or the last one of t.      *)
Leads(x, u, t) == IF u = <<>> THEN x = t ELSE Follows(x, u[1])

(* A client says hello until it is open, and numbers what it sends then.    *)
UpShape ==
  /\ Chained(up)
  /\ up # <<>> => up[Len(up)] = sent
  /\ cl = "handshaking" => sent = 0
  /\ wc = "gone" => cl = "closed"

(* What is kept leads up to what comes next, and is kept only while no data *)
(* socket takes it.                                                         *)
BufShape ==
  /\ Chained(buf)
  /\ buf # <<>> => Leads(buf[Len(buf)], up, sent)
  /\ (\E n \in N : Listed(sock[n].w)) \/ wc = "gone" => buf = <<>>

(* What data socket s still has to read, q, follows what it delivered, and   *)
(* while it is the one that gets the client's frames it leads up to the next *)
(* one.                                                                    *)
Reads(s, q, u, t) ==
  /\ Chained(q)
  /\ q # <<>> /\ s.shake = "open" => Follows(s.last, q[1])
  /\ q # <<>> /\ s.w = "open" => Leads(q[Len(q)], u, t)
  /\ q = <<>> /\ s.w = "open" /\ s.shake = "open" => Leads(s.last, u, t)

SockOK(s, q, u, t) ==
  /\ s.w \in {"none", "asked"} => s.shake = "hello" /\ q = <<>>
  /\ s.shake = "hello" => s.last = 0
  /\ s.d # "closed" => Reads(s, q, u, t)

SockShape == \A n \in N : SockOK(sock[n], in[n], up, sent)

(* A data socket that is not yet open has no channel and has sent nothing.   *)
FreshShape ==
  \A n \in N : /\ sock[n].d = "none" => sock[n].w = "none"
               /\ sock[n].d \in {"none", "connecting"} => sock[n].sent = 0 /\ sock[n].shake = "hello"

-----------------------------------------------------------------------------
(* From the daemon to the client.                                          *)

(* The number of the last message of data socket n the client has.          *)
Base(n) == IF recv.salt = n THEN recv.last ELSE 0
Relevant(n) == recv.salt \in {0, n}
InDown(n, k) == \E j \in 1..Len(down) : down[j].salt = n /\ down[j].frame = k
InOut(n, k) == \E j \in 1..Len(out[n]) : out[n][j] = k
Connected == wc = "open" /\ cl # "closed"

(* Messages of one data socket stay in order.                              *)
DownOrder == \A i, j \in 1..Len(down) :
  i < j /\ down[i].salt = down[j].salt /\ down[j].frame # Ready => down[i].frame < down[j].frame
OutOrder == \A n \in N : \A i, j \in 1..Len(out[n]) :
  i < j /\ out[n][j] # Ready => out[n][i] < out[n][j]
DownBeforeOut == \A n \in N : \A i \in 1..Len(down), j \in 1..Len(out[n]) :
  down[i].salt = n /\ out[n][j] # Ready => down[i].frame < out[n][j]
UpToSent == \A n \in N :
  /\ \A i \in 1..Len(out[n]) : out[n][i] <= sock[n].sent
  /\ \A i \in 1..Len(down) : down[i].salt = n => down[i].frame <= sock[n].sent
  /\ recv.salt = n => recv.last <= sock[n].sent
AfterRecv == \A n \in N : recv.salt = n =>
  /\ \A i \in 1..Len(down) : down[i].salt = n /\ down[i].frame # Ready => recv.last < down[i].frame
  /\ \A i \in 1..Len(out[n]) : out[n][i] # Ready => recv.last < out[n][i]

Ordered == DownOrder /\ OutOrder /\ DownBeforeOut /\ UpToSent /\ AfterRecv

(* None is missing between the last one the client has and one under way.   *)
WholeDown == \A n \in N : Relevant(n) =>
  \A i \in 1..Len(down), k \in Nat :
    down[i].salt = n /\ Base(n) < k /\ k < down[i].frame => InDown(n, k)
WholeOut == Connected => \A n \in N : Relevant(n) =>
  \A i \in 1..Len(out[n]), k \in Nat : Base(n) < k /\ k < out[n][i] => InDown(n, k) \/ InOut(n, k)
WholeSent == Connected => \A n \in N : Relevant(n) /\ sock[n].d = "open" =>
  \A k \in Nat : Base(n) < k /\ k <= sock[n].sent => InDown(n, k) \/ InOut(n, k)

Whole == WholeDown /\ WholeOut /\ WholeSent

(* A client in its handshake meets ready before any message.                *)
ReadyDown == \E j \in 1..Len(down) : down[j].frame = Ready
SaltLocked == recv.salt = 0 <=> recv.last = 0
ReadyInDown == cl = "handshaking" =>
  \A i \in 1..Len(down) : down[i].frame # Ready => \E j \in 1..(i - 1) : down[j].frame = Ready
ReadyInOut == cl = "handshaking" /\ wc = "open" => \A n \in N : \A i \in 1..Len(out[n]) :
  out[n][i] # Ready => ReadyDown \/ \E j \in 1..(i - 1) : out[n][j] = Ready
ReadySent == cl = "handshaking" /\ wc = "open" => \A n \in N :
  sock[n].shake = "open" /\ sock[n].d = "open" => ReadyDown \/ \E j \in 1..Len(out[n]) : out[n][j] = Ready

ReadyFirst == SaltLocked /\ ReadyInDown /\ ReadyInOut /\ ReadySent

IInv == /\ TypeOK /\ UpShape /\ BufShape /\ SockShape /\ FreshShape
        /\ Ordered /\ Whole /\ ReadyFirst

-----------------------------------------------------------------------------
(* Sequences, in the form the steps use.                                   *)

LEMMA TailFacts ==
  ASSUME NEW S, NEW s \in Seq(S), s # <<>>
  PROVE  /\ Head(s) \in S /\ Head(s) = s[1] /\ Len(s) \in Nat /\ Len(s) >= 1
         /\ Tail(s) \in Seq(S) /\ Len(Tail(s)) = Len(s) - 1
         /\ \A i \in 1..Len(Tail(s)) : i + 1 \in 1..Len(s) /\ Tail(s)[i] = s[i + 1]
         /\ Tail(s) = <<>> <=> Len(s) = 1
<1>1. Len(s) \in Nat /\ Len(s) >= 1 /\ Head(s) = s[1] /\ Head(s) \in S
  BY HeadTailProperties, EmptySeq, LenProperties
<1>2. Tail(s) \in Seq(S) /\ Len(Tail(s)) = Len(s) - 1
  BY HeadTailProperties
<1>3. \A i \in 1..Len(Tail(s)) : Tail(s)[i] = s[i + 1]
  BY HeadTailProperties
<1>4. Tail(s) = <<>> <=> Len(Tail(s)) = 0
  BY <1>2, EmptySeq
<1> QED
  BY <1>1, <1>2, <1>3, <1>4

LEMMA AppendFacts ==
  ASSUME NEW S, NEW s \in Seq(S), NEW e \in S
  PROVE  /\ Append(s, e) \in Seq(S) /\ Len(s) \in Nat /\ Len(Append(s, e)) = Len(s) + 1
         /\ \A i \in 1..Len(s) : Append(s, e)[i] = s[i]
         /\ Append(s, e)[Len(s) + 1] = e
         /\ Append(s, e) # <<>>
         /\ s # <<>> => Append(s, e)[1] = s[1]
<1>1. /\ Append(s, e) \in Seq(S) /\ Len(s) \in Nat /\ Len(Append(s, e)) = Len(s) + 1
      /\ \A i \in 1..Len(s) : Append(s, e)[i] = s[i]
      /\ Append(s, e)[Len(s) + 1] = e
  BY AppendProperties, LenProperties
<1>2. Append(s, e) # <<>>
  BY <1>1, EmptySeq
<1>3. ASSUME s # <<>> PROVE Append(s, e)[1] = s[1]
  <2>1. 1 \in 1..Len(s)
    BY <1>1, <1>3, EmptySeq
  <2> QED
    BY <1>1, <2>1
<1> QED
  BY <1>1, <1>2, <1>3

LEMMA EmptyFacts == \A S : <<>> \in Seq(S) /\ Len(<<>>) = 0
BY EmptySeq

LEMMA ElementFacts ==
  ASSUME NEW S, NEW s \in Seq(S)
  PROVE  /\ Len(s) \in Nat /\ s = <<>> <=> Len(s) = 0
         /\ \A i \in 1..Len(s) : s[i] \in S
BY ElementOfSeq, EmptySeq, LenProperties

LEMMA ChainedTail ==
  ASSUME NEW S, NEW s \in Seq(S), s # <<>>, Chained(s)
  PROVE  /\ Chained(Tail(s))
         /\ Tail(s) # <<>> => Follows(Head(s), Tail(s)[1]) /\ Tail(s)[Len(Tail(s))] = s[Len(s)]
<1>1. /\ Head(s) = s[1] /\ Len(s) \in Nat /\ Len(s) >= 1 /\ Len(Tail(s)) = Len(s) - 1
      /\ \A i \in 1..Len(Tail(s)) : i + 1 \in 1..Len(s) /\ Tail(s)[i] = s[i + 1]
      /\ Tail(s) = <<>> <=> Len(s) = 1
  BY TailFacts
<1>2. Chained(Tail(s))
  <2> SUFFICES ASSUME NEW i \in 1..(Len(Tail(s)) - 1) PROVE Follows(Tail(s)[i], Tail(s)[i + 1])
    BY DEF Chained
  <2>1. i \in 1..Len(Tail(s)) /\ i + 1 \in 1..Len(Tail(s)) /\ i + 1 \in 1..(Len(s) - 1)
    BY <1>1
  <2> QED
    BY <1>1, <2>1 DEF Chained
<1>3. ASSUME Tail(s) # <<>>
      PROVE  Follows(Head(s), Tail(s)[1]) /\ Tail(s)[Len(Tail(s))] = s[Len(s)]
  <2>1. Len(s) # 1 /\ 1 \in 1..Len(Tail(s)) /\ Len(Tail(s)) \in 1..Len(Tail(s)) /\ 1 \in 1..(Len(s) - 1)
    BY <1>1, <1>3
  <2>2. Tail(s)[1] = s[1 + 1] /\ Tail(s)[Len(Tail(s))] = s[Len(s)]
    BY <1>1, <2>1
  <2> QED
    BY <1>1, <2>1, <2>2 DEF Chained
<1> QED
  BY <1>2, <1>3

LEMMA ChainedAppend ==
  ASSUME NEW S, NEW s \in Seq(S), NEW e \in S, Chained(s), s # <<>> => Follows(s[Len(s)], e)
  PROVE  Chained(Append(s, e)) /\ Append(s, e)[Len(Append(s, e))] = e
<1> DEFINE t == Append(s, e)
<1>1. /\ Len(s) \in Nat /\ Len(t) = Len(s) + 1 /\ t[Len(s) + 1] = e
      /\ \A i \in 1..Len(s) : t[i] = s[i]
  BY AppendFacts
<1>2. s # <<>> <=> Len(s) # 0
  BY ElementFacts
<1> HIDE DEF t
<1>3. ASSUME NEW i \in 1..(Len(t) - 1) PROVE Follows(t[i], t[i + 1])
  <2>1. i \in 1..Len(s) /\ Len(s) # 0
    BY <1>1
  <2>2. CASE i = Len(s)
    BY <1>1, <1>2, <2>1, <2>2
  <2>3. CASE i # Len(s)
    <3>1. i + 1 \in 1..Len(s) /\ i \in 1..(Len(s) - 1)
      BY <1>1, <2>1, <2>3
    <3> QED
      BY <1>1, <2>1, <3>1 DEF Chained
  <2> QED
    BY <2>2, <2>3
<1> QED
  BY <1>1, <1>3 DEF Chained, t

LEMMA ChainedEmpty == Chained(<<>>)
BY EmptyFacts DEF Chained

-----------------------------------------------------------------------------
(* What each step does to the data sockets.                                *)

Ends == {"none", "connecting", "open", "closing", "closed"}
Workers == {"none", "asked", "open", "closing", "gone"}
SockType == [N -> [d : Ends, w : Workers, shake : {"hello", "open", "failed"},
                   last : 0..Messages, sent : 0..Replies]]

SameBut(n) == \A m \in N : m # n => sock'[m] = sock[m]
Fields(n, dd, ww, ss, ll, tt) ==
  /\ sock'[n].d = dd /\ sock'[n].w = ww /\ sock'[n].shake = ss
  /\ sock'[n].last = ll /\ sock'[n].sent = tt

LEMMA SetD ==
  ASSUME sock \in SockType, NEW n \in N, NEW v \in Ends, sock' = [sock EXCEPT ![n].d = v]
  PROVE  /\ sock' \in SockType /\ SameBut(n)
         /\ Fields(n, v, sock[n].w, sock[n].shake, sock[n].last, sock[n].sent)
BY DEF SockType, SameBut, Fields

LEMMA SetW ==
  ASSUME sock \in SockType, NEW n \in N, NEW v \in Workers, sock' = [sock EXCEPT ![n].w = v]
  PROVE  /\ sock' \in SockType /\ SameBut(n)
         /\ Fields(n, sock[n].d, v, sock[n].shake, sock[n].last, sock[n].sent)
BY DEF SockType, SameBut, Fields

LEMMA SetDW ==
  ASSUME sock \in SockType, NEW n \in N, NEW v \in Ends, NEW u \in Workers,
         sock' = [sock EXCEPT ![n].d = v, ![n].w = u]
  PROVE  /\ sock' \in SockType /\ SameBut(n)
         /\ Fields(n, v, u, sock[n].shake, sock[n].last, sock[n].sent)
BY DEF SockType, SameBut, Fields

LEMMA SetShake ==
  ASSUME sock \in SockType, NEW n \in N, sock' = [sock EXCEPT ![n].shake = "open"]
  PROVE  /\ sock' \in SockType /\ SameBut(n)
         /\ Fields(n, sock[n].d, sock[n].w, "open", sock[n].last, sock[n].sent)
BY DEF SockType, SameBut, Fields

LEMMA SetFailed ==
  ASSUME sock \in SockType, NEW n \in N,
         sock' = [sock EXCEPT ![n].shake = "failed", ![n].d = "closing"]
  PROVE  /\ sock' \in SockType /\ SameBut(n)
         /\ Fields(n, "closing", sock[n].w, "failed", sock[n].last, sock[n].sent)
BY DEF SockType, SameBut, Fields, Ends

LEMMA SetLast ==
  ASSUME sock \in SockType, NEW n \in N, NEW v \in 0..Messages, sock' = [sock EXCEPT ![n].last = v]
  PROVE  /\ sock' \in SockType /\ SameBut(n)
         /\ Fields(n, sock[n].d, sock[n].w, sock[n].shake, v, sock[n].sent)
BY DEF SockType, SameBut, Fields

LEMMA SetSent ==
  ASSUME sock \in SockType, NEW n \in N, sock[n].sent < Replies,
         sock' = [sock EXCEPT ![n].sent = @ + 1]
  PROVE  /\ sock' \in SockType /\ SameBut(n)
         /\ Fields(n, sock[n].d, sock[n].w, sock[n].shake, sock[n].last, sock[n].sent + 1)
<1>1. sock[n].sent + 1 \in 0..Replies
  BY ChannelAssumption DEF SockType
<1> QED
  BY <1>1 DEF SockType, SameBut, Fields

(* Sockets that keep everything but the worker's end.                      *)
OnlyW == \A m \in N : /\ sock'[m].d = sock[m].d /\ sock'[m].shake = sock[m].shake
                      /\ sock'[m].last = sock[m].last /\ sock'[m].sent = sock[m].sent

LEMMA ShutFacts ==
  ASSUME sock \in SockType, NEW A \in SUBSET N
  PROVE  /\ Shut(A) \in SockType
         /\ \A m \in N : /\ Shut(A)[m].d = sock[m].d /\ Shut(A)[m].shake = sock[m].shake
                         /\ Shut(A)[m].last = sock[m].last /\ Shut(A)[m].sent = sock[m].sent
                         /\ Shut(A)[m].w = IF m \in A /\ sock[m].w = "open" THEN "closing" ELSE sock[m].w
<1>1. \A m \in N : [sock[m] EXCEPT !.w = "closing"] \in [d : Ends, w : Workers,
          shake : {"hello", "open", "failed"}, last : 0..Messages, sent : 0..Replies]
  BY DEF SockType, Workers
<1>2. \A m \in N : /\ Shut(A)[m] = IF m \in A /\ sock[m].w = "open" THEN [sock[m] EXCEPT !.w = "closing"]
                                   ELSE sock[m]
  BY DEF Shut
<1>3. \A m \in N : LET r == [sock[m] EXCEPT !.w = "closing"]
                   IN  /\ r.d = sock[m].d /\ r.shake = sock[m].shake /\ r.last = sock[m].last
                       /\ r.sent = sock[m].sent /\ r.w = "closing"
  BY DEF SockType
<1>4. Shut(A) \in SockType
  BY <1>1 DEF Shut, SockType
<1> QED
  BY <1>2, <1>3, <1>4

LEMMA AcceptFacts ==
  ASSUME sock \in SockType, NEW n \in N, Accept(n)
  PROVE  /\ sock' \in SockType /\ OnlyW /\ sock[n].w = "asked"
         /\ \A m \in N : sock'[m].w = IF m = n THEN "open"
                                      ELSE IF sock[m].w = "open" THEN "closing" ELSE sock[m].w
<1> DEFINE s == Shut(N \ {n})
<1>1. /\ s \in SockType
      /\ \A m \in N : /\ s[m].d = sock[m].d /\ s[m].shake = sock[m].shake
                      /\ s[m].last = sock[m].last /\ s[m].sent = sock[m].sent
                      /\ s[m].w = IF m \in N \ {n} /\ sock[m].w = "open" THEN "closing" ELSE sock[m].w
  BY ShutFacts
<1>2. sock' = [s EXCEPT ![n].w = "open"] /\ sock[n].w = "asked"
  BY DEF Accept
<1> HIDE DEF s
<1>3. sock' \in SockType /\ sock'[n].w = "open" /\ (\A m \in N : m # n => sock'[m] = s[m])
      /\ sock'[n].d = s[n].d /\ sock'[n].shake = s[n].shake /\ sock'[n].last = s[n].last
      /\ sock'[n].sent = s[n].sent
  BY <1>1, <1>2 DEF SockType, Workers
<1>4. OnlyW
  <2> SUFFICES ASSUME NEW m \in N
               PROVE  /\ sock'[m].d = sock[m].d /\ sock'[m].shake = sock[m].shake
                      /\ sock'[m].last = sock[m].last /\ sock'[m].sent = sock[m].sent
    BY DEF OnlyW
  <2>1. CASE m = n
    BY <1>1, <1>3, <2>1
  <2>2. CASE m # n
    BY <1>1, <1>3, <2>2
  <2> QED
    BY <2>1, <2>2
<1>5. \A m \in N : m # n => sock'[m].w = IF sock[m].w = "open" THEN "closing" ELSE sock[m].w
  BY <1>1, <1>3
<1> QED
  BY <1>2, <1>3, <1>4, <1>5

LEMMA GoneFacts ==
  ASSUME sock \in SockType, ClientGone
  PROVE  /\ sock' \in SockType /\ OnlyW
         /\ \A m \in N : sock'[m].w = IF sock[m].w = "open" THEN "closing" ELSE sock[m].w
<1>1. sock' = Shut(N)
  BY DEF ClientGone
<1> QED
  BY <1>1, ShutFacts DEF OnlyW

LEMMA SockTyped == TypeOK <=> TypeOK /\ sock \in SockType
BY DEF TypeOK, SockType, Ends, Workers

(* A data socket reads one frame.                                          *)
Answered(n) == out' = IF sock[n].d = "open" THEN [out EXCEPT ![n] = Append(@, Ready)] ELSE out

LEMMA ReceiveFacts ==
  ASSUME TypeOK, NEW n \in N, DaemonReceives(n)
  PROVE  /\ in[n] \in Seq(0..Messages) /\ in[n] # <<>> /\ in' = [in EXCEPT ![n] = Tail(@)]
         /\ sock[n].d \in {"open", "closing"}
         /\ sock' \in SockType /\ SameBut(n)
         /\ sock'[n].w = sock[n].w /\ sock'[n].sent = sock[n].sent
         /\ \/ /\ sock[n].shake \in {"hello", "open"} /\ Head(in[n]) = Hello
               /\ Fields(n, sock[n].d, sock[n].w, "open", sock[n].last, sock[n].sent) /\ Answered(n)
            \/ /\ sock[n].shake = "hello" /\ Head(in[n]) # Hello /\ out' = out
               /\ Fields(n, "closing", sock[n].w, "failed", sock[n].last, sock[n].sent)
            \/ /\ sock[n].shake = "open" /\ Head(in[n]) # Hello /\ Head(in[n]) > sock[n].last /\ out' = out
               /\ Fields(n, sock[n].d, sock[n].w, "open", Head(in[n]), sock[n].sent)
            \/ /\ sock[n].shake = "open" /\ Head(in[n]) # Hello /\ ~(Head(in[n]) > sock[n].last) /\ out' = out
               /\ Fields(n, "closing", sock[n].w, "open", sock[n].last, sock[n].sent)
            \/ /\ sock[n].shake = "failed" /\ out' = out
               /\ Fields(n, sock[n].d, sock[n].w, "failed", sock[n].last, sock[n].sent)
<1>1. in[n] \in Seq(0..Messages) /\ in[n] # <<>> /\ in' = [in EXCEPT ![n] = Tail(@)]
      /\ sock[n].d \in {"open", "closing"} /\ sock \in SockType
  BY SockTyped DEF DaemonReceives, TypeOK
<1>2. Head(in[n]) \in 0..Messages
  BY <1>1, TailFacts
<1>3. CASE Handshake(n)
  <2>1. CASE Head(in[n]) = Hello
    <3>1. sock' = [sock EXCEPT ![n].shake = "open"] /\ sock[n].shake = "hello" /\ Answered(n)
      BY <1>3, <2>1 DEF Handshake, Reply, Answered
    <3> QED
      BY <1>1, <2>1, <3>1, SetShake DEF Fields
  <2>2. CASE Head(in[n]) # Hello
    <3>1. sock' = [sock EXCEPT ![n].shake = "failed", ![n].d = "closing"] /\ sock[n].shake = "hello"
          /\ out' = out
      BY <1>3, <2>2 DEF Handshake
    <3> QED
      BY <1>1, <2>2, <3>1, SetFailed DEF Fields
  <2> QED
    BY <2>1, <2>2
<1>4. CASE Deliver(n)
  <2>1. CASE Head(in[n]) = Hello
    <3>1. sock[n].shake = "open" /\ Answered(n)
      BY <1>4, <2>1 DEF Deliver, Reply, Answered
    <3>2. sock' = sock
      <4>1. sock' = CASE Head(in[n]) = Hello -> sock
                      [] Head(in[n]) > sock[n].last -> [sock EXCEPT ![n].last = Head(in[n])]
                      [] OTHER -> [sock EXCEPT ![n].d = "closing"]
        BY <1>4 DEF Deliver
      <4>2. ~(Head(in[n]) > sock[n].last)
        BY <1>1, <1>2, <2>1 DEF SockType, Hello
      <4> QED
        BY <2>1, <4>1, <4>2
    <3> QED
      BY <1>1, <2>1, <3>1, <3>2 DEF Fields, SameBut
  <2>2. CASE Head(in[n]) # Hello /\ Head(in[n]) > sock[n].last
    <3>1. sock' = [sock EXCEPT ![n].last = Head(in[n])] /\ sock[n].shake = "open" /\ out' = out
      BY <1>4, <2>2 DEF Deliver
    <3> QED
      BY <1>1, <1>2, <2>2, <3>1, SetLast DEF Fields
  <2>3. CASE Head(in[n]) # Hello /\ ~(Head(in[n]) > sock[n].last)
    <3>1. sock' = [sock EXCEPT ![n].d = "closing"] /\ sock[n].shake = "open" /\ out' = out
      BY <1>4, <2>3 DEF Deliver
    <3>2. "closing" \in Ends
      BY DEF Ends
    <3> QED
      BY <1>1, <2>3, <3>1, <3>2, SetD DEF Fields
  <2> QED
    BY <2>1, <2>2, <2>3
<1>5. CASE Ignore(n)
  BY <1>1, <1>5 DEF Ignore, Fields, SameBut
<1> QED
  BY <1>1, <1>3, <1>4, <1>5 DEF DaemonReceives

(* The client reads one frame.                                             *)
LEMMA ClientFacts ==
  ASSUME TypeOK, Receive
  PROVE  /\ down # <<>> /\ cl # "closed" /\ down' = Tail(down)
         /\ Head(down) \in [salt : N, frame : 0..Replies]
         /\ down' \in Seq([salt : N, frame : 0..Replies])
         /\ \/ Head(down).frame = Ready /\ recv' = recv
               /\ cl' = IF cl = "handshaking" THEN "open" ELSE cl
            \/ Head(down).frame # Ready /\ cl = "handshaking" /\ UNCHANGED <<cl, recv>>
            \/ /\ Head(down).frame # Ready /\ cl # "handshaking" /\ Accepts(Head(down)) /\ cl' = cl
               /\ recv' = [salt |-> Head(down).salt, last |-> Head(down).frame]
            \/ /\ Head(down).frame # Ready /\ cl # "handshaking" /\ ~Accepts(Head(down))
               /\ cl' \in {cl, "leaving"} /\ recv' = recv
<1> DEFINE f == Head(down)
<1>1. /\ down # <<>> /\ cl # "closed" /\ down' = Tail(down)
      /\ f \in [salt : N, frame : 0..Replies]
      /\ down' \in Seq([salt : N, frame : 0..Replies])
  BY TailFacts DEF Receive, TypeOK
<1>2. (CASE f.frame = Ready -> cl' = (IF cl = "handshaking" THEN "open" ELSE cl) /\ UNCHANGED recv
        [] f.frame # Ready /\ cl = "handshaking" -> UNCHANGED <<cl, recv>>
        [] f.frame # Ready /\ cl # "handshaking" /\ Accepts(f) ->
             recv' = [salt |-> f.salt, last |-> f.frame] /\ UNCHANGED cl
        [] OTHER -> cl' \in {cl, "leaving"} /\ UNCHANGED recv)
  BY DEF Receive
<1> HIDE DEF f
<1>3. CASE f.frame = Ready
  BY <1>1, <1>2, <1>3 DEF f
<1>4. CASE f.frame # Ready /\ cl = "handshaking"
  BY <1>1, <1>2, <1>4 DEF f
<1>5. CASE f.frame # Ready /\ cl # "handshaking" /\ Accepts(f)
  BY <1>1, <1>2, <1>5 DEF f
<1>6. CASE f.frame # Ready /\ cl # "handshaking" /\ ~Accepts(f)
  BY <1>1, <1>2, <1>6 DEF f
<1> QED
  BY <1>3, <1>4, <1>5, <1>6

LEMMA DialFacts ==
  ASSUME TypeOK, Dial
  PROVE  /\ sock' \in SockType
         /\ \E n \in N : /\ SameBut(n) /\ sock[n].d = "none"
                         /\ Fields(n, "connecting", "asked", sock[n].shake, sock[n].last, sock[n].sent)
<1>1. PICK n \in N : /\ sock[n].d = "none"
                     /\ sock' = [sock EXCEPT ![n].d = "connecting", ![n].w = "asked"]
  BY DEF Dial
<1> QED
  BY <1>1, SetDW, SockTyped DEF Ends, Workers

(* What changes d of one data socket, or its worker's end.                 *)
LEMMA EndFacts ==
  ASSUME TypeOK, NEW n \in N
  PROVE  /\ Opens(n) => /\ sock' \in SockType /\ SameBut(n) /\ sock[n].d = "connecting"
                        /\ Fields(n, "open", sock[n].w, sock[n].shake, sock[n].last, sock[n].sent)
         /\ Break(n) => /\ sock' \in SockType /\ SameBut(n) /\ sock[n].d \in {"connecting", "open"}
                        /\ Fields(n, "closing", sock[n].w, sock[n].shake, sock[n].last, sock[n].sent)
         /\ DataClosed(n) => /\ sock' \in SockType /\ SameBut(n) /\ sock[n].d \in {"closing", "open"}
                             /\ Fields(n, "closed", sock[n].w, sock[n].shake, sock[n].last, sock[n].sent)
         /\ DataGone(n) => /\ sock' \in SockType /\ SameBut(n) /\ sock[n].d \in {"closing", "closed"}
                           /\ Fields(n, sock[n].d, "gone", sock[n].shake, sock[n].last, sock[n].sent)
         /\ DaemonSends(n) => /\ sock' \in SockType /\ SameBut(n)
                              /\ sock[n].shake = "open" /\ sock[n].d = "open" /\ sock[n].sent < Replies
                              /\ Fields(n, sock[n].d, sock[n].w, sock[n].shake, sock[n].last, sock[n].sent + 1)
<1>1. sock \in SockType
  BY SockTyped
<1>2. ASSUME Opens(n)
      PROVE  /\ sock' \in SockType /\ SameBut(n) /\ sock[n].d = "connecting"
             /\ Fields(n, "open", sock[n].w, sock[n].shake, sock[n].last, sock[n].sent)
  BY <1>1, <1>2, SetD DEF Opens, Ends
<1>3. ASSUME Break(n)
      PROVE  /\ sock' \in SockType /\ SameBut(n) /\ sock[n].d \in {"connecting", "open"}
             /\ Fields(n, "closing", sock[n].w, sock[n].shake, sock[n].last, sock[n].sent)
  BY <1>1, <1>3, SetD DEF Break, Ends
<1>4. ASSUME DataClosed(n)
      PROVE  /\ sock' \in SockType /\ SameBut(n) /\ sock[n].d \in {"closing", "open"}
             /\ Fields(n, "closed", sock[n].w, sock[n].shake, sock[n].last, sock[n].sent)
  BY <1>1, <1>4, SetD DEF DataClosed, Ends
<1>5. ASSUME DataGone(n)
      PROVE  /\ sock' \in SockType /\ SameBut(n) /\ sock[n].d \in {"closing", "closed"}
             /\ Fields(n, sock[n].d, "gone", sock[n].shake, sock[n].last, sock[n].sent)
  BY <1>1, <1>5, SetW DEF DataGone, Workers
<1>6. ASSUME DaemonSends(n)
      PROVE  /\ sock' \in SockType /\ SameBut(n)
             /\ sock[n].shake = "open" /\ sock[n].d = "open" /\ sock[n].sent < Replies
             /\ Fields(n, sock[n].d, sock[n].w, sock[n].shake, sock[n].last, sock[n].sent + 1)
  BY <1>1, <1>6, SetSent DEF DaemonSends
<1> QED
  BY <1>2, <1>3, <1>4, <1>5, <1>6

-----------------------------------------------------------------------------
(* Types.                                                                  *)

LEMMA TypeStep == IInv /\ [Next]_vars => TypeOK'
<1> SUFFICES ASSUME TypeOK, [Next]_vars PROVE TypeOK'
  BY DEF IInv
<1>1. ASSUME SendHello PROVE TypeOK'
  <2>1. up' \in Seq(0..Messages) /\ Len(up') <= Flight
    <3>1. Hello \in 0..Messages
      BY ChannelAssumption DEF Hello
    <3> QED
      BY <1>1, <3>1, AppendFacts, ChannelAssumption DEF SendHello, TypeOK
  <2> QED
    BY <1>1, <2>1 DEF SendHello, client, queues, TypeOK
<1>2. ASSUME Send PROVE TypeOK'
  <2>1. sent + 1 \in 0..Messages
    BY <1>2, ChannelAssumption DEF Send, TypeOK
  <2>2. up' \in Seq(0..Messages) /\ Len(up') <= Flight
    BY <1>2, <2>1, AppendFacts, ChannelAssumption DEF Send, TypeOK
  <2> QED
    BY <1>2, <2>1, <2>2 DEF Send, queues, TypeOK
<1>3. ASSUME Receive PROVE TypeOK'
  <2>1. Head(down) \in [salt : N, frame : 0..Replies] /\ down' \in Seq([salt : N, frame : 0..Replies])
    BY <1>3, ClientFacts
  <2>2. [salt |-> Head(down).salt, last |-> Head(down).frame] \in [salt : 0..Sockets, last : 0..Replies]
    <3>1. Head(down).salt \in 0..Sockets /\ Head(down).frame \in 0..Replies
      BY <2>1, ChannelAssumption DEF N
    <3> QED
      BY <3>1
  <2>3. recv' \in [salt : 0..Sockets, last : 0..Replies] /\ cl' \in {"handshaking", "open", "leaving", "closed"}
    BY <1>3, <2>2, ClientFacts DEF TypeOK
  <2> QED
    BY <1>3, <2>1, <2>3 DEF Receive, queues, TypeOK
<1>4. ASSUME ClientCloses PROVE TypeOK'
  BY <1>4, EmptyFacts DEF ClientCloses, queues, TypeOK
<1>5. ASSUME FromClient PROVE TypeOK'
  <2>1. Head(up) \in 0..Messages /\ up' \in Seq(0..Messages) /\ Len(up') <= Flight
    BY <1>5, TailFacts, ChannelAssumption DEF FromClient, TypeOK
  <2>2. buf' \in Seq(0..Messages) /\ Len(buf') <= Buffer
    <3>1. CASE buf' = buf
      BY <3>1 DEF TypeOK
    <3>2. CASE buf' = Append(buf, Head(up)) /\ Len(buf) < Buffer
      BY <2>1, <3>2, AppendFacts, ChannelAssumption DEF TypeOK
    <3>3. CASE buf' = Append(Tail(buf), Head(up)) /\ ~(Len(buf) < Buffer)
      <4>1. Len(buf) = Buffer /\ buf # <<>>
        BY <3>3, ChannelAssumption, ElementFacts DEF TypeOK
      <4>2. Tail(buf) \in Seq(0..Messages) /\ Len(Tail(buf)) = Buffer - 1
        BY <4>1, TailFacts DEF TypeOK
      <4> QED
        BY <2>1, <3>3, <4>2, AppendFacts, ChannelAssumption
    <3> QED
      BY <1>5, <3>1, <3>2, <3>3 DEF FromClient, Buffered
  <2>3. \A n \in N : in[n] \in Seq(0..Messages) /\ Append(in[n], Head(up)) \in Seq(0..Messages)
    BY <2>1, AppendFacts DEF TypeOK
  <2>4. in' \in [N -> Seq(0..Messages)]
    BY <1>5, <2>3 DEF FromClient
  <2> QED
    BY <1>5, <2>1, <2>2, <2>4 DEF FromClient, client, TypeOK
<1>6. ASSUME ClientGone PROVE TypeOK'
  <2>1. up' \in Seq(0..Messages) /\ Len(up') <= Flight /\ buf' \in Seq(0..Messages) /\ Len(buf') <= Buffer
    BY <1>6, EmptyFacts, ChannelAssumption DEF ClientGone
  <2>2. sock' \in SockType
    BY <1>6, GoneFacts, SockTyped
  <2> QED
    BY <1>6, <2>1, <2>2 DEF ClientGone, client, queues, TypeOK, SockType, Ends, Workers
<1>7. ASSUME Dial PROVE TypeOK'
  BY <1>7, DialFacts DEF Dial, client, links, queues, TypeOK, SockType, Ends, Workers
<1>8. ASSUME NEW n \in N, FromDaemon(n) PROVE TypeOK'
  <2>1. out[n] \in Seq(0..Replies) /\ Head(out[n]) \in 0..Replies /\ Tail(out[n]) \in Seq(0..Replies)
    BY <1>8, TailFacts DEF FromDaemon, TypeOK
  <2>2. out' \in [N -> Seq(0..Replies)]
    BY <1>8, <2>1 DEF FromDaemon, TypeOK
  <2>3. down' \in Seq([salt : N, frame : 0..Replies])
    <3>1. [salt |-> n, frame |-> Head(out[n])] \in [salt : N, frame : 0..Replies]
      BY <2>1
    <3> QED
      BY <1>8, <3>1, AppendFacts DEF FromDaemon, TypeOK
  <2> QED
    BY <1>8, <2>2, <2>3 DEF FromDaemon, client, TypeOK
<1>9. ASSUME NEW n \in N, Accept(n) PROVE TypeOK'
  <2>1. sock' \in SockType
    BY <1>9, AcceptFacts, SockTyped
  <2>2. in' \in [N -> Seq(0..Messages)] /\ buf' \in Seq(0..Messages) /\ Len(buf') <= Buffer
    BY <1>9, EmptyFacts, ChannelAssumption DEF Accept, TypeOK
  <2> QED
    BY <1>9, <2>1, <2>2 DEF Accept, client, links, TypeOK, SockType, Ends, Workers
<1>10. ASSUME NEW n \in N, DataGone(n) PROVE TypeOK'
  <2>1. sock' \in SockType
    BY <1>10, EndFacts
  <2>2. out' \in [N -> Seq(0..Replies)] /\ wc' \in {"open", "closing", "gone"}
    BY <1>10, EmptyFacts DEF DataGone, Kicked, TypeOK
  <2> QED
    BY <1>10, <2>1, <2>2 DEF DataGone, client, links, TypeOK, SockType, Ends, Workers
<1>11. ASSUME NEW n \in N, Opens(n) PROVE TypeOK'
  BY <1>11, EndFacts DEF Opens, client, links, queues, TypeOK, SockType, Ends, Workers
<1>12. ASSUME NEW n \in N, DaemonReceives(n) PROVE TypeOK'
  <2>1. in[n] \in Seq(0..Messages) /\ in[n] # <<>> /\ in' = [in EXCEPT ![n] = Tail(@)] /\ sock' \in SockType
        /\ (Answered(n) \/ out' = out)
    BY <1>12, ReceiveFacts
  <2>2. in' \in [N -> Seq(0..Messages)]
    BY <2>1, TailFacts DEF TypeOK
  <2>3. out' \in [N -> Seq(0..Replies)]
    <3>1. Ready \in 0..Replies /\ out[n] \in Seq(0..Replies)
      BY ChannelAssumption DEF Ready, TypeOK
    <3>2. Append(out[n], Ready) \in Seq(0..Replies)
      BY <3>1, AppendFacts
    <3> QED
      BY <2>1, <3>2 DEF Answered, TypeOK
  <2> QED
    BY <1>12, <2>1, <2>2, <2>3 DEF DaemonReceives, client, links, TypeOK, SockType, Ends, Workers
<1>13. ASSUME NEW n \in N, DaemonSends(n) PROVE TypeOK'
  <2>1. sock' \in SockType /\ sock[n].sent < Replies
    BY <1>13, EndFacts
  <2>2. out[n] \in Seq(0..Replies) /\ sock[n].sent + 1 \in 0..Replies
    <3>1. out[n] \in Seq(0..Replies)
      BY DEF TypeOK
    <3>2. sock \in SockType
      BY SockTyped
    <3>3. sock[n].sent \in 0..Replies
      BY <3>2 DEF SockType
    <3>4. sock[n].sent + 1 \in 0..Replies
      BY <2>1, <3>3, ChannelAssumption
    <3> QED
      BY <3>1, <3>4
  <2>3. Append(out[n], sock[n].sent + 1) \in Seq(0..Replies)
    BY <2>2, AppendFacts
  <2>4. out' \in [N -> Seq(0..Replies)]
    BY <1>13, <2>3 DEF DaemonSends, TypeOK
  <2> QED
    BY <1>13, <2>1, <2>4 DEF DaemonSends, client, links, TypeOK, SockType, Ends, Workers
<1>14. ASSUME NEW n \in N, DataClosed(n) PROVE TypeOK'
  <2>1. sock' \in SockType
    BY <1>14, EndFacts
  <2>2. in' \in [N -> Seq(0..Messages)]
    BY <1>14, EmptyFacts DEF DataClosed, TypeOK
  <2> QED
    BY <1>14, <2>1, <2>2 DEF DataClosed, client, links, TypeOK, SockType, Ends, Workers
<1>15. ASSUME NEW n \in N, Break(n) PROVE TypeOK'
  <2>1. sock' \in SockType
    BY <1>15, EndFacts
  <2>2. faults' \in 0..Faults
    BY <1>15, ChannelAssumption DEF Break, TypeOK
  <2> QED
    BY <1>15, <2>1, <2>2 DEF Break, client, links, queues, TypeOK, SockType, Ends, Workers
<1>16. CASE UNCHANGED vars
  BY <1>16 DEF vars, TypeOK
<1> QED
  BY <1>1, <1>2, <1>3, <1>4, <1>5, <1>6, <1>7, <1>8, <1>9, <1>10, <1>11, <1>12, <1>13, <1>14, <1>15, <1>16
     DEF Next

-----------------------------------------------------------------------------
(* From the client to the daemon.                                          *)

LEMMA UpStep == IInv /\ [Next]_vars => UpShape'
<1> SUFFICES ASSUME TypeOK, UpShape, [Next]_vars PROVE UpShape'
  BY DEF IInv
<1>1. ASSUME SendHello PROVE UpShape'
  <2>1. up \in Seq(0..Messages) /\ Hello \in 0..Messages
    BY ChannelAssumption DEF TypeOK, Hello
  <2>2. up # <<>> => Follows(up[Len(up)], Hello)
    BY <1>1 DEF SendHello, Retries, UpShape, Follows, Hello
  <2>3. Chained(up') /\ up'[Len(up')] = Hello
    BY <1>1, <2>1, <2>2, ChainedAppend DEF SendHello, UpShape
  <2> QED
    BY <1>1, <2>3 DEF SendHello, Retries, client, UpShape, Hello
<1>2. ASSUME Send PROVE UpShape'
  <2>1. up \in Seq(0..Messages) /\ sent + 1 \in 0..Messages
    BY <1>2, ChannelAssumption DEF Send, TypeOK
  <2>2. up # <<>> => Follows(up[Len(up)], sent + 1)
    BY <1>2 DEF Send, UpShape, Follows
  <2>3. Chained(up') /\ up'[Len(up')] = sent + 1
    BY <1>2, <2>1, <2>2, ChainedAppend DEF Send, UpShape
  <2> QED
    BY <1>2, <2>3 DEF Send, UpShape
<1>3. ASSUME FromClient PROVE UpShape'
  <2>1. up \in Seq(0..Messages) /\ up # <<>> /\ up' = Tail(up) /\ UNCHANGED <<cl, sent, wc>>
    BY <1>3 DEF FromClient, client, TypeOK
  <2>2. Chained(up') /\ (up' # <<>> => up'[Len(up')] = up[Len(up)])
    BY <2>1, ChainedTail DEF UpShape
  <2> QED
    BY <2>1, <2>2 DEF UpShape
<1>4. ASSUME ClientGone PROVE UpShape'
  BY <1>4, ChainedEmpty DEF ClientGone, client, UpShape
<1>5. CASE UNCHANGED <<up, sent>> /\ (cl' = "handshaking" => cl = "handshaking")
           /\ (wc' = "gone" => cl' = "closed")
  BY <1>5 DEF UpShape
<1>6. ASSUME Receive PROVE UpShape'
  <2>1. cl # "closed" /\ (cl' = "handshaking" => cl = "handshaking")
    BY <1>6, ClientFacts
  <2>2. UNCHANGED <<up, sent, wc>>
    BY <1>6 DEF Receive
  <2> QED
    BY <2>1, <2>2 DEF UpShape
<1>7. ASSUME ClientCloses PROVE UpShape'
  BY <1>5, <1>7 DEF ClientCloses
<1>8. ASSUME Dial PROVE UpShape'
  BY <1>5, <1>8 DEF Dial, client, links, UpShape
<1>9. ASSUME NEW n \in N, DataGone(n) PROVE UpShape'
  <2>1. UNCHANGED <<cl, up, sent>> /\ (wc' = "gone" => wc = "gone")
    BY <1>9 DEF DataGone, Kicked, client, links
  <2> QED
    BY <1>5, <2>1 DEF UpShape
<1>10. ASSUME NEW n \in N, \/ FromDaemon(n) \/ Accept(n) \/ Opens(n) \/ DaemonReceives(n)
                           \/ DaemonSends(n) \/ DataClosed(n) \/ Break(n)
       PROVE  UpShape'
  <2>1. UNCHANGED <<cl, up, sent, wc>>
    BY <1>10 DEF FromDaemon, Accept, Opens, DaemonReceives, DaemonSends, DataClosed, Break, client, links
  <2> QED
    BY <1>5, <2>1 DEF UpShape
<1>11. CASE UNCHANGED vars
  BY <1>5, <1>11 DEF vars, UpShape
<1> QED
  BY <1>1, <1>2, <1>3, <1>4, <1>6, <1>7, <1>8, <1>9, <1>10, <1>11 DEF Next

(* A frame keeps leading up to the next one.                               *)
LEMMA LeadsStays ==
  ASSUME TypeOK, UpShape, SendHello \/ Send, NEW x \in Nat, Leads(x, up, sent)
  PROVE  Leads(x, up', sent')
<1>1. up \in Seq(0..Messages) /\ sent \in Nat /\ Hello \in 0..Messages
  BY ChannelAssumption DEF TypeOK, Hello
<1>2. CASE up # <<>>
  <2>1. up' # <<>> /\ up'[1] = up[1]
    <3>1. CASE SendHello
      BY <1>1, <1>2, <3>1, AppendFacts DEF SendHello
    <3>2. CASE Send
      <4>1. sent + 1 \in 0..Messages
        BY <3>2, ChannelAssumption DEF Send, TypeOK
      <4> QED
        BY <1>1, <1>2, <3>2, <4>1, AppendFacts DEF Send
    <3> QED
      BY <3>1, <3>2
  <2> QED
    BY <1>2, <2>1 DEF Leads
<1>3. CASE up = <<>>
  <2>1. CASE SendHello
    <3>1. up' = <<Hello>> /\ x = 0
      BY <1>3, <2>1 DEF SendHello, Retries, UpShape, Leads
    <3>2. up' # <<>> /\ up'[1] = Hello
      BY <3>1
    <3> QED
      BY <3>1, <3>2 DEF Leads, Follows, Hello
  <2>2. CASE Send
    <3>1. up' = <<sent + 1>> /\ x = sent
      BY <1>3, <2>2 DEF Send, Leads
    <3>2. up' # <<>> /\ up'[1] = sent + 1
      BY <3>1
    <3> QED
      BY <3>1, <3>2 DEF Leads, Follows
  <2> QED
    BY <2>1, <2>2
<1> QED
  BY <1>2, <1>3

(* The frame that the worker takes leads up to what is left.               *)
LEMMA LeadsMoves ==
  ASSUME TypeOK, UpShape, FromClient
  PROVE  /\ up # <<>> /\ Head(up) = up[1] /\ Head(up) \in 0..Messages
         /\ Leads(Head(up), up', sent')
<1>1. up \in Seq(0..Messages) /\ up # <<>> /\ up' = Tail(up) /\ sent' = sent
  BY DEF FromClient, client, TypeOK
<1>2. Head(up) = up[1] /\ Head(up) \in 0..Messages /\ Len(up) \in Nat /\ (up' = <<>> <=> Len(up) = 1)
  BY <1>1, TailFacts
<1>3. up' # <<>> => Follows(Head(up), up'[1])
  BY <1>1, ChainedTail DEF UpShape
<1>4. up[Len(up)] = sent
  BY <1>1 DEF UpShape
<1>5. up' = <<>> => Head(up) = sent
  BY <1>2, <1>4
<1> QED
  BY <1>1, <1>2, <1>3, <1>5 DEF Leads

LEMMA LastIsNat ==
  ASSUME NEW s \in Seq(0..Messages), s # <<>>
  PROVE  s[Len(s)] \in Nat /\ s[1] \in Nat
BY ElementFacts, ChannelAssumption

LEMMA BufStep == IInv /\ [Next]_vars => BufShape'
<1> SUFFICES ASSUME TypeOK, UpShape, BufShape, [Next]_vars PROVE BufShape'
  BY DEF IInv
<1> DEFINE Taken == \E n \in N : Listed(sock[n].w)
<1>1. ASSUME SendHello \/ Send PROVE BufShape'
  <2>1. UNCHANGED <<buf, sock, wc>>
    BY <1>1 DEF SendHello, Send, client
  <2>2. buf # <<>> => Leads(buf[Len(buf)], up', sent')
    <3> SUFFICES ASSUME buf # <<>> PROVE Leads(buf[Len(buf)], up', sent')
      OBVIOUS
    <3>1. buf[Len(buf)] \in Nat /\ Leads(buf[Len(buf)], up, sent)
      BY LastIsNat DEF BufShape, TypeOK
    <3> QED
      BY <1>1, <3>1, LeadsStays
  <2> QED
    BY <2>1, <2>2 DEF BufShape
<1>2. ASSUME FromClient PROVE BufShape'
  <2>1. UNCHANGED <<sock, wc>> /\ wc # "gone" /\ buf' = IF Taken THEN buf ELSE Buffered(Head(up))
    BY <1>2 DEF FromClient
  <2>2. /\ up # <<>> /\ Head(up) = up[1] /\ Head(up) \in 0..Messages
        /\ Leads(Head(up), up', sent') /\ buf \in Seq(0..Messages)
    BY <1>2, LeadsMoves DEF TypeOK
  <2>3. buf # <<>> => Follows(buf[Len(buf)], Head(up))
    BY <2>2 DEF BufShape, Leads
  <2>4. CASE Taken
    BY <2>1, <2>4, ChainedEmpty DEF BufShape
  <2>5. CASE ~Taken
    <3>1. CASE buf' = Append(buf, Head(up))
      <4>1. Chained(buf') /\ buf'[Len(buf')] = Head(up)
        BY <2>2, <2>3, <3>1, ChainedAppend DEF BufShape
      <4> QED
        BY <2>1, <2>2, <2>5, <4>1 DEF BufShape
    <3>2. CASE buf' = Append(Tail(buf), Head(up)) /\ ~(Len(buf) < Buffer)
      <4>1. buf # <<>>
        BY <2>2, <3>2, ElementFacts, ChannelAssumption
      <4>2. Tail(buf) \in Seq(0..Messages)
        BY <2>2, <4>1, TailFacts
      <4>3. Chained(Tail(buf)) /\ (Tail(buf) # <<>> => Follows(Tail(buf)[Len(Tail(buf))], Head(up)))
        BY <2>2, <2>3, <4>1, ChainedTail DEF BufShape
      <4>4. Chained(buf') /\ buf'[Len(buf')] = Head(up)
        BY <2>2, <3>2, <4>2, <4>3, ChainedAppend
      <4> QED
        BY <2>1, <2>2, <2>5, <4>4 DEF BufShape
    <3> QED
      BY <2>1, <2>5, <3>1, <3>2 DEF Buffered
  <2> QED
    BY <2>4, <2>5
<1>3. ASSUME ClientGone \/ (\E n \in N : Accept(n)) PROVE BufShape'
  <2>1. buf' = <<>>
    BY <1>3 DEF ClientGone, Accept
  <2> QED
    BY <2>1, ChainedEmpty DEF BufShape
<1>4. CASE UNCHANGED <<buf, up, sent>> /\ (wc' = "gone" => wc = "gone") /\ (Taken' => Taken)
  BY <1>4 DEF BufShape
<1>5. CASE UNCHANGED <<buf, up, sent, wc, sock>>
  BY <1>4, <1>5
<1>6. ASSUME Receive \/ ClientCloses PROVE BufShape'
  BY <1>5, <1>6 DEF Receive, ClientCloses
<1>7. ASSUME Dial PROVE BufShape'
  <2>1. PICK n \in N : SameBut(n) /\ sock'[n].w = "asked"
    BY <1>7, DialFacts DEF Fields
  <2>2. Taken' => Taken
    BY <2>1 DEF SameBut, Listed
  <2> QED
    BY <1>4, <1>7, <2>2 DEF Dial, client, links
<1>8. ASSUME NEW n \in N, FromDaemon(n) PROVE BufShape'
  BY <1>5, <1>8 DEF FromDaemon, client
<1>9. ASSUME NEW n \in N, DataGone(n) PROVE BufShape'
  <2>1. SameBut(n) /\ sock'[n].w = "gone"
    BY <1>9, EndFacts DEF Fields
  <2>2. Taken' => Taken
    BY <2>1 DEF SameBut, Listed
  <2>3. wc' = "gone" => wc = "gone"
    BY <1>9 DEF DataGone, Kicked
  <2> QED
    BY <1>4, <1>9, <2>2, <2>3 DEF DataGone, client, links
<1>10. ASSUME NEW n \in N, Opens(n) \/ DaemonReceives(n) \/ DaemonSends(n) \/ DataClosed(n) \/ Break(n)
       PROVE  BufShape'
  <2>1. SameBut(n) /\ sock'[n].w = sock[n].w
    BY <1>10, EndFacts, ReceiveFacts DEF Fields
  <2>2. Taken' => Taken
    BY <2>1 DEF SameBut, Listed
  <2>3. UNCHANGED <<buf, up, sent, wc>>
    BY <1>10 DEF Opens, DaemonReceives, DaemonSends, DataClosed, Break, client, links
  <2> QED
    BY <1>4, <2>2, <2>3
<1>11. CASE UNCHANGED vars
  BY <1>5, <1>11 DEF vars
<1> HIDE DEF Taken
<1> QED
  BY <1>1, <1>2, <1>3, <1>6, <1>7, <1>8, <1>9, <1>10, <1>11 DEF Next

LEMMA FreshStep == IInv /\ [Next]_vars => FreshShape'
<1> SUFFICES ASSUME TypeOK, FreshShape, [Next]_vars PROVE FreshShape'
  BY DEF IInv
<1>1. CASE UNCHANGED sock
  BY <1>1 DEF FreshShape
<1>2. ASSUME ClientGone \/ \E n \in N : Accept(n) PROVE FreshShape'
  <2>1. OnlyW /\ \A m \in N : sock[m].w = "none" => sock'[m].w = "none"
    BY <1>2, GoneFacts, AcceptFacts, SockTyped
  <2> QED
    BY <2>1 DEF OnlyW, FreshShape
<1>3. ASSUME Dial PROVE FreshShape'
  BY <1>3, DialFacts DEF SameBut, Fields, FreshShape
<1>4. ASSUME NEW n \in N,
             DataGone(n) \/ Opens(n) \/ DaemonReceives(n) \/ DaemonSends(n) \/ DataClosed(n) \/ Break(n)
      PROVE  FreshShape'
  <2>1. SameBut(n) /\ sock'[n].d # "none" /\ (sock'[n].d # "connecting")
    BY <1>4, EndFacts, ReceiveFacts DEF Fields
  <2> QED
    BY <2>1 DEF SameBut, FreshShape
<1>5. ASSUME SendHello \/ Send \/ Receive \/ ClientCloses \/ FromClient \/ (\E n \in N : FromDaemon(n))
             \/ UNCHANGED vars
      PROVE  UNCHANGED sock
  BY <1>5 DEF SendHello, Send, Receive, ClientCloses, FromClient, FromDaemon, vars
<1> QED
  BY <1>1, <1>2, <1>3, <1>4, <1>5 DEF Next

(* One socket reads a frame of what it has.                                *)
LEMMA ReadsOne ==
  ASSUME TypeOK, SockShape, NEW n \in N, DaemonReceives(n)
  PROVE  /\ SockOK(sock'[n], in'[n], up, sent)
         /\ sock'[n].last \in {sock[n].last, sock[n].last + 1}
<1> DEFINE s == sock[n]
           q == in[n]
           r == sock'[n]
<1>1. /\ q \in Seq(0..Messages) /\ q # <<>> /\ in'[n] = Tail(q) /\ s.d # "closed"
      /\ r.w = s.w
      /\ SockOK(s, q, up, sent) /\ Reads(s, q, up, sent)
  BY ReceiveFacts DEF TypeOK, SockShape, SockOK
<1>2. /\ Chained(Tail(q))
      /\ Tail(q) # <<>> => Follows(Head(q), Tail(q)[1]) /\ Tail(q)[Len(Tail(q))] = q[Len(q)]
  BY <1>1, ChainedTail DEF Reads
<1>3. Head(q) = q[1] /\ (Tail(q) = <<>> => q[Len(q)] = Head(q)) /\ Head(q) \in Nat /\ s.last \in Nat
  <2>1. Head(q) = q[1] /\ Head(q) \in 0..Messages /\ (Tail(q) = <<>> => Len(q) = 1)
    BY <1>1, TailFacts
  <2>2. s.last \in 0..Messages
    BY SockTyped DEF SockType
  <2> QED
    BY <2>1, <2>2, ChannelAssumption
<1>4. s.w \notin {"none", "asked"}
  BY <1>1 DEF SockOK
<1>5. Tail(q) # <<>> /\ s.w = "open" => Leads(Tail(q)[Len(Tail(q))], up, sent)
  BY <1>1, <1>2 DEF Reads
<1>6. Tail(q) = <<>> /\ s.w = "open" => Leads(Head(q), up, sent)
  BY <1>1, <1>3 DEF Reads
<1> DEFINE Same == r.last = s.last
<1>7. CASE s.shake \in {"hello", "open"} /\ Head(q) = Hello /\ r.shake = "open" /\ Same
  <2>1. s.last = Head(q)
    BY <1>1, <1>3, <1>7 DEF SockOK, Reads, Follows, Hello
  <2> QED
    BY <1>1, <1>2, <1>4, <1>5, <1>6, <1>7, <2>1 DEF SockOK, Reads
<1>8. CASE r.shake = "failed" /\ Same
  BY <1>1, <1>2, <1>4, <1>5, <1>6, <1>8 DEF SockOK, Reads
<1>9. CASE s.shake = "open" /\ Head(q) # Hello /\ r.shake = "open" /\ r.last = Head(q)
  <2>1. Head(q) = s.last + 1
    BY <1>1, <1>3, <1>9 DEF Reads, Follows
  <2> QED
    BY <1>1, <1>2, <1>4, <1>5, <1>6, <1>9, <2>1 DEF SockOK, Reads
<1>10. CASE s.shake = "open" /\ Head(q) # Hello /\ ~(Head(q) > s.last)
  <2>1. Head(q) = s.last + 1
    BY <1>1, <1>3, <1>10 DEF Reads, Follows
  <2> QED
    BY <1>3, <1>10, <2>1
<1>11. \/ s.shake \in {"hello", "open"} /\ Head(q) = Hello /\ r.shake = "open" /\ Same
       \/ r.shake = "failed" /\ Same
       \/ s.shake = "open" /\ Head(q) # Hello /\ r.shake = "open" /\ r.last = Head(q)
       \/ s.shake = "open" /\ Head(q) # Hello /\ ~(Head(q) > s.last)
  BY ReceiveFacts DEF Fields
<1> QED
  BY <1>7, <1>8, <1>9, <1>10, <1>11

(* A frame of the client reaches one socket.                               *)
LEMMA TakesOne ==
  ASSUME TypeOK, UpShape, SockShape, FromClient, NEW n \in N
  PROVE  SockOK(sock[n], in'[n], up', sent')
<1> DEFINE s == sock[n]
           q == in[n]
           f == Head(up)
<1>1. /\ up # <<>> /\ f = up[1] /\ f \in 0..Messages /\ Leads(f, up', sent')
      /\ q \in Seq(0..Messages) /\ SockOK(s, q, up, sent)
  BY LeadsMoves DEF TypeOK, SockShape
<1>2. in'[n] = IF s.w = "open" THEN Append(q, f) ELSE q
  BY DEF FromClient
<1> SUFFICES SockOK(s, in'[n], up', sent')
  OBVIOUS
<1> HIDE DEF s, q, f
<1>3. CASE s.w # "open"
  BY <1>1, <1>2, <1>3 DEF SockOK, Reads
<1>4. CASE s.w = "open"
  <2> DEFINE t == Append(q, f)
  <2>1. CASE s.d = "closed"
    BY <1>1, <1>4, <2>1 DEF SockOK
  <2>2. CASE s.d # "closed"
    <3>1. Reads(s, q, up, sent)
      BY <1>1, <2>2 DEF SockOK
    <3>2. q # <<>> => Follows(q[Len(q)], f)
      BY <1>1, <1>4, <3>1 DEF Reads, Leads
    <3>3. Chained(t) /\ t[Len(t)] = f
      BY <1>1, <3>1, <3>2, ChainedAppend DEF Reads
    <3>4. t # <<>> /\ (q # <<>> => t[1] = q[1]) /\ (q = <<>> => t[1] = f)
      BY <1>1, AppendFacts, EmptyFacts
    <3>5. s.shake = "open" => Follows(s.last, t[1])
      BY <1>1, <1>4, <3>1, <3>4 DEF Reads, Leads
    <3> HIDE DEF t
    <3>6. Reads(s, t, up', sent')
      BY <1>1, <3>3, <3>4, <3>5 DEF Reads
    <3> QED
      BY <1>1, <1>2, <1>4, <3>6, <3>4 DEF SockOK, t
  <2> QED
    BY <2>1, <2>2
<1> QED
  BY <1>3, <1>4

LEMMA SockStep == IInv /\ [Next]_vars => SockShape'
<1> SUFFICES ASSUME TypeOK, UpShape, BufShape, SockShape, FreshShape, [Next]_vars, NEW m \in N
             PROVE  SockOK(sock'[m], in'[m], up', sent')
  BY DEF IInv, SockShape
<1> DEFINE Goal == SockOK(sock'[m], in'[m], up', sent')
<1>0. SockOK(sock[m], in[m], up, sent) /\ in[m] \in Seq(0..Messages) /\ sock[m].last \in Nat
  BY SockTyped, ChannelAssumption DEF SockShape, TypeOK, SockType
<1>1. ASSUME SendHello \/ Send PROVE Goal
  <2>1. UNCHANGED <<sock, in>>
    BY <1>1 DEF SendHello, Send, queues
  <2>2. in[m] # <<>> /\ Leads(in[m][Len(in[m])], up, sent) => Leads(in[m][Len(in[m])], up', sent')
    BY <1>0, <1>1, LastIsNat, LeadsStays
  <2>3. Leads(sock[m].last, up, sent) => Leads(sock[m].last, up', sent')
    BY <1>0, <1>1, LeadsStays
  <2> QED
    BY <1>0, <2>1, <2>2, <2>3 DEF SockOK, Reads
<1>2. ASSUME FromClient PROVE Goal
  <2>1. UNCHANGED sock
    BY <1>2 DEF FromClient
  <2> QED
    BY <1>2, <2>1, TakesOne
<1>3. ASSUME ClientGone PROVE Goal
  <2>1. /\ sock'[m].d = sock[m].d /\ sock'[m].shake = sock[m].shake /\ sock'[m].last = sock[m].last
        /\ sock'[m].w # "open" /\ (sock'[m].w \in {"none", "asked"} => sock[m].w \in {"none", "asked"})
        /\ in' = in
    BY <1>3, GoneFacts, SockTyped DEF OnlyW, ClientGone, queues
  <2> QED
    BY <1>0, <2>1 DEF SockOK, Reads
<1>4. ASSUME Dial PROVE Goal
  <2>1. PICK n \in N : /\ SameBut(n) /\ sock[n].d = "none"
                       /\ Fields(n, "connecting", "asked", sock[n].shake, sock[n].last, sock[n].sent)
    BY <1>4, DialFacts
  <2>2. UNCHANGED <<up, sent, in>>
    BY <1>4 DEF Dial, client, links, queues
  <2>3. CASE m # n
    BY <1>0, <2>1, <2>2, <2>3 DEF SameBut
  <2>4. CASE m = n
    <3>1. sock[n].w = "none"
      BY <2>1 DEF FreshShape
    <3> QED
      BY <1>0, <2>1, <2>2, <2>4, <3>1, ChainedEmpty DEF Fields, SockOK, Reads
  <2> QED
    BY <2>3, <2>4
<1>5. ASSUME NEW n \in N, Accept(n) PROVE Goal
  <2>1. /\ UNCHANGED <<up, sent>> /\ in' = [in EXCEPT ![n] = buf] /\ sock[n].w = "asked"
        /\ sock'[m].d = sock[m].d /\ sock'[m].shake = sock[m].shake /\ sock'[m].last = sock[m].last
        /\ sock'[m].w = IF m = n THEN "open" ELSE IF sock[m].w = "open" THEN "closing" ELSE sock[m].w
    BY <1>5, AcceptFacts, SockTyped DEF OnlyW, Accept, client, links
  <2>2. CASE m # n
    <3>1. in'[m] = in[m] /\ sock'[m].w # "open"
          /\ (sock'[m].w \in {"none", "asked"} => sock[m].w \in {"none", "asked"})
      BY <2>1, <2>2 DEF TypeOK
    <3> QED
      BY <1>0, <2>1, <3>1 DEF SockOK, Reads
  <2>3. CASE m = n
    <3>1. in'[m] = buf /\ sock'[m].w = "open" /\ sock'[m].shake = "hello"
      BY <1>0, <2>1, <2>3 DEF TypeOK, SockOK
    <3> QED
      BY <1>0, <2>1, <3>1 DEF SockOK, Reads, BufShape
  <2> QED
    BY <2>2, <2>3
<1>6. ASSUME NEW n \in N, DaemonReceives(n) PROVE Goal
  <2>1. UNCHANGED <<up, sent>>
    BY <1>6 DEF DaemonReceives, client, links
  <2>2. CASE m = n
    BY <1>6, <2>1, <2>2, ReadsOne
  <2>3. CASE m # n
    <3>1. sock'[m] = sock[m] /\ in'[m] = in[m]
      BY <1>6, <2>3, ReceiveFacts DEF SameBut, TypeOK
    <3> QED
      BY <1>0, <2>1, <3>1
  <2> QED
    BY <2>2, <2>3
<1>7. ASSUME NEW n \in N, DataGone(n) \/ Opens(n) \/ DaemonSends(n) \/ DataClosed(n) \/ Break(n)
      PROVE  Goal
  <2>1. /\ SameBut(n) /\ sock'[n].shake = sock[n].shake /\ sock'[n].last = sock[n].last
        /\ (sock'[n].d # "closed" => sock[n].d # "closed") /\ sock'[n].w \in {sock[n].w, "gone"}
    BY <1>7, EndFacts DEF Fields
  <2>2. UNCHANGED <<up, sent>> /\ (in' = in \/ (in' = [in EXCEPT ![n] = <<>>] /\ sock'[n].d = "closed"))
    <3>1. CASE DataClosed(n)
      BY <3>1, EndFacts DEF DataClosed, client, links, Fields
    <3>2. CASE ~DataClosed(n)
      BY <1>7, <3>2 DEF DataGone, Opens, DaemonSends, Break, client, links, queues
    <3> QED
      BY <3>1, <3>2
  <2>3. CASE m # n
    <3>1. sock'[m] = sock[m] /\ in'[m] = in[m]
      BY <2>1, <2>2, <2>3 DEF SameBut, TypeOK
    <3> QED
      BY <1>0, <2>2, <3>1
  <2>4. CASE m = n
    <3>1. in'[m] = in[m] \/ (in'[m] = <<>> /\ sock'[m].d = "closed")
      BY <2>2, <2>4 DEF TypeOK
    <3> QED
      BY <1>0, <2>1, <2>2, <2>4, <3>1 DEF SockOK, Reads
  <2> QED
    BY <2>3, <2>4
<1>8. ASSUME Receive \/ ClientCloses \/ (\E n \in N : FromDaemon(n)) \/ UNCHANGED vars PROVE Goal
  <2>1. UNCHANGED <<sock, in, up, sent>>
    BY <1>8 DEF Receive, ClientCloses, FromDaemon, vars, queues, client
  <2> QED
    BY <1>0, <2>1
<1> QED
  BY <1>1, <1>2, <1>3, <1>4, <1>5, <1>6, <1>7, <1>8 DEF Next

(* Only reading delivers.                                                  *)
LEMMA GapStep ==
  IInv /\ [Next]_vars => \A n \in N : sock'[n].last \in {sock[n].last, sock[n].last + 1}
<1> SUFFICES ASSUME TypeOK, SockShape, [Next]_vars, NEW m \in N
             PROVE  sock'[m].last \in {sock[m].last, sock[m].last + 1}
  BY DEF IInv
<1>1. ASSUME NEW n \in N, DaemonReceives(n)
      PROVE  sock'[m].last \in {sock[m].last, sock[m].last + 1}
  BY <1>1, ReadsOne, ReceiveFacts DEF SameBut
<1>2. ASSUME NEW n \in N, DataGone(n) \/ Opens(n) \/ DaemonSends(n) \/ DataClosed(n) \/ Break(n)
      PROVE  sock'[m].last = sock[m].last
  BY <1>2, EndFacts DEF SameBut, Fields
<1>3. ASSUME Dial PROVE sock'[m].last = sock[m].last
  BY <1>3, DialFacts DEF SameBut, Fields
<1>4. ASSUME ClientGone \/ \E n \in N : Accept(n) PROVE sock'[m].last = sock[m].last
  BY <1>4, GoneFacts, AcceptFacts, SockTyped DEF OnlyW
<1>5. ASSUME \/ SendHello \/ Send \/ Receive \/ ClientCloses \/ FromClient
             \/ (\E n \in N : FromDaemon(n)) \/ UNCHANGED vars
      PROVE  sock'[m].last = sock[m].last
  BY <1>5 DEF SendHello, Send, Receive, ClientCloses, FromClient, FromDaemon, vars
<1> QED
  BY <1>1, <1>2, <1>3, <1>4, <1>5 DEF Next

-----------------------------------------------------------------------------
(* From the daemon to the client: what a step does to the frames under way. *)

Frame == [salt : N, frame : 0..Replies]

(* A socket that sends no message and does not come to have a channel.      *)
Kept(n) ==
  /\ sock'[n].sent = sock[n].sent
  /\ sock'[n].d = "open" => sock[n].d = "open" \/ sock[n].sent = 0
  /\ sock'[n].shake = "open" /\ sock'[n].d = "open" => sock[n].shake = "open" /\ sock[n].d = "open"

Still == /\ UNCHANGED <<cl, recv, down, out>> /\ (wc' = "open" => wc = "open")
         /\ \A n \in N : Kept(n)
Closing == down' = <<>> /\ cl' = "closed" /\ UNCHANGED <<recv, out, sock, wc>>
Moving(n) ==
  /\ out[n] # <<>> /\ out' = [out EXCEPT ![n] = Tail(@)]
  /\ down' = IF Connected THEN Append(down, [salt |-> n, frame |-> Head(out[n])]) ELSE down
  /\ UNCHANGED <<cl, recv, sock, wc>>
Dropping(n) ==
  /\ out' = [out EXCEPT ![n] = <<>>] /\ UNCHANGED <<cl, recv, down>>
  /\ wc' = "open" => wc = "open"
  /\ \A m \in N : Kept(m)
  /\ sock'[n].d # "open"
Answering(n) ==
  /\ out' = [out EXCEPT ![n] = Append(@, Ready)] /\ UNCHANGED <<cl, recv, down, wc>>
  /\ sock'[n].sent = sock[n].sent /\ sock'[n].d = sock[n].d
  /\ \A m \in N : m # n => Kept(m)
Sending(n) ==
  /\ out' = [out EXCEPT ![n] = Append(@, sock[n].sent + 1)] /\ UNCHANGED <<cl, recv, down, wc>>
  /\ sock'[n].sent = sock[n].sent + 1 /\ sock[n].d = "open" /\ sock[n].shake = "open"
  /\ sock[n].sent < Replies
  /\ \A m \in N : m # n => Kept(m)
Receiving == Receive /\ UNCHANGED <<out, sock, wc>>

LEMMA StepKinds ==
  IInv /\ [Next]_vars =>
    \/ Still \/ Closing \/ Receiving
    \/ \E n \in N : Moving(n) \/ Dropping(n) \/ Answering(n) \/ Sending(n)
<1> DEFINE Goal == \/ Still \/ Closing \/ Receiving
                   \/ \E n \in N : Moving(n) \/ Dropping(n) \/ Answering(n) \/ Sending(n)
<1> SUFFICES ASSUME TypeOK, FreshShape, [Next]_vars PROVE Goal
  BY DEF IInv
<1>1. ASSUME SendHello \/ Send \/ FromClient \/ UNCHANGED vars PROVE Still
  <2>1. UNCHANGED <<cl, recv, down, out, wc, sock>>
    BY <1>1 DEF SendHello, Send, FromClient, vars, client, queues
  <2> QED
    BY <2>1 DEF Still, Kept
<1>2. ASSUME ClientGone PROVE Still
  <2>1. UNCHANGED <<cl, recv, down, out>> /\ wc' # "open"
    BY <1>2 DEF ClientGone, client, queues
  <2>2. \A n \in N : Kept(n)
    BY <1>2, GoneFacts, SockTyped DEF OnlyW, Kept
  <2> QED
    BY <2>1, <2>2 DEF Still
<1>3. ASSUME NEW n \in N, Accept(n) PROVE Still
  <2>1. UNCHANGED <<cl, recv, down, out, wc>>
    BY <1>3 DEF Accept, client, links
  <2>2. \A m \in N : Kept(m)
    BY <1>3, AcceptFacts, SockTyped DEF OnlyW, Kept
  <2> QED
    BY <2>1, <2>2 DEF Still
<1>4. ASSUME Dial PROVE Still
  <2>1. UNCHANGED <<cl, recv, down, out, wc>>
    BY <1>4 DEF Dial, client, links, queues
  <2>2. PICK n \in N : /\ SameBut(n) /\ sock[n].d = "none"
                       /\ Fields(n, "connecting", "asked", sock[n].shake, sock[n].last, sock[n].sent)
    BY <1>4, DialFacts
  <2>3. \A m \in N : Kept(m)
    BY <2>2 DEF SameBut, Fields, Kept
  <2> QED
    BY <2>1, <2>3 DEF Still
<1>5. ASSUME NEW n \in N, Opens(n) \/ DataClosed(n) \/ Break(n) PROVE Still
  <2>1. UNCHANGED <<cl, recv, down, out, wc>>
    BY <1>5 DEF Opens, DataClosed, Break, client, links, queues
  <2>2. /\ SameBut(n) /\ sock'[n].sent = sock[n].sent /\ sock'[n].shake = sock[n].shake
        /\ sock'[n].d = "open" => sock[n].d = "connecting"
    BY <1>5, EndFacts DEF Fields
  <2>3. \A m \in N : Kept(m)
    BY <2>2 DEF SameBut, Kept, FreshShape
  <2> QED
    BY <2>1, <2>3 DEF Still
<1>6. ASSUME ClientCloses PROVE Closing
  BY <1>6 DEF ClientCloses, Closing, queues
<1>7. ASSUME Receive PROVE Receiving
  BY <1>7 DEF Receive, Receiving, queues
<1>8. ASSUME NEW n \in N, FromDaemon(n) PROVE Moving(n)
  BY <1>8 DEF FromDaemon, Moving, Connected, client
<1>9. ASSUME NEW n \in N, DataGone(n) PROVE Dropping(n)
  <2>1. /\ out' = [out EXCEPT ![n] = <<>>] /\ UNCHANGED <<cl, recv, down>>
        /\ (wc' = "open" => wc = "open")
    BY <1>9 DEF DataGone, Kicked, client, links
  <2>2. /\ SameBut(n) /\ sock'[n].d # "open" /\ sock'[n].sent = sock[n].sent
    BY <1>9, EndFacts DEF Fields
  <2>3. \A m \in N : Kept(m)
    BY <2>2 DEF SameBut, Kept
  <2> QED
    BY <2>1, <2>2, <2>3 DEF Dropping
<1>10. ASSUME NEW n \in N, DaemonReceives(n) PROVE Answering(n) \/ Still
  <2>1. UNCHANGED <<cl, recv, down, wc>>
    BY <1>10 DEF DaemonReceives, client, links
  <2>2. SameBut(n) /\ sock'[n].sent = sock[n].sent
    BY <1>10, ReceiveFacts
  <2>3. \A m \in N : m # n => Kept(m)
    BY <2>2 DEF SameBut, Kept
  <2>4. CASE Answered(n) /\ sock[n].d = "open" /\ sock'[n].d = "open"
    BY <2>1, <2>2, <2>3, <2>4 DEF Answered, Answering
  <2>5. CASE out' = out /\ (sock'[n].d = "open" => sock[n].d = "open")
             /\ (sock'[n].shake = "open" /\ sock'[n].d = "open" => sock[n].shake = "open")
    <3>1. Kept(n)
      BY <2>2, <2>5 DEF Kept
    <3> QED
      BY <2>1, <2>3, <2>5, <3>1 DEF Still
  <2>6. \/ Answered(n) /\ sock[n].d = "open" /\ sock'[n].d = "open"
        \/ out' = out /\ (sock'[n].d = "open" => sock[n].d = "open")
             /\ (sock'[n].shake = "open" /\ sock'[n].d = "open" => sock[n].shake = "open")
    BY <1>10, ReceiveFacts DEF Fields, Answered
  <2> QED
    BY <2>4, <2>5, <2>6
<1>11. ASSUME NEW n \in N, DaemonSends(n) PROVE Sending(n)
  <2>1. UNCHANGED <<cl, recv, down, wc>> /\ out' = [out EXCEPT ![n] = Append(@, sock[n].sent + 1)]
    BY <1>11 DEF DaemonSends, client, links
  <2>2. /\ SameBut(n) /\ sock'[n].sent = sock[n].sent + 1 /\ sock[n].d = "open" /\ sock[n].shake = "open"
        /\ sock[n].sent < Replies
    BY <1>11, EndFacts DEF Fields
  <2>3. \A m \in N : m # n => Kept(m)
    BY <2>2 DEF SameBut, Kept
  <2> QED
    BY <2>1, <2>2, <2>3 DEF Sending
<1> QED
  BY <1>1, <1>2, <1>3, <1>4, <1>5, <1>6, <1>7, <1>8, <1>9, <1>10, <1>11 DEF Next

(* The types the sequence facts need.                                      *)
LEMMA Typed ==
  ASSUME TypeOK
  PROVE  /\ down \in Seq(Frame) /\ Len(down) \in Nat
         /\ \A i \in 1..Len(down) : down[i] \in Frame /\ down[i].salt \in N /\ down[i].frame \in Nat
         /\ \A n \in N : /\ out[n] \in Seq(0..Replies) /\ Len(out[n]) \in Nat
                         /\ sock[n].sent \in Nat
                         /\ \A i \in 1..Len(out[n]) : out[n][i] \in Nat
         /\ recv.salt \in Nat /\ recv.last \in Nat
         /\ \A n \in N : n \in Nat /\ n # 0
<1>1. down \in Seq(Frame)
  BY DEF TypeOK, Frame
<1>2. Len(down) \in Nat /\ \A i \in 1..Len(down) : down[i] \in Frame
  BY <1>1, ElementFacts
<1>3. \A i \in 1..Len(down) : down[i].salt \in N /\ down[i].frame \in Nat
  BY <1>2, ChannelAssumption DEF Frame
<1>4. \A n \in N : out[n] \in Seq(0..Replies) /\ sock[n].sent \in Nat
  BY SockTyped, ChannelAssumption DEF TypeOK, SockType
<1>5. ASSUME NEW n \in N
      PROVE  Len(out[n]) \in Nat /\ \A i \in 1..Len(out[n]) : out[n][i] \in Nat
  BY <1>4, ElementFacts, ChannelAssumption
<1>6. recv.salt \in Nat /\ recv.last \in Nat
  BY ChannelAssumption DEF TypeOK
<1> QED
  BY <1>1, <1>2, <1>3, <1>4, <1>5, <1>6, ChannelAssumption DEF N

(* The steps, index by index.                                              *)
LEMMA ReceivingFacts ==
  ASSUME TypeOK, Receiving
  PROVE  /\ Len(down) \in Nat /\ Len(down) >= 1 /\ Len(down') = Len(down) - 1
         /\ Head(down) = down[1] /\ down[1] \in Frame
         /\ \A i \in 1..Len(down') : i + 1 \in 1..Len(down) /\ down'[i] = down[i + 1]
<1>1. down \in Seq(Frame) /\ down # <<>> /\ down' = Tail(down)
  BY Typed DEF Receiving, Receive
<1>2. /\ Head(down) \in Frame /\ Head(down) = down[1] /\ Len(down) \in Nat /\ Len(down) >= 1
      /\ Len(Tail(down)) = Len(down) - 1
  BY <1>1, TailFacts
<1>3. \A i \in 1..Len(Tail(down)) : i + 1 \in 1..Len(down) /\ Tail(down)[i] = down[i + 1]
  BY <1>1, TailFacts
<1> QED
  BY <1>1, <1>2, <1>3

LEMMA MovingFacts ==
  ASSUME TypeOK, NEW n \in N, Moving(n)
  PROVE  /\ Len(out[n]) \in Nat /\ Len(out[n]) >= 1 /\ Len(out'[n]) = Len(out[n]) - 1
         /\ out[n][1] \in Nat
         /\ \A i \in 1..Len(out'[n]) : i + 1 \in 1..Len(out[n]) /\ out'[n][i] = out[n][i + 1]
         /\ \A m \in N : m # n => out'[m] = out[m]
         /\ \A i \in 1..Len(down) : i \in 1..Len(down') /\ down'[i] = down[i]
         /\ ~Connected => down' = down
         /\ Connected => /\ Len(down') = Len(down) + 1
                         /\ down'[Len(down) + 1].salt = n
                         /\ down'[Len(down) + 1].frame = out[n][1]
<1>1. out[n] \in Seq(0..Replies) /\ out[n] # <<>> /\ out'[n] = Tail(out[n])
      /\ \A m \in N : m # n => out'[m] = out[m]
  BY Typed DEF Moving, TypeOK
<1>2. /\ Len(out[n]) \in Nat /\ Len(out[n]) >= 1 /\ Len(out'[n]) = Len(out[n]) - 1
      /\ Head(out[n]) = out[n][1] /\ out[n][1] \in 0..Replies
      /\ \A i \in 1..Len(out'[n]) : i + 1 \in 1..Len(out[n]) /\ out'[n][i] = out[n][i + 1]
  <2>1. /\ Head(out[n]) \in 0..Replies /\ Head(out[n]) = out[n][1]
        /\ Len(out[n]) \in Nat /\ Len(out[n]) >= 1 /\ Len(Tail(out[n])) = Len(out[n]) - 1
    BY <1>1, TailFacts
  <2>2. \A i \in 1..Len(Tail(out[n])) : i + 1 \in 1..Len(out[n]) /\ Tail(out[n])[i] = out[n][i + 1]
    BY <1>1, TailFacts
  <2> QED
    BY <1>1, <2>1, <2>2
<1> DEFINE e == [salt |-> n, frame |-> out[n][1]]
<1>3. e \in Frame /\ e.salt = n /\ e.frame = out[n][1] /\ down \in Seq(Frame) /\ Len(down) \in Nat
  BY <1>2, Typed DEF Frame
<1>4. down' = IF Connected THEN Append(down, e) ELSE down
  BY <1>2 DEF Moving
<1> HIDE DEF e
<1>5. ASSUME Connected
      PROVE  /\ Len(down') = Len(down) + 1 /\ down'[Len(down) + 1] = e
             /\ \A i \in 1..Len(down) : i \in 1..Len(down') /\ down'[i] = down[i]
  BY <1>3, <1>4, <1>5, AppendFacts
<1> QED
  BY <1>1, <1>2, <1>3, <1>4, <1>5, ChannelAssumption

LEMMA GrowingFacts ==
  ASSUME TypeOK, NEW n \in N, NEW x \in 0..Replies, out' = [out EXCEPT ![n] = Append(@, x)]
  PROVE  /\ Len(out[n]) \in Nat /\ Len(out'[n]) = Len(out[n]) + 1
         /\ \A i \in 1..Len(out[n]) : i \in 1..Len(out'[n]) /\ out'[n][i] = out[n][i]
         /\ out'[n][Len(out[n]) + 1] = x
         /\ \A i \in 1..Len(out'[n]) : i \in 1..Len(out[n]) \/ i = Len(out[n]) + 1
         /\ \A m \in N : m # n => out'[m] = out[m]
<1>1. out[n] \in Seq(0..Replies) /\ out'[n] = Append(out[n], x)
      /\ \A m \in N : m # n => out'[m] = out[m]
  BY Typed DEF TypeOK
<1> QED
  BY <1>1, AppendFacts

LEMMA SendingTyped ==
  ASSUME TypeOK, NEW n \in N, Sending(n)
  PROVE  sock[n].sent + 1 \in 0..Replies
BY Typed, ChannelAssumption DEF Sending

LEMMA DroppingFacts ==
  ASSUME TypeOK, NEW n \in N, Dropping(n)
  PROVE  /\ Len(out'[n]) = 0 /\ \A i : i \notin 1..Len(out'[n])
         /\ \A m \in N : m # n => out'[m] = out[m]
<1>1. out'[n] = <<>> /\ \A m \in N : m # n => out'[m] = out[m]
  BY DEF Dropping, TypeOK
<1> QED
  BY <1>1, EmptyFacts

-----------------------------------------------------------------------------
(* Order.                                                                  *)

LEMMA OrderReceiving == TypeOK /\ Ordered /\ Receiving => Ordered'
<1> SUFFICES ASSUME TypeOK, Ordered, Receiving PROVE Ordered'
  OBVIOUS
<1> USE DEF Ordered
<1>1. /\ Len(down) \in Nat /\ Len(down) >= 1 /\ Len(down') = Len(down) - 1
      /\ Head(down) = down[1] /\ down[1] \in Frame
      /\ \A i \in 1..Len(down') : i + 1 \in 1..Len(down) /\ down'[i] = down[i + 1]
  BY ReceivingFacts
<1>2. /\ UNCHANGED <<out, sock>>
      /\ \/ recv' = recv
         \/ recv' = [salt |-> down[1].salt, last |-> down[1].frame] /\ down[1].frame # Ready
  BY <1>1, ClientFacts DEF Receiving
<1>3. 1 \in 1..Len(down)
  BY <1>1
<1>4. DownOrder'
  <2> SUFFICES ASSUME NEW i \in 1..Len(down'), NEW j \in 1..Len(down'),
                      i < j, down'[i].salt = down'[j].salt, down'[j].frame # Ready
               PROVE  down'[i].frame < down'[j].frame
    BY DEF DownOrder
  <2>1. i + 1 \in 1..Len(down) /\ j + 1 \in 1..Len(down) /\ i + 1 < j + 1
        /\ down'[i] = down[i + 1] /\ down'[j] = down[j + 1]
    BY <1>1
  <2> QED
    BY <2>1 DEF DownOrder
<1>5. OutOrder'
  BY <1>2 DEF OutOrder
<1>6. DownBeforeOut'
  BY <1>1, <1>2 DEF DownBeforeOut
<1>7. UpToSent'
  <2>1. CASE recv' = recv
    BY <1>1, <1>2, <2>1 DEF UpToSent
  <2>2. CASE recv' = [salt |-> down[1].salt, last |-> down[1].frame]
    <3>1. recv'.salt = down[1].salt /\ recv'.last = down[1].frame
      BY <2>2
    <3> QED
      BY <1>1, <1>2, <1>3, <3>1 DEF UpToSent
  <2> QED
    BY <1>2, <2>1, <2>2
<1>8. AfterRecv'
  <2>1. CASE recv' = recv
    BY <1>1, <1>2, <2>1 DEF AfterRecv
  <2>2. CASE recv' = [salt |-> down[1].salt, last |-> down[1].frame]
    <3>1. recv'.salt = down[1].salt /\ recv'.last = down[1].frame
      BY <2>2
    <3>2. ASSUME NEW i \in 1..Len(down'), down'[i].salt = recv'.salt, down'[i].frame # Ready
          PROVE  recv'.last < down'[i].frame
      <4>1. i + 1 \in 1..Len(down) /\ 1 < i + 1 /\ down'[i] = down[i + 1]
        BY <1>1
      <4> QED
        BY <1>3, <3>1, <3>2, <4>1 DEF DownOrder
    <3>3. ASSUME NEW n \in N, recv'.salt = n, NEW i \in 1..Len(out'[n]), out'[n][i] # Ready
          PROVE  recv'.last < out'[n][i]
      BY <1>2, <1>3, <3>1, <3>3 DEF DownBeforeOut
    <3> QED
      BY <3>2, <3>3 DEF AfterRecv
  <2> QED
    BY <1>2, <2>1, <2>2
<1> QED
  BY <1>4, <1>5, <1>6, <1>7, <1>8

LEMMA OrderMoving == TypeOK /\ Ordered /\ (\E n \in N : Moving(n)) => Ordered'
<1> SUFFICES ASSUME TypeOK, Ordered, NEW n \in N, Moving(n) PROVE Ordered'
  OBVIOUS
<1> USE DEF Ordered
<1>1. /\ Len(out[n]) \in Nat /\ Len(out[n]) >= 1 /\ Len(out'[n]) = Len(out[n]) - 1
      /\ out[n][1] \in Nat
      /\ \A i \in 1..Len(out'[n]) : i + 1 \in 1..Len(out[n]) /\ out'[n][i] = out[n][i + 1]
      /\ \A m \in N : m # n => out'[m] = out[m]
  BY MovingFacts
<1>2. \/ down' = down
      \/ /\ Len(down') = Len(down) + 1 /\ Len(down) \in Nat
         /\ down'[Len(down) + 1].salt = n /\ down'[Len(down) + 1].frame = out[n][1]
         /\ \A i \in 1..Len(down) : i \in 1..Len(down') /\ down'[i] = down[i]
  BY MovingFacts, Typed
<1>3. UNCHANGED <<recv, sock>> /\ 1 \in 1..Len(out[n])
  BY <1>1 DEF Moving
(* A frame under way in down is an old one, or the one that moved.          *)
<1>4. ASSUME NEW j \in 1..Len(down')
      PROVE  \/ j \in 1..Len(down) /\ down'[j] = down[j]
             \/ /\ j = Len(down) + 1 /\ Len(down) \in Nat
                /\ down'[j].salt = n /\ down'[j].frame = out[n][1]
  BY <1>2
<1>5. DownOrder'
  <2> SUFFICES ASSUME NEW i \in 1..Len(down'), NEW j \in 1..Len(down'),
                      i < j, down'[i].salt = down'[j].salt, down'[j].frame # Ready
               PROVE  down'[i].frame < down'[j].frame
    BY DEF DownOrder
  <2>1. CASE j \in 1..Len(down) /\ down'[j] = down[j]
    <3>1. i \in 1..Len(down) /\ down'[i] = down[i]
      BY <2>1, <1>4
    <3> QED
      BY <2>1, <3>1 DEF DownOrder
  <2>2. CASE /\ j = Len(down) + 1 /\ Len(down) \in Nat
             /\ down'[j].salt = n /\ down'[j].frame = out[n][1]
    <3>1. i \in 1..Len(down) /\ down'[i] = down[i]
      BY <2>2, <1>4
    <3> QED
      BY <1>3, <2>2, <3>1 DEF DownBeforeOut
  <2> QED
    BY <1>4, <2>1, <2>2
<1>6. OutOrder'
  <2> SUFFICES ASSUME NEW m \in N, NEW i \in 1..Len(out'[m]), NEW j \in 1..Len(out'[m]),
                      i < j, out'[m][j] # Ready
               PROVE  out'[m][i] < out'[m][j]
    BY DEF OutOrder
  <2>1. CASE m # n
    BY <1>1, <2>1 DEF OutOrder
  <2>2. CASE m = n
    <3>1. /\ i + 1 \in 1..Len(out[n]) /\ j + 1 \in 1..Len(out[n]) /\ i + 1 < j + 1
          /\ out'[n][i] = out[n][i + 1] /\ out'[n][j] = out[n][j + 1]
      BY <1>1, <2>2
    <3> QED
      BY <2>2, <3>1 DEF OutOrder
  <2> QED
    BY <2>1, <2>2
<1>7. DownBeforeOut'
  <2> SUFFICES ASSUME NEW m \in N, NEW i \in 1..Len(down'), NEW j \in 1..Len(out'[m]),
                      down'[i].salt = m, out'[m][j] # Ready
               PROVE  down'[i].frame < out'[m][j]
    BY DEF DownBeforeOut
  <2>1. CASE i \in 1..Len(down) /\ down'[i] = down[i]
    <3>1. CASE m # n
      BY <1>1, <2>1, <3>1 DEF DownBeforeOut
    <3>2. CASE m = n
      <4>1. j + 1 \in 1..Len(out[n]) /\ out'[n][j] = out[n][j + 1]
        BY <1>1, <3>2
      <4> QED
        BY <2>1, <3>2, <4>1 DEF DownBeforeOut
    <3> QED
      BY <3>1, <3>2
  <2>2. CASE down'[i].salt = n /\ down'[i].frame = out[n][1]
    <3>1. m = n /\ j + 1 \in 1..Len(out[n]) /\ 1 < j + 1 /\ out'[n][j] = out[n][j + 1]
      BY <1>1, <2>2
    <3> QED
      BY <1>3, <2>2, <3>1 DEF OutOrder
  <2> QED
    BY <1>4, <2>1, <2>2
<1>8. UpToSent'
  <2>1. ASSUME NEW m \in N, NEW i \in 1..Len(out'[m]) PROVE out'[m][i] <= sock'[m].sent
    <3>1. CASE m # n
      BY <1>1, <1>3, <3>1 DEF UpToSent
    <3>2. CASE m = n
      BY <1>1, <1>3, <3>2 DEF UpToSent
    <3> QED
      BY <3>1, <3>2
  <2>2. ASSUME NEW m \in N, NEW i \in 1..Len(down'), down'[i].salt = m
        PROVE  down'[i].frame <= sock'[m].sent
    BY <1>3, <1>4, <2>2 DEF UpToSent
  <2> QED
    BY <1>3, <2>1, <2>2 DEF UpToSent
<1>9. AfterRecv'
  <2>1. ASSUME NEW m \in N, recv.salt = m, NEW i \in 1..Len(out'[m]), out'[m][i] # Ready
        PROVE  recv.last < out'[m][i]
    <3>1. CASE m # n
      BY <1>1, <2>1, <3>1 DEF AfterRecv
    <3>2. CASE m = n
      BY <1>1, <2>1, <3>2 DEF AfterRecv
    <3> QED
      BY <3>1, <3>2
  <2>2. ASSUME NEW m \in N, recv.salt = m, NEW i \in 1..Len(down'), down'[i].salt = m, down'[i].frame # Ready
        PROVE  recv.last < down'[i].frame
    BY <1>3, <1>4, <2>2 DEF AfterRecv
  <2> QED
    BY <1>3, <2>1, <2>2 DEF AfterRecv
<1> QED
  BY <1>5, <1>6, <1>7, <1>8, <1>9

LEMMA OrderGrowing ==
  ASSUME TypeOK, Ordered, NEW n \in N, Answering(n) \/ Sending(n)
  PROVE  Ordered'
<1> USE DEF Ordered
<1>1. PICK x \in 0..Replies :
        /\ out' = [out EXCEPT ![n] = Append(@, x)]
        /\ sock[n].sent <= sock'[n].sent /\ x <= sock'[n].sent
        /\ x # Ready => sock[n].sent < x
  <2>1. CASE Answering(n)
    <3>1. Ready \in 0..Replies /\ Ready <= sock'[n].sent /\ sock[n].sent <= sock'[n].sent
      BY <2>1, Typed, ChannelAssumption DEF Answering, Ready
    <3> QED
      BY <2>1, <3>1 DEF Answering
  <2>2. CASE Sending(n)
    <3>1. sock[n].sent + 1 \in 0..Replies /\ sock[n].sent \in Nat /\ sock'[n].sent = sock[n].sent + 1
      BY <2>2, Typed, SendingTyped DEF Sending
    <3>2. /\ out' = [out EXCEPT ![n] = Append(@, sock[n].sent + 1)]
          /\ sock[n].sent <= sock'[n].sent /\ sock[n].sent + 1 <= sock'[n].sent
          /\ sock[n].sent < sock[n].sent + 1
      BY <2>2, <3>1 DEF Sending
    <3> QED
      BY <3>1, <3>2
  <2> QED
    BY <2>1, <2>2
<1>2. /\ UNCHANGED <<recv, down>>
      /\ \A m \in N : sock[m].sent <= sock'[m].sent /\ sock[m].sent \in Nat /\ sock'[m].sent \in Nat
  <2>1. UNCHANGED <<recv, down>> /\ \A m \in N : m # n => sock'[m].sent = sock[m].sent
    BY DEF Answering, Sending, Kept
  <2>2. sock'[n].sent \in Nat
    BY Typed DEF Answering, Sending
  <2>3. ASSUME NEW m \in N
        PROVE  sock[m].sent <= sock'[m].sent /\ sock[m].sent \in Nat /\ sock'[m].sent \in Nat
    <3>1. sock[m].sent \in Nat
      BY Typed
    <3>2. CASE m = n
      BY <1>1, <2>2, <3>1, <3>2
    <3>3. CASE m # n
      BY <2>1, <3>1, <3>3
    <3> QED
      BY <3>2, <3>3
  <2> QED
    BY <2>1, <2>3
<1>3. /\ Len(out[n]) \in Nat
      /\ \A i \in 1..Len(out[n]) : out'[n][i] = out[n][i]
      /\ out'[n][Len(out[n]) + 1] = x
      /\ \A i \in 1..Len(out'[n]) : i \in 1..Len(out[n]) \/ i = Len(out[n]) + 1
      /\ \A m \in N : m # n => out'[m] = out[m]
  BY <1>1, GrowingFacts
<1>4. /\ \A m \in N : \A i \in 1..Len(out[m]) : out[m][i] \in Nat
      /\ \A i \in 1..Len(down) : down[i].frame \in Nat
      /\ recv.last \in Nat /\ x \in Nat
  BY Typed, ChannelAssumption
<1>5. DownOrder'
  BY <1>2 DEF DownOrder
<1>6. OutOrder'
  <2> SUFFICES ASSUME NEW m \in N, NEW i \in 1..Len(out'[m]), NEW j \in 1..Len(out'[m]),
                      i < j, out'[m][j] # Ready
               PROVE  out'[m][i] < out'[m][j]
    BY DEF OutOrder
  <2>1. CASE m # n
    BY <1>3, <2>1 DEF OutOrder
  <2>2. CASE m = n /\ j \in 1..Len(out[n])
    BY <1>3, <2>2 DEF OutOrder
  <2>3. CASE m = n /\ j = Len(out[n]) + 1
    <3>1. i \in 1..Len(out[n]) /\ out'[m][i] = out[n][i] /\ out'[m][j] = x
      BY <1>3, <2>3
    <3>2. out[n][i] <= sock[n].sent /\ sock[n].sent < x
      BY <1>1, <2>3, <3>1 DEF UpToSent
    <3> QED
      BY <1>2, <1>4, <3>1, <3>2
  <2> QED
    BY <1>3, <2>1, <2>2, <2>3
<1>7. DownBeforeOut'
  <2> SUFFICES ASSUME NEW m \in N, NEW i \in 1..Len(down), NEW j \in 1..Len(out'[m]),
                      down[i].salt = m, out'[m][j] # Ready
               PROVE  down[i].frame < out'[m][j]
    BY <1>2 DEF DownBeforeOut
  <2>1. CASE m # n
    BY <1>3, <2>1 DEF DownBeforeOut
  <2>2. CASE m = n /\ j \in 1..Len(out[n])
    BY <1>3, <2>2 DEF DownBeforeOut
  <2>3. CASE m = n /\ j = Len(out[n]) + 1
    <3>1. down[i].frame <= sock[n].sent /\ sock[n].sent < x /\ out'[m][j] = x
      BY <1>1, <1>3, <2>3 DEF UpToSent
    <3> QED
      BY <1>2, <1>4, <3>1
  <2> QED
    BY <1>3, <2>1, <2>2, <2>3
<1>8. UpToSent'
  <2>1. ASSUME NEW m \in N, NEW i \in 1..Len(out'[m]) PROVE out'[m][i] <= sock'[m].sent
    <3>1. CASE m # n
      BY <1>2, <1>3, <1>4, <3>1 DEF UpToSent
    <3>2. CASE m = n /\ i \in 1..Len(out[n])
      <4>1. out'[m][i] = out[n][i] /\ out[n][i] \in Nat /\ out[n][i] <= sock[n].sent
        BY <1>3, <1>4, <3>2 DEF UpToSent
      <4> QED
        BY <1>2, <3>2, <4>1
    <3>3. CASE m = n /\ i = Len(out[n]) + 1
      BY <1>1, <1>3, <3>3
    <3> QED
      BY <1>3, <3>1, <3>2, <3>3
  <2>2. ASSUME NEW m \in N, NEW i \in 1..Len(down), down[i].salt = m
        PROVE  down[i].frame <= sock'[m].sent
    BY <1>2, <1>4, <2>2 DEF UpToSent
  <2>3. ASSUME NEW m \in N, recv.salt = m PROVE recv.last <= sock'[m].sent
    BY <1>2, <1>4, <2>3 DEF UpToSent
  <2> QED
    BY <1>2, <2>1, <2>2, <2>3 DEF UpToSent
<1>9. AfterRecv'
  <2>1. ASSUME NEW m \in N, recv.salt = m, NEW i \in 1..Len(out'[m]), out'[m][i] # Ready
        PROVE  recv.last < out'[m][i]
    <3>1. CASE m # n
      BY <1>3, <2>1, <3>1 DEF AfterRecv
    <3>2. CASE m = n /\ i \in 1..Len(out[n])
      BY <1>3, <2>1, <3>2 DEF AfterRecv
    <3>3. CASE m = n /\ i = Len(out[n]) + 1
      <4>1. recv.last <= sock[n].sent /\ sock[n].sent < x /\ out'[m][i] = x
        BY <1>1, <1>3, <2>1, <3>3 DEF UpToSent
      <4> QED
        BY <1>2, <1>4, <4>1
    <3> QED
      BY <1>3, <3>1, <3>2, <3>3
  <2> QED
    BY <1>2, <2>1 DEF AfterRecv
<1> QED
  BY <1>5, <1>6, <1>7, <1>8, <1>9

LEMMA OrderStep == IInv /\ [Next]_vars => Ordered'
<1> SUFFICES ASSUME TypeOK, Ordered,
                    \/ Still \/ Closing \/ Receiving
                    \/ \E n \in N : Moving(n) \/ Dropping(n) \/ Answering(n) \/ Sending(n)
             PROVE  Ordered'
  BY StepKinds DEF IInv
<1>1. CASE Still
  BY <1>1 DEF Still, Kept, Ordered, DownOrder, OutOrder, DownBeforeOut, UpToSent, AfterRecv
<1>2. CASE Closing
  <2>1. \A i : i \notin 1..Len(down')
    BY <1>2, EmptyFacts DEF Closing
  <2> QED
    BY <1>2, <2>1 DEF Closing, Ordered, DownOrder, OutOrder, DownBeforeOut, UpToSent, AfterRecv
<1>3. ASSUME NEW n \in N, Dropping(n) PROVE Ordered'
  <2>1. /\ \A i : i \notin 1..Len(out'[n])
        /\ \A m \in N : m # n => out'[m] = out[m]
        /\ UNCHANGED <<recv, down>> /\ \A m \in N : sock'[m].sent = sock[m].sent
    BY <1>3, DroppingFacts DEF Dropping, Kept
  <2>2. DownOrder' /\ OutOrder' /\ DownBeforeOut'
    BY <2>1 DEF Ordered, DownOrder, OutOrder, DownBeforeOut
  <2>3. UpToSent' /\ AfterRecv'
    BY <2>1 DEF Ordered, UpToSent, AfterRecv
  <2> QED
    BY <2>2, <2>3 DEF Ordered
<1> QED
  BY <1>1, <1>2, <1>3, OrderReceiving, OrderMoving, OrderGrowing

-----------------------------------------------------------------------------
(* Nothing is missing.                                                     *)

LEMMA BaseTyped ==
  ASSUME TypeOK
  PROVE  \A n \in N : Base(n) \in Nat
BY Typed DEF Base

(* A frame the client drops or accepts was the next one, or of no account.  *)
LEMMA ReceivingNext ==
  ASSUME TypeOK, Ordered, WholeDown, SaltLocked, ReadyInDown, Receiving
  PROVE  /\ cl' # "handshaking"
         /\ \/ recv' = recv /\ (Relevant(down[1].salt) => down[1].frame = Ready)
            \/ /\ recv'.salt = down[1].salt /\ recv'.last = down[1].frame
               /\ Relevant(down[1].salt) /\ down[1].frame = Base(down[1].salt) + 1
               /\ Base(down[1].salt) = recv.last /\ recv.salt \in {0, down[1].salt}
               /\ recv' = [salt |-> recv'.salt, last |-> recv'.last]
<1> DEFINE f == down[1]
<1>1. /\ Len(down) \in Nat /\ Len(down) >= 1 /\ Head(down) = f /\ f \in Frame /\ 1 \in 1..Len(down)
      /\ f.salt \in N /\ f.frame \in Nat /\ recv.salt \in Nat /\ recv.last \in Nat
      /\ f.salt # 0 /\ Ready = 0
  BY ReceivingFacts, Typed DEF Ready
<1>2. ~(f.frame # Ready /\ cl = "handshaking")
  <2> SUFFICES ASSUME f.frame # Ready, cl = "handshaking" PROVE FALSE
    OBVIOUS
  <2>1. \E j \in 1..(1 - 1) : down[j].frame = Ready
    BY <1>1 DEF ReadyInDown
  <2> QED
    BY <2>1
<1>3. CASE f.frame = Ready /\ recv' = recv
  BY <1>1, <1>3, ClientFacts DEF Receiving
<1>4. CASE f.frame # Ready /\ cl # "handshaking" /\ ~Accepts(f) /\ recv' = recv
  <2>1. ~Relevant(f.salt)
    <3> SUFFICES ASSUME recv.salt \in {0, f.salt} PROVE FALSE
      BY DEF Relevant
    <3>1. recv # None /\ ~(f.salt = recv.salt /\ f.frame > recv.last)
      BY <1>4 DEF Accepts
    <3>2. CASE recv.salt = 0
      <4>1. recv.last = 0
        BY <3>2 DEF SaltLocked
      <4>2. recv = [salt |-> 0, last |-> 0]
        BY <3>2, <4>1 DEF TypeOK
      <4> QED
        BY <3>1, <4>2 DEF None
    <3>3. CASE recv.salt = f.salt
      <4>1. recv.last < f.frame
        BY <1>1, <1>4, <3>3 DEF Ordered, AfterRecv
      <4> QED
        BY <1>1, <3>1, <3>3, <4>1
    <3> QED
      BY <3>2, <3>3
  <2>2. cl' # "handshaking"
    BY <1>4, ClientFacts, <1>1 DEF Receiving
  <2> QED
    BY <1>4, <2>1, <2>2
<1>5. CASE /\ f.frame # Ready /\ cl # "handshaking" /\ Accepts(f) /\ cl' = cl
           /\ recv' = [salt |-> f.salt, last |-> f.frame]
  <2>1. recv'.salt = f.salt /\ recv'.last = f.frame
    BY <1>5
  <2>2. recv.salt \in {0, f.salt} /\ Base(f.salt) = recv.last /\ f.frame > recv.last
    <3>1. CASE recv = None
      <4>1. recv.salt = 0 /\ recv.last = 0
        BY <3>1 DEF None
      <4> QED
        BY <1>1, <1>5, <4>1 DEF Base
    <3>2. CASE f.salt = recv.salt /\ f.frame > recv.last
      BY <3>2 DEF Base
    <3> QED
      BY <1>5, <3>1, <3>2 DEF Accepts
  <2>3. Relevant(f.salt)
    BY <2>2 DEF Relevant
  <2>4. f.frame = Base(f.salt) + 1
    <3> SUFFICES ASSUME f.frame # recv.last + 1 PROVE FALSE
      BY <2>2
    <3>1. recv.last + 1 \in Nat /\ recv.last < recv.last + 1 /\ recv.last + 1 < f.frame /\ recv.last + 1 # Ready
      BY <1>1, <2>2
    <3>2. InDown(f.salt, recv.last + 1)
      BY <1>1, <2>2, <2>3, <3>1 DEF WholeDown
    <3>3. PICK j \in 1..Len(down) : down[j].salt = f.salt /\ down[j].frame = recv.last + 1
      BY <3>2 DEF InDown
    <3>4. j # 1
      BY <1>1, <3>1, <3>3
    <3>5. 1 < j
      BY <1>1, <3>4
    <3>6. f.frame < recv.last + 1
      BY <1>1, <3>1, <3>3, <3>5 DEF Ordered, DownOrder
    <3> QED
      BY <1>1, <3>1, <3>6
  <2> QED
    BY <1>5, <2>1, <2>2, <2>3, <2>4
<1>6. \/ f.frame = Ready /\ recv' = recv
      \/ f.frame # Ready /\ cl = "handshaking"
      \/ f.frame # Ready /\ cl # "handshaking" /\ ~Accepts(f) /\ recv' = recv
      \/ /\ f.frame # Ready /\ cl # "handshaking" /\ Accepts(f) /\ cl' = cl
         /\ recv' = [salt |-> f.salt, last |-> f.frame]
  BY <1>1, ClientFacts DEF Receiving
<1> QED
  BY <1>2, <1>3, <1>4, <1>5, <1>6

(* Reading a frame leaves the others where they are, and only lessens what  *)
(* must be there.                                                          *)
LEMMA ReceivingKeeps ==
  ASSUME TypeOK, Ordered, WholeDown, SaltLocked, ReadyInDown, Receiving, NEW n \in N, Relevant(n)'
  PROVE  /\ Relevant(n) /\ Base(n) <= Base(n)'
         /\ \A k \in Nat : Base(n)' < k /\ InDown(n, k) => InDown(n, k)'
<1>1. /\ Len(down) \in Nat /\ Len(down) >= 1 /\ Len(down') = Len(down) - 1 /\ 1 \in 1..Len(down)
      /\ \A i \in 1..Len(down') : i + 1 \in 1..Len(down) /\ down'[i] = down[i + 1]
      /\ down[1].salt # 0 /\ down[1].salt \in N
  BY ReceivingFacts, Typed
<1>2. \/ recv' = recv /\ (Relevant(down[1].salt) => down[1].frame = Ready)
      \/ /\ recv'.salt = down[1].salt /\ recv'.last = down[1].frame
         /\ Relevant(down[1].salt) /\ down[1].frame = Base(down[1].salt) + 1
  BY ReceivingNext
<1>3. Base(n) \in Nat /\ n # 0
  BY BaseTyped, Typed
<1>4. /\ Relevant(n) /\ Base(n) <= Base(n)'
      /\ down[1].salt = n => down[1].frame <= Base(n)'
  <2>1. CASE recv' = recv /\ (Relevant(down[1].salt) => down[1].frame = Ready)
    <3>1. Relevant(n) /\ Base(n)' = Base(n)
      BY <2>1 DEF Relevant, Base
    <3> QED
      BY <1>3, <2>1, <3>1 DEF Ready
  <2>2. CASE /\ recv'.salt = down[1].salt /\ recv'.last = down[1].frame
             /\ Relevant(down[1].salt) /\ down[1].frame = Base(down[1].salt) + 1
    <3>1. n = down[1].salt
      BY <1>1, <2>2 DEF Relevant
    <3>2. Base(n)' = down[1].frame
      BY <2>2, <3>1 DEF Base
    <3> QED
      BY <1>3, <2>2, <3>1, <3>2
  <2> QED
    BY <1>2, <2>1, <2>2
<1>5. Base(n)' \in Nat /\ down[1].frame \in Nat
  <2>1. down[1].frame \in Nat /\ recv.last \in Nat
    BY <1>1, Typed
  <2>2. recv'.last \in Nat
    BY <1>2, <2>1
  <2> QED
    BY <2>1, <2>2 DEF Base
<1>6. ASSUME NEW k \in Nat, Base(n)' < k, InDown(n, k) PROVE InDown(n, k)'
  <2>1. PICK j \in 1..Len(down) : down[j].salt = n /\ down[j].frame = k
    BY <1>6 DEF InDown
  <2>2. j # 1
    BY <1>4, <1>5, <1>6, <2>1
  <2>3. j - 1 \in 1..Len(down') /\ (j - 1) + 1 = j
    BY <1>1, <2>2
  <2>4. down'[j - 1] = down[j]
    BY <1>1, <2>3
  <2> QED
    BY <2>1, <2>3, <2>4 DEF InDown
<1> QED
  BY <1>4, <1>6

LEMMA WholeReceiving ==
  TypeOK /\ Ordered /\ Whole /\ SaltLocked /\ ReadyInDown /\ Receiving => Whole'
<1> SUFFICES ASSUME TypeOK, Ordered, Whole, SaltLocked, ReadyInDown, Receiving PROVE Whole'
  OBVIOUS
<1> USE DEF Whole
<1>0. WholeDown
  OBVIOUS
<1>1. ASSUME NEW n \in N, Relevant(n)'
      PROVE  /\ Relevant(n) /\ Base(n) \in Nat /\ Base(n)' \in Nat /\ Base(n) <= Base(n)'
             /\ \A k \in Nat : Base(n)' < k /\ InDown(n, k) => InDown(n, k)'
  <2>1. Relevant(n) /\ Base(n) <= Base(n)' /\ Base(n) \in Nat
        /\ \A k \in Nat : Base(n)' < k /\ InDown(n, k) => InDown(n, k)'
    BY <1>0, <1>1, ReceivingKeeps, BaseTyped
  <2>2. Base(n)' \in Nat
    <3>1. recv' = recv \/ recv'.last = down[1].frame
      BY <1>0, ReceivingNext
    <3>2. 1 \in 1..Len(down)
      BY ReceivingFacts
    <3>3. recv'.last \in Nat
      BY <3>1, <3>2, Typed
    <3> QED
      BY <3>3 DEF Base
  <2> QED
    BY <2>1, <2>2
<1>2. /\ \A i \in 1..Len(down') : i + 1 \in 1..Len(down) /\ down'[i] = down[i + 1]
      /\ UNCHANGED <<out, sock, wc>> /\ (Connected' => Connected)
      /\ \A i \in 1..Len(down) : down[i].frame \in Nat
      /\ \A n \in N : sock[n].sent \in Nat /\ \A i \in 1..Len(out[n]) : out[n][i] \in Nat
  <2>1. /\ \A i \in 1..Len(down) : down[i].frame \in Nat
        /\ \A n \in N : sock[n].sent \in Nat /\ \A i \in 1..Len(out[n]) : out[n][i] \in Nat
    BY Typed
  <2>2. UNCHANGED <<out, sock, wc>> /\ cl # "closed"
    BY ClientFacts DEF Receiving
  <2> QED
    BY <2>1, <2>2, ReceivingFacts DEF Connected
<1>3. WholeDown'
  <2> SUFFICES ASSUME NEW n \in N, Relevant(n)', NEW i \in 1..Len(down'), NEW k \in Nat,
                      down'[i].salt = n, Base(n)' < k, k < down'[i].frame
               PROVE  InDown(n, k)'
    BY DEF WholeDown
  <2>1. i + 1 \in 1..Len(down) /\ down'[i] = down[i + 1]
    BY <1>2
  <2>2. InDown(n, k)
    <3>1. Base(n) < k /\ k < down[i + 1].frame
      BY <1>1, <1>2, <2>1
    <3> QED
      BY <1>1, <2>1, <3>1 DEF WholeDown
  <2> QED
    BY <1>1, <2>2
<1>4. WholeOut'
  <2> SUFFICES ASSUME Connected', NEW n \in N, Relevant(n)', NEW i \in 1..Len(out[n]), NEW k \in Nat,
                      Base(n)' < k, k < out[n][i]
               PROVE  InDown(n, k)' \/ InOut(n, k)
    BY <1>2 DEF WholeOut, InOut
  <2>1. Base(n) < k
    BY <1>1
  <2>2. InDown(n, k) \/ InOut(n, k)
    BY <1>1, <1>2, <2>1 DEF WholeOut
  <2> QED
    BY <1>1, <2>2
<1>5. WholeSent'
  <2> SUFFICES ASSUME Connected', NEW n \in N, Relevant(n)', sock[n].d = "open", NEW k \in Nat,
                      Base(n)' < k, k <= sock[n].sent
               PROVE  InDown(n, k)' \/ InOut(n, k)
    BY <1>2 DEF WholeSent, InOut
  <2>1. Base(n) < k
    BY <1>1
  <2>2. InDown(n, k) \/ InOut(n, k)
    BY <1>1, <1>2, <2>1 DEF WholeSent
  <2> QED
    BY <1>1, <2>2
<1> QED
  BY <1>3, <1>4, <1>5

LEMMA WholeMoving == TypeOK /\ Ordered /\ Whole /\ (\E n \in N : Moving(n)) => Whole'
<1> SUFFICES ASSUME TypeOK, Ordered, Whole, NEW n \in N, Moving(n) PROVE Whole'
  OBVIOUS
<1> USE DEF Whole
<1>1. /\ Len(out[n]) \in Nat /\ Len(out[n]) >= 1 /\ Len(out'[n]) = Len(out[n]) - 1
      /\ out[n][1] \in Nat /\ 1 \in 1..Len(out[n])
      /\ \A i \in 1..Len(out'[n]) : i + 1 \in 1..Len(out[n]) /\ out'[n][i] = out[n][i + 1]
      /\ \A m \in N : m # n => out'[m] = out[m]
      /\ \A i \in 1..Len(down) : i \in 1..Len(down') /\ down'[i] = down[i]
      /\ Len(down) \in Nat
  BY MovingFacts, Typed
<1>2. /\ UNCHANGED <<cl, recv, sock, wc>> /\ (Connected' <=> Connected)
      /\ \A m \in N : (Relevant(m)' <=> Relevant(m)) /\ Base(m)' = Base(m) /\ Base(m) \in Nat
  BY BaseTyped DEF Moving, Connected, Relevant, Base
<1>3. \A m \in N, k \in Nat : InDown(m, k) => InDown(m, k)'
  BY <1>1 DEF InDown
<1>4. ASSUME Connected
      PROVE  /\ Len(down) + 1 \in 1..Len(down')
             /\ down'[Len(down) + 1].salt = n /\ down'[Len(down) + 1].frame = out[n][1]
             /\ \A i \in 1..Len(down') : i \in 1..Len(down) \/ i = Len(down) + 1
  <2>1. /\ Len(down') = Len(down) + 1
        /\ down'[Len(down) + 1].salt = n /\ down'[Len(down) + 1].frame = out[n][1]
    BY <1>4, MovingFacts
  <2> QED
    BY <1>1, <2>1
<1>5. ~Connected => down' = down
  BY MovingFacts
<1>6. ASSUME Connected, NEW m \in N, NEW k \in Nat, InDown(m, k) \/ InOut(m, k)
      PROVE  InDown(m, k)' \/ InOut(m, k)'
  <2>1. CASE InDown(m, k)
    BY <1>3, <2>1
  <2>2. CASE InOut(m, k) /\ m # n
    BY <1>1, <2>2 DEF InOut
  <2>3. CASE InOut(m, k) /\ m = n
    <3>1. PICK j \in 1..Len(out[n]) : out[n][j] = k
      BY <2>3 DEF InOut
    <3>2. CASE j = 1
      BY <1>4, <1>6, <2>3, <3>1, <3>2 DEF InDown
    <3>3. CASE j # 1
      <4>1. j - 1 \in 1..Len(out'[n]) /\ (j - 1) + 1 = j
        BY <1>1, <3>3
      <4>2. out'[n][j - 1] = k
        BY <1>1, <3>1, <4>1
      <4> QED
        BY <2>3, <4>1, <4>2 DEF InOut
    <3> QED
      BY <3>2, <3>3
  <2> QED
    BY <1>6, <2>1, <2>2, <2>3
<1>7. WholeDown'
  <2> SUFFICES ASSUME NEW m \in N, Relevant(m), NEW i \in 1..Len(down'), NEW k \in Nat,
                      down'[i].salt = m, Base(m) < k, k < down'[i].frame
               PROVE  InDown(m, k)'
    BY <1>2 DEF WholeDown
  <2>1. CASE i \in 1..Len(down) /\ down'[i] = down[i]
    BY <1>3, <2>1 DEF WholeDown
  <2>2. CASE Connected /\ i = Len(down) + 1
    <3>1. m = n /\ k < out[n][1]
      BY <1>4, <2>2
    <3>2. InDown(n, k) \/ InOut(n, k)
      BY <1>1, <2>2, <3>1 DEF WholeOut
    <3>3. ~InOut(n, k)
      <4> SUFFICES ASSUME NEW j \in 1..Len(out[n]), out[n][j] = k PROVE FALSE
        BY DEF InOut
      <4>1. j # 1 /\ 1 < j /\ k # Ready
        BY <1>1, <1>2, <3>1 DEF Ready
      <4>2. out[n][1] < k
        BY <1>1, <4>1 DEF Ordered, OutOrder
      <4> QED
        BY <1>1, <3>1, <4>2
    <3> QED
      BY <1>3, <3>1, <3>2, <3>3
  <2> QED
    BY <1>1, <1>4, <1>5, <2>1, <2>2
<1>8. WholeOut'
  <2> SUFFICES ASSUME Connected, NEW m \in N, Relevant(m), NEW i \in 1..Len(out'[m]), NEW k \in Nat,
                      Base(m) < k, k < out'[m][i]
               PROVE  InDown(m, k)' \/ InOut(m, k)'
    BY <1>2 DEF WholeOut
  <2>1. InDown(m, k) \/ InOut(m, k)
    <3>1. CASE m # n
      BY <1>1, <3>1 DEF WholeOut
    <3>2. CASE m = n
      <4>1. i + 1 \in 1..Len(out[n]) /\ out'[n][i] = out[n][i + 1]
        BY <1>1, <3>2
      <4> QED
        BY <3>2, <4>1 DEF WholeOut
    <3> QED
      BY <3>1, <3>2
  <2> QED
    BY <1>6, <2>1
<1>9. WholeSent'
  <2> SUFFICES ASSUME Connected, NEW m \in N, Relevant(m), sock[m].d = "open", NEW k \in Nat,
                      Base(m) < k, k <= sock[m].sent
               PROVE  InDown(m, k)' \/ InOut(m, k)'
    BY <1>2 DEF WholeSent
  <2>1. InDown(m, k) \/ InOut(m, k)
    BY DEF WholeSent
  <2> QED
    BY <1>6, <2>1
<1> QED
  BY <1>7, <1>8, <1>9

LEMMA WholeGrowing ==
  ASSUME TypeOK, Whole, NEW n \in N, Answering(n) \/ Sending(n)
  PROVE  Whole'
<1> USE DEF Whole
<1>1. /\ UNCHANGED <<cl, recv, down, wc>> /\ (Connected' <=> Connected)
      /\ \A m \in N : (Relevant(m)' <=> Relevant(m)) /\ Base(m)' = Base(m) /\ Base(m) \in Nat
      /\ \A m \in N, k \in Nat : InDown(m, k)' <=> InDown(m, k)
  BY BaseTyped DEF Answering, Sending, Connected, Relevant, Base, InDown
<1>2. PICK x \in 0..Replies :
        /\ out' = [out EXCEPT ![n] = Append(@, x)]
        /\ \/ x = Ready /\ sock'[n].sent = sock[n].sent /\ sock'[n].d = sock[n].d
           \/ x = sock[n].sent + 1 /\ sock'[n].sent = sock[n].sent + 1 /\ sock[n].d = "open"
  <2>1. CASE Answering(n)
    <3>1. Ready \in 0..Replies
      BY ChannelAssumption DEF Ready
    <3> QED
      BY <2>1, <3>1 DEF Answering
  <2>2. CASE Sending(n)
    <3>1. sock[n].sent + 1 \in 0..Replies
      BY <2>2, SendingTyped
    <3>2. /\ out' = [out EXCEPT ![n] = Append(@, sock[n].sent + 1)]
          /\ sock'[n].sent = sock[n].sent + 1 /\ sock[n].d = "open"
      BY <2>2 DEF Sending
    <3> QED
      BY <3>1, <3>2
  <2> QED
    BY <2>1, <2>2
<1>3. /\ Len(out[n]) \in Nat /\ Len(out'[n]) = Len(out[n]) + 1
      /\ \A i \in 1..Len(out[n]) : i \in 1..Len(out'[n]) /\ out'[n][i] = out[n][i]
      /\ out'[n][Len(out[n]) + 1] = x
      /\ \A i \in 1..Len(out'[n]) : i \in 1..Len(out[n]) \/ i = Len(out[n]) + 1
      /\ \A m \in N : m # n => out'[m] = out[m]
      /\ \A m \in N : sock[m].sent \in Nat
  BY <1>2, GrowingFacts, Typed
<1>4. \A m \in N : m # n => Kept(m)
  BY DEF Answering, Sending
<1>5. \A m \in N, k \in Nat : InOut(m, k) => InOut(m, k)'
  BY <1>3 DEF InOut
<1>6. InOut(n, x)'
  <2>1. Len(out[n]) + 1 \in 1..Len(out'[n])
    BY <1>3
  <2> QED
    BY <1>3, <2>1 DEF InOut
<1>7. WholeDown'
  BY <1>1 DEF WholeDown
<1>8. WholeOut'
  <2> SUFFICES ASSUME Connected, NEW m \in N, Relevant(m), NEW i \in 1..Len(out'[m]), NEW k \in Nat,
                      Base(m) < k, k < out'[m][i]
               PROVE  InDown(m, k) \/ InOut(m, k)'
    BY <1>1 DEF WholeOut
  <2>1. CASE m # n
    BY <1>3, <1>5, <2>1 DEF WholeOut
  <2>2. CASE m = n /\ i \in 1..Len(out[n])
    BY <1>3, <1>5, <2>2 DEF WholeOut
  <2>3. CASE m = n /\ i = Len(out[n]) + 1
    <3>1. k < x
      BY <1>3, <2>3
    <3>2. x = sock[n].sent + 1 /\ sock[n].d = "open" /\ k <= sock[n].sent
      BY <1>2, <1>3, <3>1 DEF Ready
    <3> QED
      BY <1>5, <2>3, <3>2 DEF WholeSent
  <2> QED
    BY <1>3, <2>1, <2>2, <2>3
<1>9. WholeSent'
  <2> SUFFICES ASSUME Connected, NEW m \in N, Relevant(m), sock'[m].d = "open", NEW k \in Nat,
                      Base(m) < k, k <= sock'[m].sent
               PROVE  InDown(m, k) \/ InOut(m, k)'
    BY <1>1 DEF WholeSent
  <2>1. CASE m # n
    <3>1. sock'[m].sent = sock[m].sent /\ (sock[m].d = "open" \/ sock[m].sent = 0)
      BY <1>4, <2>1 DEF Kept
    <3>2. sock[m].d = "open"
      BY <1>1, <3>1
    <3> QED
      BY <1>5, <3>1, <3>2 DEF WholeSent
  <2>2. CASE m = n /\ k <= sock[n].sent
    <3>1. sock[n].d = "open"
      BY <1>2, <2>2
    <3> QED
      BY <1>5, <2>2, <3>1 DEF WholeSent
  <2>3. CASE m = n /\ ~(k <= sock[n].sent)
    <3>1. k = x
      BY <1>2, <1>3, <2>3
    <3> QED
      BY <1>6, <2>3, <3>1
  <2> QED
    BY <2>1, <2>2, <2>3
<1> QED
  BY <1>7, <1>8, <1>9

LEMMA WholeStep == IInv /\ [Next]_vars => Whole'
<1> SUFFICES ASSUME TypeOK, Ordered, Whole, ReadyFirst,
                    \/ Still \/ Closing \/ Receiving
                    \/ \E n \in N : Moving(n) \/ Dropping(n) \/ Answering(n) \/ Sending(n)
             PROVE  Whole'
  BY StepKinds DEF IInv
<1>1. CASE Still
  <2>1. /\ UNCHANGED <<cl, recv, down, out>> /\ (Connected' => Connected)
        /\ \A m \in N : (Relevant(m)' <=> Relevant(m)) /\ Base(m)' = Base(m) /\ Base(m) \in Nat
        /\ \A m \in N, k \in Nat : (InDown(m, k)' <=> InDown(m, k)) /\ (InOut(m, k)' <=> InOut(m, k))
    BY <1>1, BaseTyped DEF Still, Connected, Relevant, Base, InDown, InOut
  <2>2. WholeDown' /\ WholeOut'
    BY <2>1 DEF Whole, WholeDown, WholeOut
  <2>3. WholeSent'
    <3> SUFFICES ASSUME Connected, NEW m \in N, Relevant(m), sock'[m].d = "open", NEW k \in Nat,
                        Base(m) < k, k <= sock'[m].sent
                 PROVE  InDown(m, k) \/ InOut(m, k)
      BY <2>1 DEF WholeSent
    <3>1. sock'[m].sent = sock[m].sent /\ (sock[m].d = "open" \/ sock[m].sent = 0)
      BY <1>1 DEF Still, Kept
    <3>2. sock[m].d = "open"
      BY <2>1, <3>1
    <3> QED
      BY <3>1, <3>2 DEF Whole, WholeSent
  <2> QED
    BY <2>2, <2>3 DEF Whole
<1>2. CASE Closing
  <2>1. (\A i : i \notin 1..Len(down')) /\ ~Connected'
    BY <1>2, EmptyFacts DEF Closing, Connected
  <2> QED
    BY <2>1 DEF Whole, WholeDown, WholeOut, WholeSent
<1>3. ASSUME NEW n \in N, Dropping(n) PROVE Whole'
  <2>1. /\ \A i : i \notin 1..Len(out'[n])
        /\ \A m \in N : m # n => out'[m] = out[m]
        /\ UNCHANGED <<cl, recv, down>> /\ (Connected' => Connected)
        /\ \A m \in N : Kept(m)
        /\ sock'[n].d # "open"
    BY <1>3, DroppingFacts DEF Dropping, Connected
  <2>2. /\ \A m \in N : (Relevant(m)' <=> Relevant(m)) /\ Base(m)' = Base(m) /\ Base(m) \in Nat
        /\ \A m \in N, k \in Nat : InDown(m, k)' <=> InDown(m, k)
        /\ \A m \in N, k \in Nat : m # n => (InOut(m, k)' <=> InOut(m, k))
    BY <2>1, BaseTyped DEF Relevant, Base, InDown, InOut
  <2>3. WholeDown'
    BY <2>1, <2>2 DEF Whole, WholeDown
  <2>4. WholeOut'
    BY <2>1, <2>2 DEF Whole, WholeOut
  <2>5. WholeSent'
    <3> SUFFICES ASSUME Connected, NEW m \in N, Relevant(m), sock'[m].d = "open", NEW k \in Nat,
                        Base(m) < k, k <= sock'[m].sent
                 PROVE  InDown(m, k) \/ InOut(m, k)'
      BY <2>1, <2>2 DEF WholeSent
    <3>1. m # n /\ sock'[m].sent = sock[m].sent /\ (sock[m].d = "open" \/ sock[m].sent = 0)
      BY <2>1 DEF Kept
    <3>2. sock[m].d = "open"
      BY <2>2, <3>1
    <3> QED
      BY <2>2, <3>1, <3>2 DEF Whole, WholeSent
  <2> QED
    BY <2>3, <2>4, <2>5 DEF Whole
<1> QED
  BY <1>1, <1>2, <1>3, WholeReceiving, WholeMoving, WholeGrowing DEF ReadyFirst

-----------------------------------------------------------------------------
(* Ready comes first.                                                      *)

LEMMA ReadyStep == IInv /\ [Next]_vars => ReadyFirst'
<1> SUFFICES ASSUME TypeOK, Ordered, Whole, ReadyFirst,
                    \/ Still \/ Closing \/ Receiving
                    \/ \E n \in N : Moving(n) \/ Dropping(n) \/ Answering(n) \/ Sending(n)
             PROVE  ReadyFirst'
  BY StepKinds DEF IInv
<1> USE DEF ReadyFirst
<1>1. CASE Still
  BY <1>1 DEF Still, Kept, SaltLocked, ReadyInDown, ReadyInOut, ReadySent, ReadyDown
<1>2. CASE Closing
  BY <1>2 DEF Closing, SaltLocked, ReadyInDown, ReadyInOut, ReadySent
<1>3. CASE Receiving
  <2>1. cl' # "handshaking"
    BY <1>3, ReceivingNext DEF Whole
  <2>2. SaltLocked'
    <3>1. CASE recv' = recv
      BY <3>1 DEF SaltLocked
    <3>2. CASE /\ recv'.salt = down[1].salt /\ recv'.last = down[1].frame
               /\ down[1].frame = Base(down[1].salt) + 1
      <4>1. down[1].salt \in N /\ down[1].salt # 0
        BY <1>3, ReceivingFacts, Typed
      <4>2. Base(down[1].salt) \in Nat
        BY <4>1, BaseTyped
      <4> QED
        BY <3>2, <4>1, <4>2 DEF SaltLocked
    <3> QED
      BY <1>3, <3>1, <3>2, ReceivingNext DEF Whole
  <2> QED
    BY <2>1, <2>2 DEF ReadyInDown, ReadyInOut, ReadySent
<1>4. ASSUME NEW n \in N, Moving(n) PROVE ReadyFirst'
  <2>1. /\ Len(out[n]) \in Nat /\ Len(out[n]) >= 1 /\ Len(out'[n]) = Len(out[n]) - 1
        /\ 1 \in 1..Len(out[n])
        /\ \A i \in 1..Len(out'[n]) : i + 1 \in 1..Len(out[n]) /\ out'[n][i] = out[n][i + 1]
        /\ \A m \in N : m # n => out'[m] = out[m]
        /\ \A i \in 1..Len(down) : i \in 1..Len(down') /\ down'[i] = down[i]
        /\ Len(down) \in Nat
    BY <1>4, MovingFacts, Typed
  <2>2. UNCHANGED <<cl, recv, sock, wc>>
    BY <1>4 DEF Moving
  <2>3. ReadyDown => ReadyDown'
    BY <2>1 DEF ReadyDown
  <2>4. SaltLocked'
    BY <2>2 DEF SaltLocked
  <2>5. CASE ~(cl = "handshaking" /\ wc = "open")
    <3>1. CASE cl # "handshaking"
      BY <2>2, <2>4, <3>1 DEF ReadyInDown, ReadyInOut, ReadySent
    <3>2. CASE wc # "open"
      <4>1. down' = down
        BY <1>4, <3>2, MovingFacts DEF Connected
      <4> QED
        BY <2>2, <2>4, <3>2, <4>1 DEF ReadyInDown, ReadyInOut, ReadySent
    <3> QED
      BY <2>5, <3>1, <3>2
  <2>6. CASE cl = "handshaking" /\ wc = "open"
    <3>1. /\ Len(down') = Len(down) + 1 /\ Len(down) + 1 \in 1..Len(down')
          /\ down'[Len(down) + 1].frame = out[n][1]
          /\ \A i \in 1..Len(down') : i \in 1..Len(down) \/ i = Len(down) + 1
      <4>1. Connected
        BY <2>6 DEF Connected
      <4>2. /\ Len(down') = Len(down) + 1 /\ down'[Len(down) + 1].frame = out[n][1]
        BY <1>4, <4>1, MovingFacts
      <4> QED
        BY <2>1, <4>2
    <3>2. ReadyInDown'
      <4> SUFFICES ASSUME NEW i \in 1..Len(down'), down'[i].frame # Ready
                   PROVE  \E j \in 1..(i - 1) : down'[j].frame = Ready
        BY DEF ReadyInDown
      <4>1. CASE i \in 1..Len(down)
        <5>1. PICK j \in 1..(i - 1) : down[j].frame = Ready
          BY <2>1, <2>6, <4>1 DEF ReadyInDown
        <5>2. j \in 1..Len(down)
          BY <2>1, <4>1
        <5> QED
          BY <2>1, <5>1, <5>2
      <4>2. CASE i = Len(down) + 1
        <5>1. out[n][1] # Ready
          BY <3>1, <4>2
        <5>2. ReadyDown \/ \E j \in 1..(1 - 1) : out[n][j] = Ready
          BY <2>1, <2>6, <5>1 DEF ReadyInOut
        <5>3. PICK j \in 1..Len(down) : down[j].frame = Ready
          BY <5>2 DEF ReadyDown
        <5>4. j \in 1..(i - 1) /\ down'[j].frame = Ready
          BY <2>1, <4>2, <5>3
        <5> QED
          BY <5>4
      <4> QED
        BY <3>1, <4>1, <4>2
    <3>3. out[n][1] = Ready => ReadyDown'
      BY <3>1 DEF ReadyDown
    <3>4. ReadyInOut'
      <4> SUFFICES ASSUME NEW m \in N, NEW i \in 1..Len(out'[m]), out'[m][i] # Ready
                   PROVE  ReadyDown' \/ \E j \in 1..(i - 1) : out'[m][j] = Ready
        BY DEF ReadyInOut
      <4>1. CASE m # n
        BY <2>1, <2>3, <2>6, <4>1 DEF ReadyInOut
      <4>2. CASE m = n
        <5>1. i \in Nat /\ i + 1 \in 1..Len(out[n]) /\ out[n][i + 1] # Ready /\ i <= Len(out'[n])
          BY <2>1, <4>2
        <5>2. ReadyDown \/ \E j \in 1..((i + 1) - 1) : out[n][j] = Ready
          BY <2>6, <5>1 DEF ReadyInOut
        <5>3. ASSUME NEW j \in 1..((i + 1) - 1), out[n][j] = Ready
              PROVE  ReadyDown' \/ \E h \in 1..(i - 1) : out'[n][h] = Ready
          <6>1. CASE j = 1
            BY <3>3, <5>3, <6>1
          <6>2. CASE j # 1
            <7>1. j - 1 \in 1..(i - 1) /\ j - 1 \in 1..Len(out'[n]) /\ (j - 1) + 1 = j
              BY <2>1, <5>1, <6>2
            <7>2. out'[n][j - 1] = Ready
              BY <2>1, <5>3, <7>1
            <7> QED
              BY <7>1, <7>2
          <6> QED
            BY <6>1, <6>2
        <5> QED
          BY <2>3, <4>2, <5>2, <5>3
      <4> QED
        BY <4>1, <4>2
    <3>5. ReadySent'
      <4> SUFFICES ASSUME NEW m \in N, sock[m].shake = "open", sock[m].d = "open"
                   PROVE  ReadyDown' \/ \E j \in 1..Len(out'[m]) : out'[m][j] = Ready
        BY <2>2 DEF ReadySent
      <4>1. ReadyDown \/ \E j \in 1..Len(out[m]) : out[m][j] = Ready
        BY <2>6 DEF ReadySent
      <4>2. CASE m # n
        BY <2>1, <2>3, <4>1, <4>2
      <4>3. ASSUME m = n, NEW j \in 1..Len(out[n]), out[n][j] = Ready
            PROVE  ReadyDown' \/ \E h \in 1..Len(out'[n]) : out'[n][h] = Ready
        <5>1. CASE j = 1
          BY <3>3, <4>3, <5>1
        <5>2. CASE j # 1
          <6>1. j - 1 \in 1..Len(out'[n]) /\ (j - 1) + 1 = j
            BY <2>1, <5>2
          <6>2. out'[n][j - 1] = Ready
            BY <2>1, <4>3, <6>1
          <6> QED
            BY <6>1, <6>2
        <5> QED
          BY <5>1, <5>2
      <4> QED
        BY <2>3, <4>1, <4>2, <4>3
    <3> QED
      BY <2>4, <3>2, <3>4, <3>5
  <2> QED
    BY <2>5, <2>6
<1>5. ASSUME NEW n \in N, Dropping(n) PROVE ReadyFirst'
  <2>1. /\ \A i : i \notin 1..Len(out'[n])
        /\ \A m \in N : m # n => out'[m] = out[m]
        /\ UNCHANGED <<cl, recv, down>> /\ (wc' = "open" => wc = "open")
        /\ \A m \in N : Kept(m)
        /\ sock'[n].d # "open"
    BY <1>5, DroppingFacts DEF Dropping
  <2>2. SaltLocked' /\ ReadyInDown'
    BY <2>1 DEF SaltLocked, ReadyInDown
  <2>3. ReadyInOut'
    BY <2>1 DEF ReadyInOut, ReadyDown
  <2>4. ReadySent'
    BY <2>1 DEF ReadySent, ReadyDown, Kept
  <2> QED
    BY <2>2, <2>3, <2>4
<1>6. ASSUME NEW n \in N, Answering(n) \/ Sending(n) PROVE ReadyFirst'
  <2>1. PICK x \in 0..Replies :
          /\ out' = [out EXCEPT ![n] = Append(@, x)]
          /\ x = Ready \/ (sock[n].shake = "open" /\ sock[n].d = "open")
    <3>1. CASE Answering(n)
      <4>1. Ready \in 0..Replies
        BY ChannelAssumption DEF Ready
      <4> QED
        BY <3>1, <4>1 DEF Answering
    <3>2. CASE Sending(n)
      <4>1. sock[n].sent + 1 \in 0..Replies
        BY <3>2, SendingTyped
      <4>2. /\ out' = [out EXCEPT ![n] = Append(@, sock[n].sent + 1)]
            /\ sock[n].shake = "open" /\ sock[n].d = "open"
        BY <3>2 DEF Sending
      <4> QED
        BY <4>1, <4>2
    <3> QED
      BY <1>6, <3>1, <3>2
  <2>2. /\ Len(out[n]) \in Nat /\ Len(out'[n]) = Len(out[n]) + 1
        /\ Len(out[n]) + 1 \in 1..Len(out'[n])
        /\ \A i \in 1..Len(out[n]) : i \in 1..Len(out'[n]) /\ out'[n][i] = out[n][i]
        /\ out'[n][Len(out[n]) + 1] = x
        /\ \A i \in 1..Len(out'[n]) : i \in 1..Len(out[n]) \/ i = Len(out[n]) + 1
        /\ \A m \in N : m # n => out'[m] = out[m]
    <3>1. /\ Len(out[n]) \in Nat /\ Len(out'[n]) = Len(out[n]) + 1
          /\ out'[n][Len(out[n]) + 1] = x
          /\ \A m \in N : m # n => out'[m] = out[m]
      BY <2>1, GrowingFacts
    <3>2. /\ \A i \in 1..Len(out[n]) : i \in 1..Len(out'[n]) /\ out'[n][i] = out[n][i]
          /\ \A i \in 1..Len(out'[n]) : i \in 1..Len(out[n]) \/ i = Len(out[n]) + 1
      BY <2>1, GrowingFacts
    <3> QED
      BY <3>1, <3>2
  <2>3. UNCHANGED <<cl, recv, down, wc>> /\ \A m \in N : m # n => Kept(m)
    BY <1>6 DEF Answering, Sending
  <2>4. SaltLocked' /\ ReadyInDown' /\ (ReadyDown' <=> ReadyDown)
    BY <2>3 DEF SaltLocked, ReadyInDown, ReadyDown
  <2>5. CASE ~(cl = "handshaking" /\ wc = "open")
    BY <2>3, <2>4, <2>5 DEF ReadyInOut, ReadySent
  <2>6. CASE cl = "handshaking" /\ wc = "open"
    <3>1. ReadyInOut'
      <4> SUFFICES ASSUME NEW m \in N, NEW i \in 1..Len(out'[m]), out'[m][i] # Ready
                   PROVE  ReadyDown \/ \E j \in 1..(i - 1) : out'[m][j] = Ready
        BY <2>4 DEF ReadyInOut
      <4>1. CASE m # n
        BY <2>2, <2>6, <4>1 DEF ReadyInOut
      <4>2. CASE m = n /\ i \in 1..Len(out[n])
        <5>1. ReadyDown \/ \E j \in 1..(i - 1) : out[n][j] = Ready
          BY <2>2, <2>6, <4>2 DEF ReadyInOut
        <5>2. \A j \in 1..(i - 1) : j \in 1..Len(out[n])
          BY <2>2, <4>2
        <5> QED
          BY <2>2, <4>2, <5>1, <5>2
      <4>3. CASE m = n /\ i = Len(out[n]) + 1
        <5>1. sock[n].shake = "open" /\ sock[n].d = "open"
          BY <2>1, <2>2, <4>3
        <5>2. ReadyDown \/ \E j \in 1..Len(out[n]) : out[n][j] = Ready
          BY <2>6, <5>1 DEF ReadySent
        <5>3. \A j \in 1..Len(out[n]) : j \in 1..(i - 1)
          BY <2>2, <4>3
        <5> QED
          BY <2>2, <4>3, <5>2, <5>3
      <4> QED
        BY <2>2, <4>1, <4>2, <4>3
    <3>2. ReadySent'
      <4> SUFFICES ASSUME NEW m \in N, sock'[m].shake = "open", sock'[m].d = "open"
                   PROVE  ReadyDown \/ \E j \in 1..Len(out'[m]) : out'[m][j] = Ready
        BY <2>4 DEF ReadySent
      <4>1. CASE m # n
        BY <2>2, <2>3, <2>6, <4>1 DEF ReadySent, Kept
      <4>2. CASE m = n /\ x = Ready
        BY <2>2, <4>2
      <4>3. CASE m = n /\ x # Ready
        <5>1. ReadyDown \/ \E j \in 1..Len(out[n]) : out[n][j] = Ready
          BY <2>1, <2>6, <4>3 DEF ReadySent
        <5> QED
          BY <2>2, <4>3, <5>1
      <4> QED
        BY <4>1, <4>2, <4>3
    <3> QED
      BY <2>4, <3>1, <3>2
  <2> QED
    BY <2>5, <2>6
<1> QED
  BY <1>1, <1>2, <1>3, <1>4, <1>5, <1>6

LEMMA StreamStep ==
  IInv /\ [Next]_vars =>
    \/ recv' = recv
    \/ recv' = [salt |-> recv'.salt, last |-> recv.last + 1] /\ recv.salt \in {0, recv'.salt}
<1> SUFFICES ASSUME IInv, [Next]_vars
             PROVE  \/ recv' = recv
                    \/ /\ recv' = [salt |-> recv'.salt, last |-> recv.last + 1]
                       /\ recv.salt \in {0, recv'.salt}
  OBVIOUS
<1>1. CASE Receiving
  BY <1>1, ReceivingNext DEF IInv, Whole, ReadyFirst
<1>2. CASE ~Receiving
  BY <1>2, StepKinds DEF Still, Closing, Moving, Dropping, Answering, Sending
<1> QED
  BY <1>1, <1>2

LEMMA InitInv == Init => IInv
<1> SUFFICES ASSUME Init PROVE IInv
  OBVIOUS
<1>1. up = <<Hello>> /\ up \in Seq(0..Messages) /\ Len(up) = 1 /\ up[1] = Hello /\ Hello = sent
  BY ChannelAssumption DEF Init, Hello
<1>2. /\ \A n \in N : /\ sock[n] = Fresh /\ sock[n].d = "none" /\ sock[n].w = "none"
                      /\ sock[n].shake = "hello" /\ sock[n].last = 0 /\ sock[n].sent = 0
                      /\ in[n] = <<>> /\ out[n] = <<>>
      /\ sock \in SockType
  <2>1. Fresh \in [d : Ends, w : Workers, shake : {"hello", "open", "failed"},
                   last : 0..Messages, sent : 0..Replies]
    BY ChannelAssumption DEF Fresh, Ends, Workers
  <2> QED
    BY <2>1 DEF Init, Fresh, SockType
<1>3. /\ down = <<>> /\ Len(down) = 0 /\ buf = <<>> /\ Len(buf) = 0
      /\ down \in Seq([salt : N, frame : 0..Replies]) /\ buf \in Seq(0..Messages)
      /\ \A i : i \notin 1..Len(down)
      /\ \A n \in N : \A i : i \notin 1..Len(out[n])
  BY <1>2, EmptyFacts DEF Init
<1>4. recv.salt = 0 /\ recv.last = 0 /\ recv \in [salt : 0..Sockets, last : 0..Replies]
  BY ChannelAssumption DEF Init, None
<1>5. TypeOK
  <2>1. in \in [N -> Seq(0..Messages)] /\ out \in [N -> Seq(0..Replies)]
    BY EmptyFacts DEF Init
  <2>2. Len(up) <= Flight /\ Len(buf) <= Buffer /\ sent \in 0..Messages /\ faults \in 0..Faults
    BY <1>1, <1>3, ChannelAssumption DEF Init
  <2> QED
    BY <1>1, <1>2, <1>3, <1>4, <2>1, <2>2 DEF Init, TypeOK, SockType, Ends, Workers
<1>6. UpShape
  <2>1. Chained(up)
    BY <1>1 DEF Chained
  <2> QED
    BY <1>1, <2>1 DEF Init, UpShape
<1>7. BufShape
  BY <1>2, <1>3, ChainedEmpty DEF Init, BufShape
<1>8. SockShape /\ FreshShape
  BY <1>2, ChainedEmpty DEF SockShape, SockOK, Reads, FreshShape
<1>9. Ordered
  BY <1>2, <1>3, <1>4, ChannelAssumption
     DEF Ordered, DownOrder, OutOrder, DownBeforeOut, UpToSent, AfterRecv, N
<1>10. Whole
  BY <1>2, <1>3 DEF Whole, WholeDown, WholeOut, WholeSent
<1>11. ReadyFirst
  BY <1>2, <1>3, <1>4 DEF ReadyFirst, SaltLocked, ReadyInDown, ReadyInOut, ReadySent
<1> QED
  BY <1>5, <1>6, <1>7, <1>8, <1>9, <1>10, <1>11 DEF IInv

-----------------------------------------------------------------------------
(* The strengthening is inductive: it holds in every reachable state of the *)
(* channel, its worker and its data sockets, faults included.              *)
THEOREM InductiveInvariant == Spec => []IInv
<1>1. IInv /\ [Next]_vars => IInv'
  BY TypeStep, UpStep, BufStep, SockStep, FreshStep, OrderStep, WholeStep, ReadyStep DEF IInv
<1> QED
  BY InitInv, <1>1, PTL DEF Spec

(* Every variable of the channel, the worker and the data sockets keeps its *)
(* type.                                                                   *)
THEOREM TypeCorrect == Spec => []TypeOK
<1>1. IInv => TypeOK
  BY DEF IInv
<1> QED
  BY InductiveInvariant, <1>1, PTL

(* A data socket delivers the client's messages from the first on, without  *)
(* a gap: createDaemonChannel, the worker's pendingFrames and the client's  *)
(* hello retries, whatever breaks.                                         *)
THEOREM DaemonHasNoGap == Spec => NoGap
<1>1. IInv /\ [Next]_vars => [\A n \in N : sock'[n].last \in {sock[n].last, sock[n].last + 1}]_vars
  BY GapStep
<1> QED
  BY InductiveInvariant, <1>1, PTL DEF Spec, NoGap

(* The client delivers the messages of one data socket from the first on    *)
(* (enforceReplayProtection), although those of two share its connection.  *)
THEOREM ClientHasOneStream == Spec => OneStream
<1>1. IInv /\ [Next]_vars =>
        [\/ recv' = recv
         \/ recv' = [salt |-> recv'.salt, last |-> recv.last + 1] /\ recv.salt \in {0, recv'.salt}]_vars
  BY StreamStep
<1> QED
  BY InductiveInvariant, <1>1, PTL DEF Spec, OneStream
=============================================================================
