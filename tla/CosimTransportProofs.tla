------------------------- MODULE CosimTransportProofs -------------------------
(***************************************************************************)
(* What is proved about CosimTransport for any number of messages, every   *)
(* cut of the bytes and every interleaving of the threads: its types, and  *)
(* that it implements the two streams CosimBarrier is written over.        *)
(***************************************************************************)
EXTENDS CosimTransport, SequenceTheorems, FiniteSetTheorems, TLAPS

-------------------------------------------------------------------------------
(***************************************************************************)
(* The inductive invariant.  First what the call of close has done so far, *)
(* and where the threads can be meanwhile.                                 *)
(***************************************************************************)
Unconnected == app_pc \in {"connecting", "timed_out"}

ConnectionInv ==
    /\ stop <=> app_pc \in {"stopping", "closing", "dropping", "closed"}
    /\ Unconnected \/ app_pc = "closed" => sock = "none"
    /\ app_pc \in {"up", "flushing", "stopping"} => sock = "open"
    /\ app_pc = "closing" => sock = "shut"
    /\ app_pc = "dropping" => sock = "closed"

ThreadInv ==
    /\ rd_pc = "unborn" <=> Unconnected
    /\ wr_pc = "unborn" <=> Unconnected
    /\ Unconnected => /\ up = << >> /\ buf = << >> /\ down = << >> /\ peer_buf = << >>
                      /\ tx_queue = << >> /\ rx_queue = << >> /\ ~garbled
    /\ wr_pc \notin {"send", "ended"} => wr_rest = << >>
    /\ wr_pc = "ended" => stop \/ peer = "closed"
    /\ rd_pc \in {"end", "done"} => stop \/ peer = "closed"
    /\ rd_pc = "died" => stop \/ garbled
    /\ rd_pc \in {"check", "load", "recv"} => ~HasLine(buf)

(***************************************************************************)
(* What the bytes of the peer are, wherever recv has cut them: numbers and *)
(* bad lines, each with its Newline, but for what the peer wrote last.     *)
(***************************************************************************)
Framed(s, of) ==
    \A i \in 1 .. Len(s) :
        s[i] # Newline => /\ s[i] \in Nat \cup {Bad}
                          /\ i < Len(s) => s[i + 1] = Newline
                          /\ i = Len(s) => s[i] # Bad /\ of = "closed"

HasBad(s) == \E i \in 1 .. Len(s) : s[i] = Bad

UpStream(s, of, bad, reader) ==
    Framed(s, of) /\ (HasBad(s) => bad) /\ (bad => reader = "died" \/ HasBad(s))

UpInv == UpStream(buf \o up, peer, garbled, rd_pc)

(***************************************************************************)
(* What the testbench sends are whole lines of one message each, if the    *)
(* one that sendall is busy with is counted.                               *)
(***************************************************************************)
Lines(s) ==
    \E n \in 0 .. Len(s) :
        /\ Len(s) = 2 * n
        /\ \A k \in 1 .. n : /\ s[2 * k - 1] \in Nat \cup {Bye}
                             /\ s[2 * k] = Newline

DownInv == Lines(peer_buf \o down \o wr_rest)

TransportInv == TypeOK /\ ConnectionInv /\ ThreadInv /\ UpInv /\ DownInv

-------------------------------------------------------------------------------
(***************************************************************************)
(* Streams of tokens: cutting and joining them, by index.                  *)
(***************************************************************************)
IsJoin(s, b, u) ==
    /\ Len(s) = Len(b) + Len(u)
    /\ \A i \in 1 .. Len(b) : s[i] = b[i]
    /\ \A i \in Len(b) + 1 .. Len(b) + Len(u) : s[i] = u[i - Len(b)]

\* p are the n tokens of b after the first m.
IsPart(p, b, m, n) == Len(p) = n /\ \A i \in 1 .. n : p[i] = b[i + m]

LEMMA Joined ==
    ASSUME NEW T, NEW b \in Seq(T), NEW u \in Seq(T)
    PROVE  /\ b \o u \in Seq(T) /\ IsJoin(b \o u, b, u)
           /\ Len(b) \in Nat /\ Len(u) \in Nat /\ Len(b \o u) \in Nat
           /\ DOMAIN b = 1 .. Len(b) /\ DOMAIN u = 1 .. Len(u)
  BY DEF IsJoin

LEMMA Parted ==
    ASSUME NEW T, NEW b \in Seq(T), NEW m \in 0 .. Len(b), NEW n \in m .. Len(b)
    PROVE  /\ SubSeq(b, m + 1, n) \in Seq(T)
           /\ IsPart(SubSeq(b, m + 1, n), b, m, n - m)
  BY DEF IsPart

LEMMA SameSeq ==
    ASSUME NEW T, NEW a \in Seq(T), NEW b \in Seq(T), Len(a) = Len(b),
           \A i \in 1 .. Len(a) : a[i] = b[i]
    PROVE  a = b
  BY SeqEqual

\* What recv moves changes nothing of the stream as a whole.
LEMMA MovedParts ==
    ASSUME NEW T, NEW u \in Seq(T), NEW b \in Seq(T), NEW n \in 1 .. Len(u),
           NEW p \in Seq(T), IsPart(p, u, 0, n),
           NEW bb \in Seq(T), IsJoin(bb, b, p),
           NEW uu \in Seq(T), IsPart(uu, u, n, Len(u) - n),
           NEW s \in Seq(T), IsJoin(s, bb, uu), NEW t \in Seq(T), IsJoin(t, b, u)
    PROVE  s = t
<1>1. /\ Len(u) \in Nat /\ Len(b) \in Nat /\ Len(bb) = Len(b) + n /\ Len(uu) = Len(u) - n
      /\ Len(s) = Len(b) + Len(u) /\ Len(t) = Len(b) + Len(u)
  <2>1. Len(u) \in Nat /\ Len(b) \in Nat
    OBVIOUS
  <2>2. Len(p) = n /\ Len(uu) = Len(u) - n
    BY DEF IsPart
  <2>3. /\ Len(bb) = Len(b) + Len(p) /\ Len(s) = Len(bb) + Len(uu)
        /\ Len(t) = Len(b) + Len(u)
    BY DEF IsJoin
  <2> QED
    BY <2>1, <2>2, <2>3
<1>2. ASSUME NEW i \in 1 .. Len(b) + Len(u) PROVE s[i] = t[i]
  <2>1. CASE i <= Len(b)
    BY <2>1, <1>1 DEF IsPart, IsJoin
  <2>2. CASE i > Len(b) /\ i <= Len(b) + n
    <3>1. s[i] = bb[i]
      BY <2>2, <1>1 DEF IsJoin
    <3>2. bb[i] = p[i - Len(b)] /\ i - Len(b) \in 1 .. n
      <4>1. i \in Len(b) + 1 .. Len(b) + Len(p) /\ i - Len(b) \in 1 .. n
        BY <2>2, <1>1 DEF IsPart
      <4> QED
        BY <4>1 DEF IsJoin
    <3>3. p[i - Len(b)] = u[i - Len(b)]
      BY <3>2, <1>1 DEF IsPart
    <3> QED
      BY <2>2, <3>1, <3>2, <3>3, <1>1, SMTT(30) DEF IsJoin
  <2>3. CASE i > Len(b) + n
    <3>1. s[i] = uu[i - (Len(b) + n)] /\ i - (Len(b) + n) \in 1 .. Len(u) - n
      <4>1. i \in Len(bb) + 1 .. Len(bb) + Len(uu) /\ i - (Len(b) + n) \in 1 .. Len(u) - n
        <5>1. i \in Nat /\ i <= Len(b) + Len(u) /\ i > Len(b) + n /\ n \in Nat
          BY <2>3, <1>1
        <5>2. Len(bb) + Len(uu) = Len(b) + Len(u)
          BY <1>1, <5>1
        <5>3. i \in Len(b) + n + 1 .. Len(b) + Len(u)
          BY <5>1, <1>1
        <5> QED
          BY <5>1, <5>2, <5>3, <1>1
      <4>2. s[i] = uu[i - Len(bb)]
        BY <4>1 DEF IsJoin
      <4> QED
        BY <4>1, <4>2, <1>1
    <3>2. uu[i - (Len(b) + n)] = u[(i - (Len(b) + n)) + n]
      BY <3>1, <1>1 DEF IsPart
    <3>3. (i - (Len(b) + n)) + n = i - Len(b)
      BY <1>1
    <3>4. t[i] = u[i - Len(b)]
      <4>1. i \in Len(b) + 1 .. Len(b) + Len(u)
        BY <2>3, <1>1
      <4> QED
        BY <4>1 DEF IsJoin
    <3> QED
      BY <3>1, <3>2, <3>3, <3>4
  <2> QED
    BY <2>1, <2>2, <2>3, <1>1
<1>3. Len(s) = Len(t) /\ \A i \in 1 .. Len(s) : s[i] = t[i]
  BY <1>1, <1>2
<1> QED
  BY <1>3, SameSeq

LEMMA Received ==
    ASSUME NEW T, NEW u \in Seq(T), NEW b \in Seq(T), NEW n \in 1 .. Len(u)
    PROVE  /\ b \o SubSeq(u, 1, n) \in Seq(T) /\ SubSeq(u, n + 1, Len(u)) \in Seq(T)
           /\ (b \o SubSeq(u, 1, n)) \o SubSeq(u, n + 1, Len(u)) = b \o u
<1>1. n \in 0 .. Len(u) /\ 0 \in 0 .. Len(u) /\ Len(u) \in n .. Len(u)
  OBVIOUS
<1>2. PICK p \in Seq(T) : p = SubSeq(u, 1, n) /\ IsPart(p, u, 0, n)
  <2>1. n - 0 = n /\ 0 + 1 = 1 /\ n \in 0 .. Len(u)
    BY <1>1
  <2> QED
    BY <1>1, <2>1, Parted
<1>3. PICK uu \in Seq(T) : uu = SubSeq(u, n + 1, Len(u)) /\ IsPart(uu, u, n, Len(u) - n)
  BY <1>1, Parted
<1>4. PICK bb \in Seq(T) : bb = b \o p /\ IsJoin(bb, b, p)
  BY Joined
<1>5. bb \o uu \in Seq(T) /\ IsJoin(bb \o uu, bb, uu)
  BY Joined
<1>6. b \o u \in Seq(T) /\ IsJoin(b \o u, b, u)
  BY Joined
<1>7. bb \o uu = b \o u
  <2>1. PICK s \in Seq(T) : s = bb \o uu /\ IsJoin(s, bb, uu)
    BY <1>5
  <2>2. PICK t \in Seq(T) : t = b \o u /\ IsJoin(t, b, u)
    BY <1>6
  <2>3. IsPart(p, u, 0, n) /\ IsPart(uu, u, n, Len(u) - n) /\ IsJoin(bb, b, p)
    BY <1>2, <1>3, <1>4
  <2>4. IsJoin(s, bb, uu) /\ IsJoin(t, b, u)
    BY <2>1, <2>2
  <2>5. s = t
    BY <2>3, <2>4, MovedParts
  <2> QED
    BY <2>1, <2>2, <2>5
<1> QED
  BY <1>2, <1>3, <1>4, <1>7

(***************************************************************************)
(* A line ends with the first Newline; where a token that is no Newline is *)
(* followed by one, it is the first or the second token.                   *)
(***************************************************************************)
LEMMA LineIs ==
    ASSUME NEW T, NEW b \in Seq(T), NEW u \in Seq(T), HasLine(b),
           NEW s \in Seq(T), IsJoin(s, b, u),
           s[1] # Newline /\ 1 < Len(s) => s[2] = Newline
    PROVE  \E e \in 1 .. Len(b) :
              /\ LineEnd(b) = e /\ s[e] = Newline /\ s[1] = b[1]
              /\ \/ e = 1 /\ Line(b) = << >>
                 \/ e = 2 /\ s[1] # Newline /\ Line(b) = <<s[1]>>
<1>1. /\ Len(b) \in Nat /\ Len(u) \in Nat /\ DOMAIN b = 1 .. Len(b)
      /\ Len(s) = Len(b) + Len(u) /\ \A i \in 1 .. Len(b) : s[i] = b[i]
  BY DEF IsJoin
<1>2. PICK h \in 1 .. Len(b) : b[h] = Newline
  BY <1>1 DEF HasLine
<1>3. PICK e \in 1 .. Len(b) : /\ b[e] = Newline
                               /\ e = 1 \/ (e = 2 /\ b[1] # Newline)
  <2>1. CASE b[1] = Newline
    <3>1. 1 \in 1 .. Len(b)
      BY <1>1, <1>2
    <3> QED
      BY <2>1, <3>1
  <2>2. CASE b[1] # Newline
    <3>1. h # 1 /\ Len(b) >= 2
      BY <2>2, <1>1, <1>2
    <3>2. b[2] = Newline
      BY <2>2, <3>1, <1>1
    <3>3. 2 \in 1 .. Len(b)
      BY <3>1, <1>1
    <3> QED
      BY <2>2, <3>2, <3>3
  <2> QED
    BY <2>1, <2>2
<1>4. LineEnd(b) = e
  <2>1. e \in DOMAIN b /\ b[e] = Newline /\ \A j \in 1 .. e - 1 : b[j] # Newline
    BY <1>1, <1>3
  <2>2. ASSUME NEW i \in DOMAIN b, b[i] = Newline, \A j \in 1 .. i - 1 : b[j] # Newline
        PROVE  i = e
    BY <2>1, <2>2, <1>1
  <2> QED
    BY <2>1, <2>2 DEF LineEnd
<1>5. s[1] = b[1] /\ s[e] = Newline
  BY <1>1, <1>3
<1>6. CASE e = 1
  <2>1. Line(b) = SubSeq(b, 1, 0)
    BY <1>6, <1>4 DEF Line
  <2>2. SubSeq(b, 1, 0) = << >>
    OBVIOUS
  <2> QED
    BY <1>4, <1>5, <1>6, <2>1, <2>2
<1>7. CASE e = 2 /\ b[1] # Newline
  <2>1. Line(b) = SubSeq(b, 1, 1)
    BY <1>7, <1>4 DEF Line
  <2>2. SubSeq(b, 1, 1) = <<b[1]>>
    <3>1. PICK q : q = SubSeq(b, 1, 1)
      OBVIOUS
    <3>2. 0 \in 0 .. Len(b) /\ 1 \in 0 .. Len(b) /\ 0 + 1 = 1 /\ 1 - 0 = 1
      BY <1>1, <1>7
    <3>3. q \in Seq(T) /\ IsPart(q, b, 0, 1)
      BY <3>1, <3>2, Parted
    <3>4. Len(q) = 1 /\ q[1] = b[1]
      BY <3>3, <1>1 DEF IsPart
    <3>5. q = <<b[1]>>
      BY <3>3, <3>4
    <3> QED
      BY <3>1, <3>5
  <2> QED
    BY <1>4, <1>5, <1>7, <2>1, <2>2
<1> QED
  BY <1>3, <1>6, <1>7

\* What is left of the stream when a line is taken from its front.
LEMMA Rest ==
    ASSUME NEW T, NEW b \in Seq(T), NEW u \in Seq(T), NEW e \in 1 .. Len(b),
           LineEnd(b) = e
    PROVE  /\ AfterLine(b) \in Seq(T) /\ AfterLine(b) \o u \in Seq(T)
           /\ IsPart(AfterLine(b) \o u, b \o u, e, Len(b \o u) - e)
<1>1. /\ Len(b) \in Nat /\ Len(u) \in Nat
      /\ e \in 0 .. Len(b) /\ Len(b) \in e .. Len(b)
  OBVIOUS
<1>2. PICK a \in Seq(T) : a = AfterLine(b) /\ IsPart(a, b, e, Len(b) - e)
  BY <1>1, Parted DEF AfterLine
<1>3. PICK s \in Seq(T) : s = b \o u /\ IsJoin(s, b, u)
  BY Joined
<1>4. PICK t \in Seq(T) : t = a \o u /\ IsJoin(t, a, u)
  BY Joined
<1>5. Len(a) = Len(b) - e /\ Len(s) = Len(b) + Len(u) /\ Len(t) = Len(s) - e
  BY <1>1, <1>2, <1>3, <1>4 DEF IsPart, IsJoin
<1>6. ASSUME NEW i \in 1 .. Len(s) - e PROVE t[i] = s[i + e]
  <2>1. CASE i <= Len(b) - e
    <3>1. t[i] = a[i] /\ a[i] = b[i + e] /\ i + e \in 1 .. Len(b)
      BY <2>1, <1>1, <1>2, <1>4, <1>5 DEF IsPart, IsJoin
    <3> QED
      BY <3>1, <1>3 DEF IsJoin
  <2>2. CASE i > Len(b) - e
    <3>1. t[i] = u[i - (Len(b) - e)]
      BY <2>2, <1>1, <1>4, <1>5 DEF IsJoin
    <3>2. s[i + e] = u[(i + e) - Len(b)]
      BY <2>2, <1>1, <1>3, <1>5 DEF IsJoin
    <3>3. (i + e) - Len(b) = i - (Len(b) - e)
      BY <1>1
    <3> QED
      BY <3>1, <3>2, <3>3
  <2> QED
    BY <2>1, <2>2, <1>1
<1>7. IsPart(t, s, e, Len(s) - e)
  BY <1>5, <1>6 DEF IsPart
<1> QED
  BY <1>2, <1>3, <1>4, <1>7

-------------------------------------------------------------------------------
(***************************************************************************)
(* Types and threads.                                                      *)
(***************************************************************************)
LEMMA Different ==
    /\ Newline \notin Nat /\ Bad \notin Nat /\ Bye \notin Nat /\ PeerClosed \notin Nat
    /\ Newline # Bad /\ Newline # Bye /\ Newline # PeerClosed /\ Bad # Bye
    /\ Bad # PeerClosed /\ MaxWaits \in Nat /\ MaxSends \in Nat /\ MaxLines \in Nat
  BY TransportAssumption

LEMMA UpLine ==
    ASSUME TypeOK, UpInv, HasLine(buf)
    PROVE  \E e \in 1 .. Len(buf) : \E s, t \in Seq(Tokens) :
              /\ s = buf \o up /\ t = AfterLine(buf) \o up
              /\ AfterLine(buf) \in Seq(Tokens)
              /\ Len(s) \in Nat /\ e \in 1 .. Len(s) /\ IsPart(t, s, e, Len(s) - e)
              /\ s[e] = Newline
              /\ \/ e = 1 /\ Line(buf) = << >>
                 \/ /\ e = 2 /\ s[1] # Newline /\ s[1] \in Nat \cup {Bad}
                    /\ Line(buf) = <<s[1]>>
<1>1. buf \in Seq(Tokens) /\ up \in Seq(Tokens)
  BY DEF TypeOK
<1>2. PICK s \in Seq(Tokens) : s = buf \o up /\ IsJoin(s, buf, up)
  BY <1>1, Joined
<1>3. Framed(s, peer)
  BY <1>2 DEF UpInv, UpStream
<1>4. Len(s) \in Nat /\ Len(s) = Len(buf) + Len(up) /\ Len(buf) \in Nat /\ Len(up) \in Nat
  BY <1>1, <1>2 DEF IsJoin
<1>5. s[1] # Newline /\ 1 < Len(s) => s[2] = Newline
  BY <1>3, <1>4 DEF Framed
<1>6. IsJoin(s, buf, up)
  BY <1>2
<1>7. PICK e \in 1 .. Len(buf) :
          /\ LineEnd(buf) = e /\ s[e] = Newline
          /\ \/ e = 1 /\ Line(buf) = << >>
             \/ e = 2 /\ s[1] # Newline /\ Line(buf) = <<s[1]>>
  BY <1>1, <1>5, <1>6, LineIs
<1>8. /\ AfterLine(buf) \in Seq(Tokens) /\ AfterLine(buf) \o up \in Seq(Tokens)
      /\ IsPart(AfterLine(buf) \o up, buf \o up, e, Len(buf \o up) - e)
  BY <1>1, <1>7, Rest
<1>9. e = 2 => s[1] \in Nat \cup {Bad}
  <2>1. 1 \in 1 .. Len(s)
    BY <1>4
  <2> QED
    BY <2>1, <1>3, <1>7 DEF Framed
<1>10. e \in 1 .. Len(s)
  BY <1>4
<1> QED
  BY <1>2, <1>4, <1>7, <1>8, <1>9, <1>10

LEMMA TypeInit == Init => TypeOK /\ ConnectionInv /\ ThreadInv
<1> SUFFICES ASSUME Init PROVE TypeOK /\ ConnectionInv /\ ThreadInv
  OBVIOUS
<1>1. \A T : << >> \in Seq(T)
  OBVIOUS
<1>2. 0 \in 0 .. MaxWaits /\ 0 \in 0 .. MaxSends /\ 0 \in 0 .. MaxLines
  BY Different
<1>3. TypeOK
  BY <1>1, <1>2 DEF Init, TypeOK
<1>4. ConnectionInv
  BY DEF Init, ConnectionInv, Unconnected
<1>5. ThreadInv
  BY DEF Init, ThreadInv, Unconnected
<1> QED
  BY <1>3, <1>4, <1>5

LEMMA ConnectTypes ==
    ASSUME TypeOK, ConnectionInv, ThreadInv, Connect \/ ConnectRefused
    PROVE  TypeOK' /\ ConnectionInv' /\ ThreadInv'
<1>1. CASE Connect
  <2>1. TypeOK'
    BY <1>1 DEF TypeOK, Connect, peerVars
  <2>2. ConnectionInv'
    BY <1>1 DEF TypeOK, Connect, peerVars, ConnectionInv, Unconnected
  <2>3. ~HasLine(<< >>)
    BY DEF HasLine
  <2>4. ThreadInv'
    BY <1>1, <2>3 DEF TypeOK, Connect, peerVars, ThreadInv, Unconnected, HasLine
  <2> QED
    BY <2>1, <2>2, <2>4
<1>2. CASE ConnectRefused
  <2>1. TypeOK'
    BY <1>2, Different DEF TypeOK, ConnectRefused, peerVars, rdVars, wrVars
  <2>2. ConnectionInv'
    BY <1>2 DEF TypeOK, ConnectRefused, ConnectionInv, Unconnected
  <2>3. ThreadInv'
    BY <1>2 DEF TypeOK, ConnectRefused, peerVars, rdVars, wrVars, ThreadInv, Unconnected, HasLine
  <2> QED
    BY <2>1, <2>2, <2>3
<1> QED
  BY <1>1, <1>2

LEMMA AppTypes ==
    ASSUME TypeOK, ConnectionInv, ThreadInv, send \/ poll \/ close
    PROVE  TypeOK' /\ ConnectionInv' /\ ThreadInv'
<1>1. CASE send
  <2>1. sends + 1 \in Nat \cup {Bye} /\ sends + 1 \in 0 .. MaxSends
    BY <1>1, Different DEF TypeOK, send
  <2>2. Append(tx_queue, sends + 1) \in Seq(Nat \cup {Bye})
    BY <2>1, AppendProperties DEF TypeOK
  <2>3. TypeOK'
    BY <1>1, <2>1, <2>2 DEF TypeOK, send, peerVars, rdVars
  <2>4. ConnectionInv'
    BY <1>1 DEF send, ConnectionInv, Unconnected
  <2>5. ThreadInv'
    BY <1>1 DEF send, peerVars, rdVars, ThreadInv, Unconnected, HasLine
  <2> QED
    BY <2>3, <2>4, <2>5
<1>2. CASE poll
  <2>1. rx_queue \in Seq(Nat \cup {PeerClosed}) /\ rx_queue # << >>
    BY <1>2 DEF TypeOK, poll
  <2>2. /\ Head(rx_queue) \in Nat \cup {PeerClosed}
        /\ Tail(rx_queue) \in Seq(Nat \cup {PeerClosed})
    BY <2>1, HeadTailProperties
  <2>3. Append(polled, Head(rx_queue)) \in Seq(Nat \cup {PeerClosed})
    BY <2>2, AppendProperties DEF TypeOK
  <2>4. TypeOK'
    BY <1>2, <2>2, <2>3 DEF TypeOK, poll, peerVars, wrVars
  <2>5. ConnectionInv'
    BY <1>2 DEF poll, ConnectionInv, Unconnected
  <2>6. ThreadInv'
    BY <1>2 DEF poll, peerVars, wrVars, ThreadInv, Unconnected, HasLine
  <2> QED
    BY <2>4, <2>5, <2>6
<1>3. CASE close
  <2>1. Append(tx_queue, Bye) \in Seq(Nat \cup {Bye})
    BY AppendProperties DEF TypeOK
  <2>2. /\ app_pc' \in {"flushing", "stopping", "closing", "dropping", "closed"}
        /\ stop' \in BOOLEAN /\ sock' \in {"none", "open", "shut", "closed"}
        /\ tx_queue' = tx_queue \/ tx_queue' = Append(tx_queue, Bye)
        /\ UNCHANGED <<waited, sends, polled, rdVars, wr_pc, wr_rest, up, down, peerVars>>
    BY <1>3 DEF TypeOK, close, CloseStep
  <2>3. TypeOK'
    <3>1. tx_queue' \in Seq(Nat \cup {Bye})
      <4>1. CASE tx_queue' = tx_queue
        BY <4>1 DEF TypeOK
      <4>2. CASE tx_queue' = Append(tx_queue, Bye)
        BY <4>2, <2>1
      <4> QED
        BY <4>1, <4>2, <2>2
    <3>2. UNCHANGED <<waited, sends, polled, rdVars, wr_pc, wr_rest, up, down, peerVars>>
      BY <2>2
    <3>3. /\ stop' \in BOOLEAN /\ sock' \in {"none", "open", "shut", "closed"}
          /\ app_pc' \in {"flushing", "stopping", "closing", "dropping", "closed"}
      BY <2>2
    <3> QED
      BY <3>1, <3>2, <3>3 DEF TypeOK, peerVars, rdVars
  <2>4. ConnectionInv'
    BY <1>3, SMTT(30) DEF TypeOK, close, CloseStep, ConnectionInv, Unconnected
  <2>5. ThreadInv'
    BY <1>3 DEF TypeOK, close, CloseStep, peerVars, rdVars, ThreadInv, Unconnected, HasLine
  <2> QED
    BY <2>3, <2>4, <2>5
<1> QED
  BY <1>1, <1>2, <1>3

LEMMA ReaderTypes ==
    ASSUME TypeOK, ConnectionInv, ThreadInv, UpInv, Reader
    PROVE  TypeOK' /\ ConnectionInv' /\ ThreadInv'
<1>0. /\ UNCHANGED <<appVars, wrVars, down, peerVars>> /\ up' \in Seq(Tokens)
      /\ ConnectionInv'
      /\ ~Unconnected /\ ~Unconnected'
  <2>1. UNCHANGED <<appVars, wrVars, down, peerVars>>
    BY DEF Reader, ReaderChecks, ReaderReceives, ReaderSeesEnd, ReaderSplits, ReaderEnds
  <2>2. rd_pc # "unborn"
    BY DEF Reader, ReaderChecks, ReaderReceives, ReaderSeesEnd, ReaderSplits, ReaderEnds,
           ReaderGoes
  <2>3. up' \in Seq(Tokens)
    <3>1. CASE ReaderReceives
      <4>1. PICK n \in 1 .. Len(up) : up' = SubSeq(up, n + 1, Len(up))
        BY <3>1 DEF ReaderReceives, Recv
      <4> QED
        BY <4>1, Received DEF TypeOK
    <3>2. CASE ~ReaderReceives
      <4>1. up' = up
        BY <3>2 DEF Reader, ReaderChecks, ReaderSeesEnd, ReaderSplits, ReaderEnds
      <4> QED
        BY <4>1 DEF TypeOK
    <3> QED
      BY <3>1, <3>2
  <2>4. ConnectionInv' /\ ~Unconnected /\ ~Unconnected'
    BY <2>1, <2>2 DEF ConnectionInv, Unconnected, appVars, ThreadInv
  <2> QED
    BY <2>1, <2>3, <2>4
<1>1. CASE ReaderChecks \/ ReaderSeesEnd
  <2>1. /\ UNCHANGED <<buf, rx_queue, peer_closed>>
        /\ rd_pc' \in {"load", "recv", "died", "end"}
        /\ rd_pc' \in {"load", "recv"} => rd_pc \in {"check", "load"}
        /\ rd_pc' \in {"end", "died"} => stop \/ peer = "closed"
        /\ rd_pc' = "died" => stop
    BY <1>1 DEF ReaderChecks, ReaderSeesEnd, ReaderGoes, TypeOK, ConnectionInv, ThreadInv,
                Unconnected
  <2>2. TypeOK'
    BY <1>0, <2>1 DEF TypeOK, appVars, wrVars, peerVars
  <2>3. ThreadInv'
    BY <1>0, <2>1 DEF ThreadInv, appVars, wrVars, peerVars, HasLine
  <2> QED
    BY <1>0, <2>2, <2>3
<1>2. CASE ReaderReceives
  <2>1. PICK n \in 1 .. Len(up) : buf' = buf \o SubSeq(up, 1, n)
    BY <1>2 DEF ReaderReceives, Recv
  <2>2. buf' \in Seq(Tokens)
    BY <2>1, Received DEF TypeOK
  <2>3. UNCHANGED <<rx_queue, peer_closed>> /\ rd_pc' = "lines"
    BY <1>2 DEF ReaderReceives, ReaderGoes
  <2>4. TypeOK'
    BY <1>0, <2>2, <2>3 DEF TypeOK, appVars, wrVars, peerVars
  <2>5. ThreadInv'
    BY <1>0, <2>3 DEF ThreadInv, appVars, wrVars, peerVars
  <2> QED
    BY <1>0, <2>4, <2>5
<1>3. CASE ReaderSplits
  <2>2. CASE ~HasLine(buf)
    <3>1. UNCHANGED <<buf, rx_queue, peer_closed>> /\ rd_pc' = "check"
      BY <1>3, <2>2 DEF ReaderSplits, ReaderGoes
    <3>2. TypeOK'
      BY <1>0, <3>1 DEF TypeOK, appVars, wrVars, peerVars
    <3>3. ThreadInv'
      BY <1>0, <2>2, <3>1 DEF ThreadInv, appVars, wrVars, peerVars, HasLine
    <3> QED
      BY <1>0, <3>2, <3>3
  <2>3. CASE HasLine(buf)
    <3>1. PICK e \in 1 .. Len(buf), s \in Seq(Tokens) :
              /\ s = buf \o up /\ AfterLine(buf) \in Seq(Tokens)
              /\ Len(s) \in Nat /\ e \in 1 .. Len(s)
              /\ \/ e = 1 /\ Line(buf) = << >>
                 \/ /\ e = 2 /\ s[1] # Newline /\ s[1] \in Nat \cup {Bad}
                    /\ Line(buf) = <<s[1]>>
      BY <2>3, UpLine
    <3>2. buf' = AfterLine(buf) /\ peer_closed' = peer_closed
      BY <1>3, <2>3 DEF ReaderSplits
    <3>3. CASE Line(buf) = <<Bad>>
      <4>1. rd_pc' = "died" /\ rx_queue' = rx_queue
        BY <1>3, <2>3, <3>3 DEF ReaderSplits, ReaderGoes
      <4>2. TypeOK'
        BY <1>0, <3>1, <3>2, <4>1 DEF TypeOK, appVars, wrVars, peerVars
      <4>3. garbled
        <5>1. e = 2 /\ s[1] = Bad
          BY <3>1, <3>3
        <5>2. 1 \in 1 .. Len(s)
          BY <3>1
        <5>3. HasBad(s)
          BY <5>1, <5>2 DEF HasBad
        <5> QED
          BY <3>1, <5>3 DEF UpInv, UpStream
      <4>4. ThreadInv'
        BY <1>0, <4>1, <4>3 DEF ThreadInv, appVars, wrVars, peerVars
      <4> QED
        BY <1>0, <4>2, <4>4
    <3>4. CASE Line(buf) # <<Bad>>
      <4>1. rd_pc' = "lines" /\ rx_queue' = rx_queue \o Line(buf)
        BY <1>3, <2>3, <3>4 DEF ReaderSplits, ReaderGoes, after_line
      <4>2. Line(buf) \in Seq(Nat \cup {PeerClosed})
        <5>1. CASE e = 1
          BY <5>1, <3>1
        <5>2. CASE e = 2
          <6>1. s[1] \in Nat /\ Line(buf) = <<s[1]>>
            BY <5>2, <3>1, <3>4
          <6> QED
            BY <6>1
        <5> QED
          BY <5>1, <5>2, <3>1
      <4>3. rx_queue' \in Seq(Nat \cup {PeerClosed})
        BY <4>1, <4>2, ConcatProperties DEF TypeOK
      <4>4. TypeOK'
        BY <1>0, <3>1, <3>2, <4>1, <4>3 DEF TypeOK, appVars, wrVars, peerVars
      <4>5. ThreadInv'
        BY <1>0, <4>1 DEF ThreadInv, appVars, wrVars, peerVars
      <4> QED
        BY <1>0, <4>4, <4>5
    <3> QED
      BY <3>3, <3>4
  <2> QED
    BY <2>2, <2>3
<1>4. CASE ReaderEnds
  <2>1. /\ buf' = buf /\ peer_closed' = TRUE /\ rd_pc = "end" /\ rd_pc' = "done"
        /\ rx_queue' = Append(rx_queue, PeerClosed)
    BY <1>4 DEF ReaderEnds, ReaderGoes
  <2>2. rx_queue' \in Seq(Nat \cup {PeerClosed})
    BY <2>1, AppendProperties DEF TypeOK
  <2>3. TypeOK'
    BY <1>0, <2>1, <2>2 DEF TypeOK, appVars, wrVars, peerVars
  <2>4. ThreadInv'
    BY <1>0, <2>1 DEF ThreadInv, appVars, wrVars, peerVars
  <2> QED
    BY <1>0, <2>3, <2>4
<1> QED
  BY <1>1, <1>2, <1>3, <1>4 DEF Reader

LEMMA WriterTypes ==
    ASSUME TypeOK, ConnectionInv, ThreadInv, Writer
    PROVE  TypeOK' /\ ConnectionInv' /\ ThreadInv'
<1>0. /\ UNCHANGED <<appVars, rdVars, up, peerVars>>
      /\ ConnectionInv'
      /\ ~Unconnected /\ ~Unconnected'
  <2>1. UNCHANGED <<appVars, rdVars, up, peerVars>> /\ wr_pc # "unborn"
    BY DEF Writer, WriterGets, WriterSends, WriterGoes
  <2>2. ConnectionInv' /\ ~Unconnected /\ ~Unconnected'
    BY <2>1 DEF ConnectionInv, Unconnected, appVars, ThreadInv
  <2> QED
    BY <2>1, <2>2
<1>1. CASE WriterGets
  <2>1. CASE tx_queue' = tx_queue /\ wr_rest' = wr_rest
    <3>1. /\ wr_pc \in {"check", "get"} /\ wr_pc' \in {"check", "get", "ended"}
          /\ wr_pc' = "ended" => stop
          /\ down' = down
      BY <1>1, <2>1 DEF WriterGets, WriterGoes, after_empty, ThreadInv, encode_msg
    <3>2. TypeOK'
      BY <1>0, <2>1, <3>1 DEF TypeOK, appVars, rdVars, peerVars
    <3>3. ThreadInv'
      BY <1>0, <2>1, <3>1 DEF ThreadInv, appVars, rdVars, peerVars, HasLine
    <3> QED
      BY <1>0, <3>2, <3>3
  <2>2. CASE ~(tx_queue' = tx_queue /\ wr_rest' = wr_rest)
    <3>1. /\ tx_queue # << >> /\ wr_pc' = "send" /\ down' = down
          /\ wr_rest' = <<Head(tx_queue), Newline>> /\ tx_queue' = Tail(tx_queue)
      BY <1>1, <2>2 DEF WriterGets, WriterGoes, encode_msg
    <3>2. Head(tx_queue) \in Nat \cup {Bye} /\ tx_queue' \in Seq(Nat \cup {Bye})
      BY <3>1, HeadTailProperties DEF TypeOK
    <3>3. Head(tx_queue) \in Tokens /\ Newline \in Tokens
      BY <3>2 DEF Tokens
    <3>4. wr_rest' \in Seq(Tokens)
      BY <3>1, <3>3
    <3>5. TypeOK'
      BY <1>0, <3>1, <3>2, <3>4 DEF TypeOK, appVars, rdVars, peerVars
    <3>6. ThreadInv'
      BY <1>0, <3>1 DEF ThreadInv, appVars, rdVars, peerVars, HasLine
    <3> QED
      BY <1>0, <3>5, <3>6
  <2> QED
    BY <2>1, <2>2
<1>2. CASE WriterSends
  <2>1. wr_rest' \in Seq(Tokens) /\ down' \in Seq(Tokens)
    <3>1. CASE wr_rest' = wr_rest /\ down' = down
      BY <3>1 DEF TypeOK
    <3>2. CASE ~(wr_rest' = wr_rest /\ down' = down)
      <4>1. /\ wr_rest # << >> /\ down' = Append(down, Head(wr_rest))
            /\ wr_rest' = Tail(wr_rest)
        BY <1>2, <3>2 DEF WriterSends
      <4>2. Head(wr_rest) \in Tokens /\ Tail(wr_rest) \in Seq(Tokens)
        BY <4>1, HeadTailProperties DEF TypeOK
      <4> QED
        BY <4>1, <4>2, AppendProperties DEF TypeOK
    <3> QED
      BY <3>1, <3>2
  <2>2. /\ wr_pc' \in {"send", "check", "ended"} /\ tx_queue' = tx_queue
        /\ wr_pc' = "check" => wr_rest' = << >>
        /\ wr_pc' = "ended" => stop \/ peer = "closed"
    BY <1>2, <1>0 DEF WriterSends, WriterGoes, ConnectionInv, Unconnected, TypeOK
  <2>3. TypeOK'
    BY <1>0, <2>1, <2>2 DEF TypeOK, appVars, rdVars, peerVars
  <2>4. ThreadInv'
    BY <1>0, <2>2 DEF ThreadInv, appVars, rdVars, peerVars, HasLine
  <2> QED
    BY <1>0, <2>3, <2>4
<1> QED
  BY <1>1, <1>2 DEF Writer

LEMMA Assoc ==
    ASSUME NEW T, NEW a \in Seq(T), NEW b \in Seq(T), NEW c \in Seq(T), NEW u, u = b \o c
    PROVE  a \o b \o c = a \o u
  BY ConcatAssociative

LEMMA DownLine ==
    ASSUME TypeOK, DownInv, HasLine(peer_buf)
    PROVE  \E s, t \in Seq(Tokens) :
              /\ s = peer_buf \o down \o wr_rest
              /\ t = AfterLine(peer_buf) \o down \o wr_rest
              /\ AfterLine(peer_buf) \in Seq(Tokens)
              /\ Len(s) \in Nat /\ 2 \in 1 .. Len(s) /\ 2 \in 1 .. Len(peer_buf)
              /\ LineEnd(peer_buf) = 2
              /\ IsPart(t, s, 2, Len(s) - 2)
              /\ s[1] \in Nat \cup {Bye} /\ s[1] = peer_buf[1]
              /\ Line(peer_buf) = <<s[1]>>
<1>1. peer_buf \in Seq(Tokens) /\ down \in Seq(Tokens) /\ wr_rest \in Seq(Tokens)
  BY DEF TypeOK
<1>2. PICK u \in Seq(Tokens) : u = down \o wr_rest
  BY <1>1, Joined
<1>3. PICK s \in Seq(Tokens) : s = peer_buf \o u /\ IsJoin(s, peer_buf, u)
  BY <1>1, Joined
<1>4. s = peer_buf \o down \o wr_rest
  BY <1>1, <1>2, <1>3, ConcatAssociative
<1>5. PICK n \in 0 .. Len(s) : /\ Len(s) = 2 * n
                               /\ \A k \in 1 .. n : /\ s[2 * k - 1] \in Nat \cup {Bye}
                                                    /\ s[2 * k] = Newline
  BY <1>4 DEF DownInv, Lines
<1>6. Len(s) = Len(peer_buf) + Len(u) /\ Len(peer_buf) \in Nat /\ Len(u) \in Nat
  BY <1>1, <1>3 DEF IsJoin
<1>7. Len(peer_buf) # 0
  BY <1>1 DEF HasLine
<1>8. n >= 1
  BY <1>5, <1>6, <1>7
<1>9. s[1] \in Nat \cup {Bye} /\ s[2] = Newline
  <2>1. s[2 * 1 - 1] \in Nat \cup {Bye} /\ s[2 * 1] = Newline
    BY <1>5, <1>8
  <2> QED
    BY <2>1
<1>10. s[1] # Newline
  BY <1>9, Different
<1>11. IsJoin(s, peer_buf, u)
  BY <1>3
<1>12. PICK e \in 1 .. Len(peer_buf) :
          /\ LineEnd(peer_buf) = e /\ s[e] = Newline /\ s[1] = peer_buf[1]
          /\ \/ e = 1 /\ Line(peer_buf) = << >>
             \/ e = 2 /\ s[1] # Newline /\ Line(peer_buf) = <<s[1]>>
  BY <1>1, <1>9, <1>11, LineIs
<1>13. e = 2 /\ Line(peer_buf) = <<s[1]>>
  BY <1>10, <1>12
<1>14. /\ AfterLine(peer_buf) \in Seq(Tokens) /\ AfterLine(peer_buf) \o u \in Seq(Tokens)
       /\ IsPart(AfterLine(peer_buf) \o u, peer_buf \o u, e, Len(peer_buf \o u) - e)
  BY <1>1, <1>12, Rest
<1>15. AfterLine(peer_buf) \o down \o wr_rest = AfterLine(peer_buf) \o u
  <2>1. PICK a \in Seq(Tokens) : a = AfterLine(peer_buf)
    BY <1>14
  <2>2. a \o down \o wr_rest = a \o u
    BY <1>1, <1>2, Assoc, SMTT(30)
  <2> QED
    BY <2>1, <2>2
<1>16. Len(s) \in Nat /\ 2 \in 1 .. Len(s) /\ 2 \in 1 .. Len(peer_buf)
  BY <1>5, <1>6, <1>8, <1>12, <1>13
<1> QED
  BY <1>3, <1>4, <1>9, <1>12, <1>13, <1>14, <1>15, <1>16

LEMMA PeerTypes ==
    ASSUME TypeOK, ConnectionInv, ThreadInv, DownInv,
           \/ PeerServes \/ PeerExits \/ PeerReads
           \/ \E text \in {encode_msg(lines + 1), encode_msg(Bad), <<Newline>>} :
                 PeerWrites(text)
    PROVE  TypeOK' /\ ConnectionInv' /\ ThreadInv'
<1>0. UNCHANGED <<appVars, rdVars, wrVars>> /\ ConnectionInv' /\ Unconnected' = Unconnected
  <2>1. UNCHANGED <<appVars, rdVars, wrVars>>
    BY DEF PeerServes, PeerExits, PeerReads, PeerWrites
  <2> QED
    BY <2>1 DEF ConnectionInv, Unconnected, appVars
<1>1. CASE PeerServes
  <2>1. TypeOK'
    BY <1>0, <1>1 DEF TypeOK, PeerServes, appVars, rdVars, wrVars
  <2>2. ThreadInv'
    BY <1>0, <1>1 DEF ThreadInv, PeerServes, appVars, rdVars, wrVars, HasLine
  <2> QED
    BY <1>0, <2>1, <2>2
<1>2. CASE PeerExits
  <2>1. up' \in Seq(Tokens) /\ (rd_pc = "unborn" => up' = up)
    <3>1. lines + 1 \in Tokens
      BY Different DEF TypeOK, Tokens
    <3>2. PICK cut \in {<< >>, <<lines + 1>>} :
              up' = IF Linked /\ sock = "open" THEN up \o cut ELSE up
      BY <1>2 DEF PeerExits
    <3>3. cut \in Seq(Tokens)
      <4>1. << >> \in Seq(Tokens) /\ <<lines + 1>> \in Seq(Tokens)
        BY <3>1
      <4> QED
        BY <4>1, <3>2
    <3>4. up \o cut \in Seq(Tokens)
      BY <3>3, Joined DEF TypeOK
    <3> QED
      BY <3>2, <3>4 DEF TypeOK, Linked
  <2>2. TypeOK'
    BY <1>0, <1>2, <2>1 DEF TypeOK, PeerExits, appVars, rdVars, wrVars
  <2>3. ThreadInv'
    BY <1>0, <1>2, <2>1 DEF ThreadInv, PeerExits, appVars, rdVars, wrVars, HasLine
  <2> QED
    BY <1>0, <2>2, <2>3
<1>3. CASE PeerReads
  <2>1. rd_pc # "unborn"
    BY <1>3 DEF PeerReads, Linked
  <2>2. UNCHANGED <<up, peer, lines, garbled>>
    BY <1>3 DEF PeerReads
  <2>3. peer_buf' \in Seq(Tokens) /\ down' \in Seq(Tokens) /\ taken' \in Seq(Nat \cup {Bye})
    <3>1. CASE ~HasLine(peer_buf)
      <4>1. taken' = taken /\ Recv(down, peer_buf)
        BY <1>3, <3>1 DEF PeerReads
      <4>2. PICK n \in 1 .. Len(down) : /\ peer_buf' = peer_buf \o SubSeq(down, 1, n)
                                        /\ down' = SubSeq(down, n + 1, Len(down))
        BY <4>1 DEF Recv
      <4> QED
        BY <4>1, <4>2, Received DEF TypeOK
    <3>2. CASE HasLine(peer_buf)
      <4>1. /\ peer_buf' = AfterLine(peer_buf) /\ taken' = taken \o Line(peer_buf)
            /\ down' = down
        BY <1>3, <3>2 DEF PeerReads
      <4>2. PICK m \in Nat \cup {Bye} : Line(peer_buf) = <<m>>
        BY <3>2, DownLine
      <4>3. AfterLine(peer_buf) \in Seq(Tokens)
        BY <3>2, DownLine
      <4>4. <<m>> \in Seq(Nat \cup {Bye})
        OBVIOUS
      <4>5. taken \o <<m>> \in Seq(Nat \cup {Bye})
        BY <4>4, ConcatProperties DEF TypeOK
      <4> QED
        BY <4>1, <4>2, <4>3, <4>5 DEF TypeOK
    <3> QED
      BY <3>1, <3>2
  <2>4. TypeOK'
    BY <1>0, <2>2, <2>3 DEF TypeOK, appVars, rdVars, wrVars
  <2>5. ThreadInv'
    BY <1>0, <2>1, <2>2 DEF ThreadInv, appVars, rdVars, wrVars, HasLine
  <2> QED
    BY <1>0, <2>4, <2>5
<1>4. ASSUME NEW text \in {encode_msg(lines + 1), encode_msg(Bad), <<Newline>>},
             PeerWrites(text)
      PROVE  TypeOK' /\ ConnectionInv' /\ ThreadInv'
  <2>1. /\ UNCHANGED <<down, peer, peer_buf, taken>> /\ up' = up \o text
        /\ rd_pc # "unborn" /\ lines < MaxLines /\ lines' = lines + 1
    BY <1>4 DEF PeerWrites, Linked
  <2>2. garbled' \in BOOLEAN /\ (garbled => garbled')
    BY <1>4 DEF PeerWrites
  <2>3. lines + 1 \in Tokens /\ Bad \in Tokens /\ Newline \in Tokens
    BY Different DEF TypeOK, Tokens
  <2>4. <<lines + 1, Newline>> \in Seq(Tokens) /\ <<Bad, Newline>> \in Seq(Tokens)
        /\ <<Newline>> \in Seq(Tokens)
    BY <2>3
  <2>5. text \in Seq(Tokens)
    BY <2>4, <1>4 DEF encode_msg
  <2>6. up' \in Seq(Tokens)
    BY <2>1, <2>5, Joined DEF TypeOK
  <2>7. lines' \in 0 .. MaxLines
    BY <2>1, Different DEF TypeOK
  <2>8. TypeOK'
    BY <1>0, <2>1, <2>2, <2>6, <2>7 DEF TypeOK, appVars, rdVars, wrVars
  <2>9. ThreadInv'
    BY <1>0, <2>1, <2>2 DEF ThreadInv, appVars, rdVars, wrVars, HasLine
  <2> QED
    BY <1>0, <2>8, <2>9
<1> QED
  BY <1>1, <1>2, <1>3, <1>4

-------------------------------------------------------------------------------
(***************************************************************************)
(* What the peer sends.                                                    *)
(***************************************************************************)
LEMMA UpSame ==
    ASSUME NEW s, NEW of, NEW bad, NEW reader, UpStream(s, of, bad, reader),
           NEW of2, of = "closed" => of2 = "closed",
           NEW reader2, reader = "died" => reader2 = "died"
    PROVE  UpStream(s, of2, bad, reader2)
  BY DEF UpStream, Framed

LEMMA UpRest ==
    ASSUME NEW T, NEW s \in Seq(T), NEW of, NEW bad, NEW reader,
           UpStream(s, of, bad, reader),
           NEW e \in 1 .. Len(s), NEW t \in Seq(T), IsPart(t, s, e, Len(s) - e),
           s[e] = Newline, NEW reader2, reader = "died" => reader2 = "died",
           \/ e = 1
           \/ e = 2 /\ (s[1] = Bad => reader2 = "died")
    PROVE  UpStream(t, of, bad, reader2)
<1>1. Len(s) \in Nat /\ Len(t) = Len(s) - e /\ \A i \in 1 .. Len(t) : t[i] = s[i + e]
  BY DEF IsPart
<1>2. Framed(t, of)
  <2> SUFFICES ASSUME NEW i \in 1 .. Len(t), t[i] # Newline
               PROVE  /\ t[i] \in Nat \cup {Bad}
                      /\ i < Len(t) => t[i + 1] = Newline
                      /\ i = Len(t) => t[i] # Bad /\ of = "closed"
    BY DEF Framed
  <2>1. i + e \in 1 .. Len(s) /\ s[i + e] = t[i]
    BY <1>1
  <2>2. /\ t[i] \in Nat \cup {Bad}
        /\ i + e < Len(s) => s[(i + e) + 1] = Newline
        /\ i + e = Len(s) => t[i] # Bad /\ of = "closed"
    BY <2>1 DEF UpStream, Framed
  <2>3. ASSUME i < Len(t) PROVE t[i + 1] = Newline
    <3>1. i + 1 \in 1 .. Len(t) /\ (i + 1) + e = (i + e) + 1 /\ i + e < Len(s)
      BY <1>1, <2>3
    <3> QED
      BY <3>1, <2>2, <1>1
  <2>4. i = Len(t) => i + e = Len(s)
    BY <1>1
  <2> QED
    BY <2>2, <2>3, <2>4
<1>3. HasBad(t) => HasBad(s)
  <2> SUFFICES ASSUME NEW i \in 1 .. Len(t), t[i] = Bad PROVE HasBad(s)
    BY DEF HasBad
  <2>1. i + e \in 1 .. Len(s) /\ s[i + e] = Bad
    BY <1>1
  <2> QED
    BY <2>1 DEF HasBad
<1>4. HasBad(s) => HasBad(t) \/ reader2 = "died"
  <2> SUFFICES ASSUME NEW i \in 1 .. Len(s), s[i] = Bad, reader2 # "died" PROVE HasBad(t)
    BY DEF HasBad
  <2>1. i > e
    BY <1>1, Different
  <2>2. i - e \in 1 .. Len(t) /\ (i - e) + e = i
    BY <1>1, <2>1
  <2>3. t[i - e] = Bad
    BY <1>1, <2>2
  <2> QED
    BY <2>2, <2>3 DEF HasBad
<1> QED
  BY <1>2, <1>3, <1>4 DEF UpStream

\* Where position i of n tokens and at most two more lies.
LEMMA Places ==
    ASSUME NEW n \in Nat, NEW k \in 0 .. 2, NEW i \in 1 .. n + k
    PROVE  \/ i \in 1 .. n \/ (i = n + 1 /\ k = 2)
           \/ (i = n + 1 /\ k = 1) \/ i = n + 2
  OBVIOUS

LEMMA UpMore ==
    ASSUME NEW T, NEW s \in Seq(T), NEW bad, NEW reader, NEW of, of # "closed",
           UpStream(s, of, bad, reader),
           NEW text \in Seq(T), NEW t \in Seq(T), IsJoin(t, s, text),
           NEW of2, NEW bad2, bad2 <=> bad \/ (Len(text) = 2 /\ text[1] = Bad),
           \/ Len(text) = 2 /\ text[1] \in Nat \cup {Bad} /\ text[2] = Newline
           \/ Len(text) = 1 /\ text[1] = Newline
           \/ Len(text) = 1 /\ text[1] \in Nat /\ of2 = "closed"
           \/ Len(text) = 0
    PROVE  UpStream(t, of2, bad2, reader)
<1>1. /\ Len(s) \in Nat /\ Len(t) = Len(s) + Len(text) /\ Len(text) \in Nat
      /\ \A i \in 1 .. Len(s) : t[i] = s[i]
      /\ \A i \in Len(s) + 1 .. Len(t) : t[i] = text[i - Len(s)]
  BY DEF IsJoin
<1>2. /\ Len(text) >= 1 => t[Len(s) + 1] = text[1]
      /\ Len(text) = 2 => t[Len(s) + 2] = text[2]
  <2>1. Len(text) >= 1 => Len(s) + 1 \in Len(s) + 1 .. Len(t) /\ (Len(s) + 1) - Len(s) = 1
    BY <1>1
  <2>2. Len(text) = 2 => Len(s) + 2 \in Len(s) + 1 .. Len(t) /\ (Len(s) + 2) - Len(s) = 2
    BY <1>1
  <2>3. Len(text) >= 1 => t[Len(s) + 1] = text[1]
    BY <2>1, <1>1
  <2>4. Len(text) = 2 => t[Len(s) + 2] = text[2]
    BY <2>2, <1>1
  <2> QED
    BY <2>3, <2>4
<1>3. Framed(t, of2)
  <2> SUFFICES ASSUME NEW i \in 1 .. Len(t), t[i] # Newline
               PROVE  /\ t[i] \in Nat \cup {Bad}
                      /\ i < Len(t) => t[i + 1] = Newline
                      /\ i = Len(t) => t[i] # Bad /\ of2 = "closed"
    BY DEF Framed
  <2>1. CASE i \in 1 .. Len(s)
    <3>1. s[i] # Newline /\ s[i] = t[i]
      BY <2>1, <1>1
    <3>2. s[i] \in Nat \cup {Bad} /\ i < Len(s) /\ s[i + 1] = Newline
      BY <2>1, <3>1, <1>1 DEF UpStream, Framed
    <3>3. i + 1 \in 1 .. Len(s) /\ i # Len(t)
      BY <2>1, <3>2, <1>1
    <3>4. t[i + 1] = Newline
      BY <3>2, <3>3, <1>1
    <3> QED
      BY <3>1, <3>2, <3>3, <3>4
  <2>2. CASE i = Len(s) + 1 /\ Len(text) = 2
    <3>1. t[i] = text[1] /\ t[i + 1] = Newline /\ text[1] \in Nat \cup {Bad}
      BY <2>2, <1>1, <1>2
    <3> QED
      BY <2>2, <3>1, <1>1
  <2>3. CASE i = Len(s) + 1 /\ Len(text) = 1
    <3>1. t[i] = text[1] /\ text[1] \in Nat /\ of2 = "closed" /\ i = Len(t)
      BY <2>3, <1>1, <1>2
    <3> QED
      BY <3>1, <1>1, Different
  <2>4. CASE i = Len(s) + 2
    <3>1. Len(text) = 2
      BY <2>4, <1>1
    <3>2. t[i] = Newline
      BY <2>4, <3>1, <1>2
    <3> QED
      BY <3>2
  <2>5. \/ i \in 1 .. Len(s) \/ (i = Len(s) + 1 /\ Len(text) = 2)
        \/ (i = Len(s) + 1 /\ Len(text) = 1) \/ i = Len(s) + 2
    <3>1. Len(s) \in Nat /\ Len(text) \in 0 .. 2 /\ i \in 1 .. Len(s) + Len(text)
      BY <1>1
    <3> QED
      BY <3>1, Places
  <2> QED
    BY <2>1, <2>2, <2>3, <2>4, <2>5
<1>4. HasBad(t) <=> HasBad(s) \/ (Len(text) = 2 /\ text[1] = Bad)
  <2>1. ASSUME HasBad(s) PROVE HasBad(t)
    <3>1. PICK i \in 1 .. Len(s) : s[i] = Bad
      BY <2>1 DEF HasBad
    <3>2. i \in 1 .. Len(t) /\ t[i] = Bad
      BY <3>1, <1>1
    <3> QED
      BY <3>2 DEF HasBad
  <2>2. ASSUME Len(text) = 2, text[1] = Bad PROVE HasBad(t)
    <3>1. Len(s) + 1 \in 1 .. Len(t) /\ t[Len(s) + 1] = Bad
      BY <2>2, <1>1, <1>2
    <3> QED
      BY <3>1 DEF HasBad
  <2>3. ASSUME HasBad(t), ~HasBad(s) PROVE Len(text) = 2 /\ text[1] = Bad
    <3>1. PICK i \in 1 .. Len(t) : t[i] = Bad
      BY <2>3 DEF HasBad
    <3>2. i \notin 1 .. Len(s)
      BY <2>3, <3>1, <1>1 DEF HasBad
    <3>3. i = Len(s) + 1 \/ i = Len(s) + 2
      BY <3>2, <1>1
    <3> QED
      BY <3>1, <3>3, <1>1, <1>2, Different
  <2> QED
    BY <2>1, <2>2, <2>3
<1>5. (HasBad(s) => bad) /\ (bad => reader = "died" \/ HasBad(s))
  BY DEF UpStream
<1> QED
  BY <1>3, <1>4, <1>5 DEF UpStream

LEMMA UpStep ==
    ASSUME TypeOK, ConnectionInv, ThreadInv, UpInv, [Next]_vars
    PROVE  UpInv'
<1>0. buf \in Seq(Tokens) /\ up \in Seq(Tokens)
  BY DEF TypeOK
<1>1. ASSUME UNCHANGED <<buf, up, garbled>>, peer = "closed" => peer' = "closed",
             rd_pc = "died" => rd_pc' = "died"
      PROVE  UpInv'
  BY <1>1, UpSame DEF UpInv
<1>2. CASE \/ Connect \/ ConnectRefused \/ send \/ poll \/ close
           \/ ReaderChecks \/ ReaderSeesEnd \/ ReaderEnds \/ Writer
           \/ PeerServes \/ PeerReads \/ UNCHANGED vars
  <2>1. /\ UNCHANGED <<buf, up, garbled>>
        /\ peer = "closed" => peer' = "closed"
        /\ rd_pc = "died" => rd_pc' = "died"
    BY <1>2 DEF Connect, ConnectRefused, send, poll, close, ReaderChecks, ReaderSeesEnd,
         ReaderEnds, Writer, WriterGets, WriterSends, PeerServes, PeerReads, vars, rdVars,
         peerVars, wrVars, appVars, ReaderGoes, ThreadInv, Unconnected
  <2>2. UNCHANGED <<buf, up, garbled>> /\ (peer = "closed" => peer' = "closed")
    BY <2>1
  <2>3. rd_pc = "died" => rd_pc' = "died"
    BY <2>1
  <2> QED
    BY <2>2, <2>3, <1>1
<1>3. CASE ReaderReceives
  <2>1. PICK n \in 1 .. Len(up) : /\ buf' = buf \o SubSeq(up, 1, n)
                                  /\ up' = SubSeq(up, n + 1, Len(up))
    BY <1>3 DEF ReaderReceives, Recv
  <2>2. buf' \o up' = buf \o up
    BY <2>1, <1>0, Received
  <2>3. peer' = peer /\ garbled' = garbled /\ rd_pc # "died"
    BY <1>3 DEF ReaderReceives, ReaderGoes, peerVars
  <2> QED
    BY <2>2, <2>3, UpSame DEF UpInv
<1>4. CASE ReaderSplits
  <2>1. up' = up /\ garbled' = garbled /\ peer' = peer /\ rd_pc = "lines"
    BY <1>4 DEF ReaderSplits, ReaderGoes, peerVars
  <2>2. CASE ~HasLine(buf)
    BY <2>1, <2>2, <1>1, <1>4 DEF ReaderSplits
  <2>3. CASE HasLine(buf)
    <3>1. PICK e \in 1 .. Len(buf), s \in Seq(Tokens), t \in Seq(Tokens) :
              /\ s = buf \o up /\ t = AfterLine(buf) \o up
              /\ e \in 1 .. Len(s) /\ IsPart(t, s, e, Len(s) - e) /\ s[e] = Newline
              /\ \/ e = 1 /\ Line(buf) = << >>
                 \/ e = 2 /\ s[1] # Newline /\ Line(buf) = <<s[1]>>
      BY <2>3, UpLine
    <3>2. UpStream(s, peer, garbled, rd_pc)
      BY <3>1 DEF UpInv
    <3>3. buf' = AfterLine(buf) /\ (Line(buf) = <<Bad>> => rd_pc' = "died")
      BY <1>4, <2>3 DEF ReaderSplits, ReaderGoes
    <3>4. e = 1 \/ (e = 2 /\ (s[1] = Bad => rd_pc' = "died"))
      BY <3>1, <3>3
    <3>5. IsPart(t, s, e, Len(s) - e) /\ s[e] = Newline /\ e \in 1 .. Len(s)
      BY <3>1
    <3>6. rd_pc = "died" => rd_pc' = "died"
      BY <2>1
    <3>7. UpStream(t, peer, garbled, rd_pc')
      BY <3>2, <3>4, <3>5, <3>6, UpRest
    <3>8. t = buf' \o up'
      BY <3>1, <3>3, <2>1
    <3> QED
      BY <3>7, <3>8, <2>1 DEF UpInv
  <2> QED
    BY <2>2, <2>3
<1>5. PICK s \in Seq(Tokens) : s = buf \o up
  BY <1>0, Joined
<1>6. UpStream(s, peer, garbled, rd_pc)
  BY <1>5 DEF UpInv
<1>7. ASSUME NEW text \in Seq(Tokens), up' = up \o text, buf' = buf, rd_pc' = rd_pc,
             peer # "closed",
             garbled' <=> garbled \/ (Len(text) = 2 /\ text[1] = Bad),
             \/ Len(text) = 2 /\ text[1] \in Nat \cup {Bad} /\ text[2] = Newline
             \/ Len(text) = 1 /\ text[1] = Newline
             \/ Len(text) = 1 /\ text[1] \in Nat /\ peer' = "closed"
             \/ Len(text) = 0
      PROVE  UpInv'
  <2>1. PICK t \in Seq(Tokens) : t = s \o text /\ IsJoin(t, s, text)
    BY Joined
  <2>2. IsJoin(t, s, text)
    BY <2>1
  <2>3. UpStream(t, peer', garbled', rd_pc)
    BY <1>6, <1>7, <2>2, UpMore
  <2>4. PICK v : v = up \o text
    OBVIOUS
  <2>5. (buf \o up) \o text = buf \o v
    BY <1>0, <2>4, Assoc
  <2>6. t = buf' \o up'
    BY <1>5, <1>7, <2>1, <2>4, <2>5
  <2> QED
    BY <2>3, <2>6, <1>7 DEF UpInv
<1>8. CASE PeerExits
  <2>1. /\ UNCHANGED <<buf, garbled, rd_pc>> /\ peer # "closed" /\ peer' = "closed"
    BY <1>8 DEF PeerExits, rdVars
  <2>2. CASE up' = up
    BY <2>1, <2>2, <1>1
  <2>3. CASE up' # up
    <3>1. up' = up \o <<lines + 1>> \/ up' = up \o << >>
      BY <1>8, <2>3 DEF PeerExits
    <3>2. lines + 1 \in Nat /\ lines + 1 \in Tokens
      BY Different DEF TypeOK, Tokens
    <3>5. CASE up' = up \o <<lines + 1>>
      <4>1. PICK x : x = <<lines + 1>>
        OBVIOUS
      <4>2. x \in Seq(Tokens) /\ Len(x) = 1 /\ x[1] \in Nat
        BY <4>1, <3>2
      <4>3. garbled' <=> garbled \/ (Len(x) = 2 /\ x[1] = Bad)
        BY <4>2, <2>1
      <4> QED
        BY <4>1, <4>2, <4>3, <3>5, <2>1, <1>7
    <3>6. CASE up' = up \o << >>
      <4>1. PICK x : x = << >>
        OBVIOUS
      <4>2. x \in Seq(Tokens) /\ Len(x) = 0
        BY <4>1
      <4>3. garbled' <=> garbled \/ (Len(x) = 2 /\ x[1] = Bad)
        BY <4>2, <2>1
      <4> QED
        BY <4>1, <4>2, <4>3, <3>6, <2>1, <1>7
    <3> QED
      BY <3>1, <3>5, <3>6
  <2> QED
    BY <2>2, <2>3
<1>9. ASSUME NEW text \in {encode_msg(lines + 1), encode_msg(Bad), <<Newline>>},
             PeerWrites(text)
      PROVE  UpInv'
  <2>1. /\ UNCHANGED <<buf, rd_pc, peer>> /\ peer # "closed" /\ up' = up \o text
        /\ garbled' = (garbled \/ text = encode_msg(Bad))
    BY <1>9 DEF PeerWrites, rdVars, Linked
  <2>2. lines + 1 \in Nat /\ lines + 1 \in Tokens /\ Bad \in Tokens /\ Newline \in Tokens
    BY Different DEF TypeOK, Tokens
  <2>3. PICK x : x = <<lines + 1, Newline>>
    OBVIOUS
  <2>4. PICK y : y = <<Bad, Newline>>
    OBVIOUS
  <2>5. PICK z : z = <<Newline>>
    OBVIOUS
  <2>6. x \in Seq(Tokens) /\ Len(x) = 2 /\ x[1] \in Nat /\ x[2] = Newline
    BY <2>2, <2>3
  <2>7. y \in Seq(Tokens) /\ Len(y) = 2 /\ y[1] = Bad /\ y[2] = Newline
    BY <2>2, <2>4
  <2>8. z \in Seq(Tokens) /\ Len(z) = 1 /\ z[1] = Newline
    BY <2>2, <2>5
  <2>9. x # y /\ z # y /\ x[1] # Bad
    BY <2>6, <2>7, <2>8, Different
  <2>10. garbled' <=> garbled \/ text = y
    BY <2>1, <2>4 DEF encode_msg
  <2>11. CASE text = x
    <3>1. garbled' <=> garbled \/ (Len(x) = 2 /\ x[1] = Bad)
      BY <2>9, <2>10, <2>11
    <3>2. up' = up \o x
      BY <2>1, <2>11
    <3> QED
      BY <2>1, <2>6, <3>1, <3>2, <1>7
  <2>12. CASE text = y
    <3>1. garbled' <=> garbled \/ (Len(y) = 2 /\ y[1] = Bad)
      BY <2>7, <2>10, <2>12
    <3>2. up' = up \o y
      BY <2>1, <2>12
    <3> QED
      BY <2>1, <2>7, <3>1, <3>2, <1>7
  <2>13. CASE text = z
    <3>1. garbled' <=> garbled \/ (Len(z) = 2 /\ z[1] = Bad)
      BY <2>8, <2>9, <2>10, <2>13
    <3>2. up' = up \o z
      BY <2>1, <2>13
    <3> QED
      BY <2>1, <2>8, <3>1, <3>2, <1>7
  <2>14. text = x \/ text = y \/ text = z
    BY <2>3, <2>4, <2>5 DEF encode_msg
  <2> QED
    BY <2>11, <2>12, <2>13, <2>14
<1> QED
  BY <1>2, <1>3, <1>4, <1>8, <1>9 DEF Next, Writer

-------------------------------------------------------------------------------
(***************************************************************************)
(* What the testbench sends.                                               *)
(***************************************************************************)
LEMMA LinesMore ==
    ASSUME NEW T, NEW s \in Seq(T), Lines(s), NEW text \in Seq(T), Len(text) = 2,
           text[1] \in Nat \cup {Bye}, text[2] = Newline,
           NEW t \in Seq(T), IsJoin(t, s, text)
    PROVE  Lines(t)
<1>1. PICK n \in 0 .. Len(s) : /\ Len(s) = 2 * n
                               /\ \A k \in 1 .. n : /\ s[2 * k - 1] \in Nat \cup {Bye}
                                                    /\ s[2 * k] = Newline
  BY DEF Lines
<1>2. /\ Len(s) \in Nat /\ Len(t) = Len(s) + 2
      /\ \A i \in 1 .. Len(s) : t[i] = s[i]
      /\ \A i \in Len(s) + 1 .. Len(s) + 2 : t[i] = text[i - Len(s)]
  BY DEF IsJoin
<1>3. t[Len(s) + 1] = text[1] /\ t[Len(s) + 2] = text[2]
  BY <1>2
<1>4. n + 1 \in 0 .. Len(t) /\ Len(t) = 2 * (n + 1)
  BY <1>1, <1>2
<1>5. ASSUME NEW k \in 1 .. n + 1
      PROVE  t[2 * k - 1] \in Nat \cup {Bye} /\ t[2 * k] = Newline
  <2>1. CASE k \in 1 .. n
    <3>1. 2 * k - 1 \in 1 .. Len(s) /\ 2 * k \in 1 .. Len(s)
      BY <2>1, <1>1
    <3> QED
      BY <2>1, <3>1, <1>1, <1>2
  <2>2. CASE k = n + 1
    <3>1. 2 * k - 1 = Len(s) + 1 /\ 2 * k = Len(s) + 2
      BY <2>2, <1>1
    <3> QED
      BY <3>1, <1>3
  <2> QED
    BY <2>1, <2>2, <1>1
<1> QED
  BY <1>4, <1>5 DEF Lines

LEMMA LinesRest ==
    ASSUME NEW T, NEW s \in Seq(T), Lines(s), Len(s) >= 2,
           NEW t \in Seq(T), IsPart(t, s, 2, Len(s) - 2)
    PROVE  Lines(t)
<1>1. PICK n \in 0 .. Len(s) : /\ Len(s) = 2 * n
                               /\ \A k \in 1 .. n : /\ s[2 * k - 1] \in Nat \cup {Bye}
                                                    /\ s[2 * k] = Newline
  BY DEF Lines
<1>2. Len(s) \in Nat /\ Len(t) = Len(s) - 2 /\ \A i \in 1 .. Len(s) - 2 : t[i] = s[i + 2]
  BY DEF IsPart
<1>3. n - 1 \in 0 .. Len(t) /\ Len(t) = 2 * (n - 1)
  BY <1>1, <1>2
<1>4. ASSUME NEW k \in 1 .. n - 1
      PROVE  t[2 * k - 1] \in Nat \cup {Bye} /\ t[2 * k] = Newline
  <2>1. 2 * k - 1 \in 1 .. Len(s) - 2 /\ 2 * k \in 1 .. Len(s) - 2
    BY <1>1
  <2>2. t[2 * k - 1] = s[(2 * k - 1) + 2] /\ t[2 * k] = s[2 * k + 2]
    BY <2>1, <1>2
  <2>3. (2 * k - 1) + 2 = 2 * (k + 1) - 1 /\ 2 * k + 2 = 2 * (k + 1) /\ k + 1 \in 1 .. n
    BY <1>1
  <2> QED
    BY <2>2, <2>3, <1>1
<1> QED
  BY <1>3, <1>4 DEF Lines

\* sendall moves one token from what is left of the line to the wire.
Moved(x, y, z, b, w, r, p, s, q, t) ==
    /\ x \in Seq(Tokens) /\ y \in Seq(Tokens) /\ z \in Seq(Tokens) /\ Len(z) # 0
    /\ s \in Seq(Tokens) /\ t \in Seq(Tokens)
    /\ IsJoin(b, y, w) /\ Len(w) = 1 /\ w[1] = z[1]
    /\ IsPart(r, z, 1, Len(z) - 1)
    /\ IsJoin(p, x, b) /\ IsJoin(s, p, r) /\ IsJoin(q, x, y) /\ IsJoin(t, q, z)

LEMMA OneMoved ==
    ASSUME NEW x, NEW y, NEW z, NEW b, NEW w, NEW r, NEW p, NEW s, NEW q, NEW t,
           Moved(x, y, z, b, w, r, p, s, q, t)
    PROVE  s = t
<1>0. /\ x \in Seq(Tokens) /\ y \in Seq(Tokens) /\ z \in Seq(Tokens) /\ Len(z) # 0
      /\ s \in Seq(Tokens) /\ t \in Seq(Tokens)
      /\ IsJoin(b, y, w) /\ Len(w) = 1 /\ w[1] = z[1]
      /\ IsPart(r, z, 1, Len(z) - 1)
      /\ IsJoin(p, x, b) /\ IsJoin(s, p, r) /\ IsJoin(q, x, y) /\ IsJoin(t, q, z)
  BY DEF Moved
<1>1. Len(x) \in Nat /\ Len(y) \in Nat /\ Len(z) \in Nat
  BY <1>0
<1>2. Len(b) = Len(y) + 1 /\ Len(r) = Len(z) - 1
  BY <1>0 DEF IsJoin, IsPart
<1>3. Len(p) = Len(x) + Len(b) /\ Len(q) = Len(x) + Len(y)
  BY <1>0 DEF IsJoin
<1>4. Len(s) = Len(p) + Len(r) /\ Len(t) = Len(q) + Len(z)
  BY <1>0 DEF IsJoin
<1>5. Len(s) = Len(t) /\ Len(p) = Len(q) + 1 /\ Len(q) \in Nat /\ Len(t) \in Nat
  BY <1>1, <1>2, <1>3, <1>4
<1>6. ASSUME NEW i \in 1 .. Len(t) PROVE s[i] = t[i]
  <2>1. CASE i <= Len(x)
    <3>1. i \in 1 .. Len(p) /\ i \in 1 .. Len(q) /\ i \in 1 .. Len(x)
      BY <2>1, <1>1, <1>2, <1>3, <1>5
    <3>2. s[i] = p[i] /\ t[i] = q[i] /\ p[i] = x[i] /\ q[i] = x[i]
      BY <1>0, <3>1 DEF IsJoin
    <3> QED
      BY <3>2
  <2>2. CASE i > Len(x) /\ i <= Len(q)
    <3>1. /\ i \in 1 .. Len(p) /\ i \in 1 .. Len(q)
          /\ i \in Len(x) + 1 .. Len(x) + Len(b) /\ i \in Len(x) + 1 .. Len(x) + Len(y)
          /\ i - Len(x) \in 1 .. Len(y)
      BY <2>2, <1>1, <1>2, <1>3, <1>5
    <3>2. /\ s[i] = p[i] /\ t[i] = q[i] /\ p[i] = b[i - Len(x)] /\ q[i] = y[i - Len(x)]
          /\ b[i - Len(x)] = y[i - Len(x)]
      BY <1>0, <3>1 DEF IsJoin
    <3> QED
      BY <3>2
  <2>3. CASE i = Len(q) + 1
    <3>1. /\ i \in 1 .. Len(p) /\ i \in Len(q) + 1 .. Len(q) + Len(z)
          /\ i \in Len(x) + 1 .. Len(x) + Len(b) /\ i - Len(q) = 1
          /\ i - Len(x) = Len(y) + 1
      BY <2>3, <1>1, <1>2, <1>3, <1>5
    <3>2. s[i] = p[i] /\ t[i] = z[i - Len(q)] /\ p[i] = b[i - Len(x)]
      BY <1>0, <3>1 DEF IsJoin
    <3>3. b[Len(y) + 1] = w[(Len(y) + 1) - Len(y)] /\ (Len(y) + 1) - Len(y) = 1
      BY <1>0, <1>1 DEF IsJoin
    <3>4. t[i] = z[1] /\ s[i] = b[Len(y) + 1]
      BY <3>1, <3>2
    <3>5. b[Len(y) + 1] = w[1]
      BY <3>3
    <3> QED
      BY <3>4, <3>5, <1>0
  <2>4. CASE i > Len(q) + 1
    <3>1. /\ i \in Len(p) + 1 .. Len(p) + Len(r) /\ i \in Len(q) + 1 .. Len(q) + Len(z)
          /\ i - Len(p) \in 1 .. Len(z) - 1 /\ (i - Len(p)) + 1 = i - Len(q)
      BY <2>4, <1>1, <1>2, <1>4, <1>5
    <3>2. s[i] = r[i - Len(p)] /\ t[i] = z[i - Len(q)]
      BY <1>0, <3>1 DEF IsJoin
    <3>3. r[i - Len(p)] = z[(i - Len(p)) + 1]
      BY <1>0, <3>1 DEF IsPart
    <3> QED
      BY <3>1, <3>2, <3>3
  <2>5. i \in Nat /\ Len(x) \in Nat /\ Len(q) \in Nat /\ Len(x) <= Len(q)
    BY <1>1, <1>3, <1>5
  <2>6. i <= Len(x) \/ (i > Len(x) /\ i <= Len(q)) \/ i = Len(q) + 1 \/ i > Len(q) + 1
    BY <2>5
  <2> QED
    BY <2>1, <2>2, <2>3, <2>4, <2>6
<1>7. Len(s) = Len(t) /\ \A i \in 1 .. Len(s) : s[i] = t[i]
  BY <1>5, <1>6
<1> QED
  BY <1>0, <1>7, SameSeq

\* A token that sendall moves is still on its way.
LEMMA SentToken ==
    ASSUME TypeOK, wr_rest # << >>, peer_buf' = peer_buf,
           down' = Append(down, Head(wr_rest)), wr_rest' = Tail(wr_rest)
    PROVE  peer_buf' \o down' \o wr_rest' = peer_buf \o down \o wr_rest
<1>0. peer_buf \in Seq(Tokens) /\ down \in Seq(Tokens) /\ wr_rest \in Seq(Tokens)
  BY DEF TypeOK
<1>2. /\ Len(wr_rest) # 0 /\ Head(wr_rest) = wr_rest[1] /\ Head(wr_rest) \in Tokens
      /\ Tail(wr_rest) = SubSeq(wr_rest, 1 + 1, Len(wr_rest))
  BY <1>0
<1>3. PICK w : w = <<Head(wr_rest)>>
  OBVIOUS
<1>4. w \in Seq(Tokens) /\ Len(w) = 1 /\ w[1] = wr_rest[1]
  BY <1>2, <1>3
<1>5. Append(down, Head(wr_rest)) = down \o w
  BY <1>2, <1>3, <1>0, AppendIsConcat
<1>6. PICK b \in Seq(Tokens) : b = down' /\ IsJoin(b, down, w)
  BY <1>4, <1>5, <1>0, Joined
<1>7. PICK r \in Seq(Tokens) : r = wr_rest' /\ IsPart(r, wr_rest, 1, Len(wr_rest) - 1)
  <2>1. 1 \in 0 .. Len(wr_rest) /\ Len(wr_rest) \in 1 .. Len(wr_rest)
    BY <1>2, <1>0
  <2> QED
    BY <2>1, <1>2, <1>0, Parted
<1>8. PICK p \in Seq(Tokens) : p = peer_buf \o b /\ IsJoin(p, peer_buf, b)
  BY <1>0, Joined
<1>9. PICK s \in Seq(Tokens) : s = p \o r /\ IsJoin(s, p, r)
  BY Joined
<1>10. PICK q \in Seq(Tokens) : q = peer_buf \o down /\ IsJoin(q, peer_buf, down)
  BY <1>0, Joined
<1>11. PICK t \in Seq(Tokens) : t = q \o wr_rest /\ IsJoin(t, q, wr_rest)
  BY <1>0, Joined
<1>12. /\ IsJoin(b, down, w) /\ IsPart(r, wr_rest, 1, Len(wr_rest) - 1)
       /\ IsJoin(p, peer_buf, b) /\ IsJoin(s, p, r)
       /\ IsJoin(q, peer_buf, down) /\ IsJoin(t, q, wr_rest)
  BY <1>6, <1>7, <1>8, <1>9, <1>10, <1>11
<1>13. Moved(peer_buf, down, wr_rest, b, w, r, p, s, q, t)
  BY <1>2, <1>4, <1>12, <1>0 DEF Moved
<1>14. s = t
  BY <1>13, OneMoved
<1> QED
  BY <1>6, <1>7, <1>8, <1>9, <1>10, <1>11, <1>14

LEMMA DownStep ==
    ASSUME TypeOK, ThreadInv, DownInv, [Next]_vars
    PROVE  DownInv'
<1>0. /\ peer_buf \in Seq(Tokens) /\ down \in Seq(Tokens) /\ wr_rest \in Seq(Tokens)
      /\ tx_queue \in Seq(Nat \cup {Bye})
  BY DEF TypeOK
<1>1. ASSUME UNCHANGED <<peer_buf, down, wr_rest>> PROVE DownInv'
  BY <1>1 DEF DownInv
<1>2. CASE \/ Connect \/ ConnectRefused \/ send \/ poll \/ close \/ Reader
           \/ PeerServes \/ PeerExits \/ UNCHANGED vars
           \/ \E text \in {encode_msg(lines + 1), encode_msg(Bad), <<Newline>>} :
                 PeerWrites(text)
  <2>1. UNCHANGED <<peer_buf, down, wr_rest>>
    BY <1>2 DEF Connect, ConnectRefused, send, poll, close, Reader, ReaderChecks,
         ReaderSeesEnd, ReaderEnds, ReaderReceives, ReaderSplits, PeerServes, PeerExits,
         PeerWrites, vars, rdVars, peerVars, wrVars, appVars
  <2> QED
    BY <2>1, <1>1
<1>3. CASE WriterGets
  <2>1. UNCHANGED <<peer_buf, down>>
    BY <1>3 DEF WriterGets, peerVars
  <2>2. CASE wr_rest' = wr_rest
    BY <2>1, <2>2, <1>1
  <2>3. CASE wr_rest' # wr_rest
    <3>1. /\ tx_queue # << >> /\ wr_rest = << >>
          /\ wr_rest' = <<Head(tx_queue), Newline>>
      BY <1>3, <2>3 DEF WriterGets, WriterGoes, encode_msg, ThreadInv
    <3>2. Head(tx_queue) \in Nat \cup {Bye}
      BY <3>1, <1>0, HeadTailProperties
    <3>3. Head(tx_queue) \in Tokens /\ Newline \in Tokens
      BY <3>2 DEF Tokens
    <3>4. PICK x : x = <<Head(tx_queue), Newline>>
      OBVIOUS
    <3>5. x \in Seq(Tokens) /\ Len(x) = 2 /\ x[1] \in Nat \cup {Bye} /\ x[2] = Newline
      BY <3>2, <3>3, <3>4
    <3>6. PICK s \in Seq(Tokens) : s = peer_buf \o down
      BY <1>0, Joined
    <3>7. s \o << >> = s
      OBVIOUS
    <3>8. Lines(s)
      BY <3>1, <3>6, <3>7 DEF DownInv
    <3>9. PICK t \in Seq(Tokens) : t = s \o x /\ IsJoin(t, s, x)
      BY <3>5, Joined
    <3>10. IsJoin(t, s, x)
      BY <3>9
    <3>11. Lines(t)
      BY <3>5, <3>8, <3>10, LinesMore
    <3>12. t = peer_buf' \o down' \o wr_rest'
      BY <2>1, <3>1, <3>4, <3>6, <3>9
    <3> QED
      BY <3>11, <3>12 DEF DownInv
  <2> QED
    BY <2>2, <2>3
<1>4. CASE WriterSends
  <2>1. peer_buf' = peer_buf
    BY <1>4 DEF WriterSends, peerVars
  <2>2. CASE down' = down /\ wr_rest' = wr_rest
    BY <2>1, <2>2, <1>1
  <2>3. CASE ~(down' = down /\ wr_rest' = wr_rest)
    <3>1. wr_rest # << >> /\ down' = Append(down, Head(wr_rest)) /\ wr_rest' = Tail(wr_rest)
      BY <1>4, <2>3 DEF WriterSends
    <3>2. peer_buf' \o down' \o wr_rest' = peer_buf \o down \o wr_rest
      BY <2>1, <3>1, SentToken
    <3> QED
      BY <3>2 DEF DownInv
  <2> QED
    BY <2>2, <2>3
<1>5. CASE PeerReads
  <2>1. wr_rest' = wr_rest
    BY <1>5 DEF PeerReads, wrVars
  <2>2. CASE ~HasLine(peer_buf)
    <3>1. PICK n \in 1 .. Len(down) : /\ peer_buf' = peer_buf \o SubSeq(down, 1, n)
                                      /\ down' = SubSeq(down, n + 1, Len(down))
      BY <1>5, <2>2 DEF PeerReads, Recv
    <3>2. peer_buf' \o down' = peer_buf \o down
      BY <3>1, <1>0, Received
    <3> QED
      BY <2>1, <3>2 DEF DownInv
  <2>3. CASE HasLine(peer_buf)
    <3>1. PICK s \in Seq(Tokens), t \in Seq(Tokens) :
              /\ s = peer_buf \o down \o wr_rest
              /\ t = AfterLine(peer_buf) \o down \o wr_rest
              /\ Len(s) \in Nat /\ 2 \in 1 .. Len(s)
              /\ IsPart(t, s, 2, Len(s) - 2)
      BY <2>3, DownLine
    <3>2. Lines(s)
      BY <3>1 DEF DownInv
    <3>3. IsPart(t, s, 2, Len(s) - 2) /\ Len(s) >= 2
      BY <3>1
    <3>4. Lines(t)
      BY <3>2, <3>3, LinesRest
    <3>5. peer_buf' = AfterLine(peer_buf) /\ down' = down
      BY <1>5, <2>3 DEF PeerReads
    <3>6. t = peer_buf' \o down' \o wr_rest'
      BY <2>1, <3>1, <3>5
    <3> QED
      BY <3>4, <3>6 DEF DownInv
  <2> QED
    BY <2>2, <2>3
<1> QED
  BY <1>2, <1>3, <1>4, <1>5 DEF Next, Reader

-------------------------------------------------------------------------------
LEMMA TransportInit == Init => TransportInv
<1> SUFFICES ASSUME Init PROVE TransportInv
  OBVIOUS
<1>1. TypeOK /\ ConnectionInv /\ ThreadInv
  BY TypeInit
<1>2. PICK e : e = << >>
  OBVIOUS
<1>3. e \o e = e /\ e \o e \o e = e /\ Len(e) = 0
  BY <1>2
<1>4. UpStream(e, "absent", FALSE, "unborn")
  BY <1>3 DEF UpStream, Framed, HasBad
<1>5. UpInv
  BY <1>2, <1>3, <1>4 DEF Init, UpInv
<1>6. Lines(e)
  BY <1>3 DEF Lines
<1>7. DownInv
  BY <1>2, <1>3, <1>6 DEF Init, DownInv
<1> QED
  BY <1>1, <1>5, <1>7 DEF TransportInv

LEMMA TransportStep == TransportInv /\ [Next]_vars => TransportInv'
<1> SUFFICES ASSUME TransportInv, [Next]_vars PROVE TransportInv'
  OBVIOUS
<1>0. TypeOK /\ ConnectionInv /\ ThreadInv /\ UpInv /\ DownInv
  BY DEF TransportInv
<1>1. TypeOK' /\ ConnectionInv' /\ ThreadInv'
  <2>1. CASE UNCHANGED vars
    <3>1. UNCHANGED <<appVars, rdVars, wrVars, up, down, peerVars>>
      BY <2>1 DEF vars
    <3>2. TypeOK'
      BY <1>0, <3>1 DEF TypeOK, appVars, rdVars, wrVars, peerVars
    <3>3. ConnectionInv'
      BY <1>0, <3>1 DEF ConnectionInv, Unconnected, appVars
    <3>4. ThreadInv'
      BY <1>0, <3>1 DEF ThreadInv, Unconnected, HasLine, appVars, rdVars, wrVars, peerVars
    <3> QED
      BY <3>2, <3>3, <3>4
  <2>2. CASE Connect \/ ConnectRefused
    BY <1>0, <2>2, ConnectTypes
  <2>3. CASE send \/ poll \/ close
    BY <1>0, <2>3, AppTypes
  <2>4. CASE Reader
    BY <1>0, <2>4, ReaderTypes
  <2>5. CASE Writer
    BY <1>0, <2>5, WriterTypes
  <2>6. CASE \/ PeerServes \/ PeerExits \/ PeerReads
             \/ \E text \in {encode_msg(lines + 1), encode_msg(Bad), <<Newline>>} :
                   PeerWrites(text)
    BY <1>0, <2>6, PeerTypes
  <2> QED
    BY <2>1, <2>2, <2>3, <2>4, <2>5, <2>6 DEF Next, Reader, Writer
<1>2. UpInv'
  BY <1>0, UpStep
<1>3. DownInv'
  BY <1>0, DownStep
<1> QED
  BY <1>1, <1>2, <1>3 DEF TransportInv

LEMMA TransportInvariant == Spec => []TransportInv
  BY TransportInit, TransportStep, PTL DEF Spec

(***************************************************************************)
(* Every variable of the transport keeps its type: in particular every     *)
(* line the reader thread decodes is one message, or the bad line it dies  *)
(* of, however recv has cut the bytes, and tx_queue, the wire and the      *)
(* peer's buffer hold whole messages in their places.                      *)
(***************************************************************************)
THEOREM TransportTypes == Spec => []TypeOK
<1>1. TransportInv => TypeOK
  BY DEF TransportInv
<1> QED
  BY <1>1, TransportInvariant, PTL

-------------------------------------------------------------------------------
(***************************************************************************)
(* Filtering by positions.  The k-th position of a finite set is the one   *)
(* with k of them up to it; that there is one for each k is a matter of    *)
(* counting: ranks are different and there are as many as positions.       *)
(***************************************************************************)
LEMMA UptoFacts ==
    ASSUME NEW P \in SUBSET Nat, IsFiniteSet(P), NEW i \in P
    PROVE  /\ IsFiniteSet(Upto(P, i)) /\ Cardinality(Upto(P, i)) \in 1 .. Cardinality(P)
           /\ \A j \in P : i < j => Cardinality(Upto(P, i)) # Cardinality(Upto(P, j))
<1>1. ASSUME NEW j \in P
      PROVE  /\ Upto(P, j) \in SUBSET P /\ IsFiniteSet(Upto(P, j))
             /\ Cardinality(Upto(P, j)) <= Cardinality(P)
  BY FS_Subset DEF Upto
<1>2. Cardinality(P) \in Nat /\ Cardinality(Upto(P, i)) \in Nat
  BY <1>1, FS_CardinalityType
<1>3. Cardinality(Upto(P, i)) # 0
  <2>1. i \in Upto(P, i)
    BY DEF Upto
  <2> QED
    BY <2>1, <1>1, FS_EmptySet
<1>4. ASSUME NEW j \in P, i < j PROVE Cardinality(Upto(P, i)) # Cardinality(Upto(P, j))
  <2>0. i \in Nat /\ j \in Nat /\ \A p \in P : p \in Nat
    OBVIOUS
  <2>1. Upto(P, i) \in SUBSET Upto(P, j) /\ j \in Upto(P, j) /\ j \notin Upto(P, i)
    <3>1. \A p \in P : p <= i => p <= j
      BY <1>4, <2>0
    <3>2. j <= j /\ ~(j <= i)
      BY <1>4, <2>0
    <3> QED
      BY <3>1, <3>2 DEF Upto
  <2>2. IsFiniteSet(Upto(P, j))
    BY <1>1
  <2>3. Cardinality(Upto(P, j)) = Cardinality(Upto(P, i)) => Upto(P, j) = Upto(P, i)
    BY <2>1, <2>2, FS_Subset
  <2> QED
    BY <2>1, <2>3
<1> QED
  BY <1>1, <1>2, <1>3, <1>4

LEMMA NthIs ==
    ASSUME NEW P \in SUBSET Nat, IsFiniteSet(P), NEW i \in P
    PROVE  Nth(P, Cardinality(Upto(P, i))) = i
<1>1. ASSUME NEW j \in P, Cardinality(Upto(P, j)) = Cardinality(Upto(P, i)) PROVE j = i
  <2>1. ~(i < j)
    BY <1>1, UptoFacts
  <2>2. ~(j < i)
    BY <1>1, UptoFacts
  <2> QED
    BY <2>1, <2>2
<1> QED
  BY <1>1 DEF Nth

LEMMA NthFacts ==
    ASSUME NEW P \in SUBSET Nat, IsFiniteSet(P), NEW k \in 1 .. Cardinality(P)
    PROVE  Nth(P, k) \in P /\ Cardinality(Upto(P, Nth(P, k))) = k
<1>1. PICK f : f = [i \in P |-> Cardinality(Upto(P, i))]
  OBVIOUS
<1>2. PICK n : n = Cardinality(P)
  OBVIOUS
<1>3. n \in Nat
  BY <1>2, FS_CardinalityType
<1>4. f \in [P -> 1 .. n]
  BY <1>1, <1>2, UptoFacts
<1>5. ASSUME NEW i \in P, NEW j \in P, f[i] = f[j] PROVE i = j
  <2>1. Cardinality(Upto(P, i)) = Cardinality(Upto(P, j))
    BY <1>1, <1>5
  <2>2. ~(i < j) /\ ~(j < i)
    BY <2>1, UptoFacts
  <2> QED
    BY <2>2
<1>6. f \in Injection(P, 1 .. n)
  BY <1>4, <1>5 DEF Injection, IsInjective
<1>7. IsFiniteSet(1 .. n) /\ Cardinality(1 .. n) = n
  BY <1>3, FS_Interval
<1>8. f \in Surjection(P, 1 .. n)
  BY <1>2, <1>6, <1>7, FS_Injection
<1>9. PICK i \in P : f[i] = k
  BY <1>2, <1>8 DEF Surjection
<1>10. Cardinality(Upto(P, i)) = k
  BY <1>1, <1>9
<1>11. Nth(P, k) = i
  BY <1>10, NthIs
<1> QED
  BY <1>10, <1>11

\* a is what s has at the positions of P.
Lists(a, s, P) ==
    Len(a) = Cardinality(P) /\ \A k \in 1 .. Cardinality(P) : a[k] = s[Nth(P, k)]

LEMMA AtFacts ==
    ASSUME NEW P \in SUBSET Nat, IsFiniteSet(P), NEW s, NEW T, \A i \in P : s[i] \in T
    PROVE  At(s, P) \in Seq(T) /\ Lists(At(s, P), s, P)
<1>1. Cardinality(P) \in Nat
  BY FS_CardinalityType
<1>2. \A k \in 1 .. Cardinality(P) : s[Nth(P, k)] \in T
  BY NthFacts
<1> QED
  BY <1>1, <1>2 DEF At, Lists

LEMMA AtSame ==
    ASSUME NEW P \in SUBSET Nat, IsFiniteSet(P), NEW s, NEW t, \A i \in P : t[i] = s[i]
    PROVE  At(t, P) = At(s, P)
<1>1. \A k \in 1 .. Cardinality(P) : t[Nth(P, k)] = s[Nth(P, k)]
  BY NthFacts
<1> QED
  BY <1>1 DEF At

\* One more position, behind all others.
OneMore(P, s, T, x, t, Q) ==
    /\ P \in SUBSET Nat /\ IsFiniteSet(P) /\ x \in Nat /\ Q = P \cup {x}
    /\ \A i \in P : s[i] \in T /\ t[i] = s[i] /\ i < x
    /\ t[x] \in T

LEMMA ListMore ==
    ASSUME NEW P, NEW s, NEW T, NEW x, NEW t, NEW Q, OneMore(P, s, T, x, t, Q),
           NEW a, Lists(a, s, P), NEW b, Lists(b, t, Q)
    PROVE  /\ Len(a) \in Nat /\ Len(b) = Len(a) + 1
           /\ \A k \in 1 .. Len(a) : b[k] = a[k]
           /\ b[Len(a) + 1] = t[x]
<1> P \in SUBSET Nat /\ IsFiniteSet(P) /\ x \in Nat /\ Q = P \cup {x}
  BY DEF OneMore
<1> (\A i \in P : i < x) /\ \A i \in P : t[i] = s[i]
  BY DEF OneMore
<1>0. x \notin P
  <2>1. ~(x < x)
    OBVIOUS
  <2> QED
    BY <2>1
<1>1. Q \in SUBSET Nat /\ IsFiniteSet(Q) /\ x \in Q
  BY FS_AddElement
<1>2. Cardinality(Q) = Cardinality(P) + 1 /\ Cardinality(P) \in Nat
  BY <1>0, FS_AddElement, FS_CardinalityType
<1>3. Len(a) = Cardinality(P) /\ Len(b) = Cardinality(Q)
  BY DEF Lists
<1>4. ASSUME NEW k \in 1 .. Cardinality(P) PROVE b[k] = a[k]
  <2>1. PICK i \in P : i = Nth(P, k) /\ Cardinality(Upto(P, i)) = k
    BY NthFacts
  <2>2. i < x /\ i \in Q /\ i \in Nat
    OBVIOUS
  <2>3. Upto(Q, i) = Upto(P, i)
    BY <2>2 DEF Upto
  <2>4. Nth(Q, Cardinality(Upto(Q, i))) = i
    BY <1>1, <2>2, NthIs
  <2>5. Nth(Q, k) = i
    BY <2>1, <2>3, <2>4
  <2>6. k \in 1 .. Cardinality(Q)
    BY <1>2
  <2>7. b[k] = t[Nth(Q, k)] /\ a[k] = s[Nth(P, k)]
    BY <2>6 DEF Lists
  <2> QED
    BY <2>1, <2>5, <2>7
<1>5. b[Cardinality(Q)] = t[x]
  <2>1. \A i \in Q : i <= x
    BY <1>1
  <2>2. Upto(Q, x) = Q
    BY <2>1 DEF Upto
  <2>3. Nth(Q, Cardinality(Upto(Q, x))) = x
    BY <1>1, NthIs
  <2>4. Cardinality(Q) \in 1 .. Cardinality(Q)
    BY <1>2
  <2>5. b[Cardinality(Q)] = t[Nth(Q, Cardinality(Q))]
    BY <2>4 DEF Lists
  <2> QED
    BY <2>2, <2>3, <2>5
<1> QED
  BY <1>2, <1>3, <1>4, <1>5

LEMMA AtMore ==
    ASSUME NEW P, NEW s, NEW T, NEW x, NEW t, NEW Q, OneMore(P, s, T, x, t, Q)
    PROVE  At(s, P) \in Seq(T) /\ At(t, Q) = Append(At(s, P), t[x])
<1>0. /\ P \in SUBSET Nat /\ IsFiniteSet(P) /\ x \in Nat /\ Q = P \cup {x}
      /\ \A i \in P : s[i] \in T /\ t[i] = s[i] /\ i < x
      /\ t[x] \in T
  BY DEF OneMore
<1>1. Q \in SUBSET Nat /\ IsFiniteSet(Q) /\ \A i \in Q : t[i] \in T
  BY <1>0, FS_AddElement
<1>2. PICK a \in Seq(T) : a = At(s, P) /\ Lists(a, s, P)
  <2>1. At(s, P) \in Seq(T) /\ Lists(At(s, P), s, P)
    BY <1>0, AtFacts
  <2> QED
    BY <2>1
<1>3. PICK b \in Seq(T) : b = At(t, Q) /\ Lists(b, t, Q)
  <2>1. At(t, Q) \in Seq(T) /\ Lists(At(t, Q), t, Q)
    BY <1>1, AtFacts
  <2> QED
    BY <2>1
<1>4. Lists(a, s, P) /\ Lists(b, t, Q)
  BY <1>2, <1>3
<1>5. /\ Len(a) \in Nat /\ Len(b) = Len(a) + 1
      /\ \A k \in 1 .. Len(a) : b[k] = a[k]
      /\ b[Len(a) + 1] = t[x]
  BY <1>4, ListMore
<1>6. PICK c \in Seq(T) : c = Append(a, t[x])
  BY <1>0, AppendProperties
<1>7. Len(c) = Len(a) + 1 /\ c[Len(a) + 1] = t[x] /\ \A k \in 1 .. Len(a) : c[k] = a[k]
  BY <1>0, <1>6, AppendProperties
<1>8. Len(b) = Len(c) /\ \A k \in 1 .. Len(b) : b[k] = c[k]
  BY <1>5, <1>7
<1>9. b = c
  BY <1>8, SameSeq
<1> QED
  BY <1>2, <1>3, <1>6, <1>9

\* One position less, before all others.
OneLess(P, s, T, x, Q) ==
    /\ P \in SUBSET Nat /\ IsFiniteSet(P) /\ x \in P /\ Q = P \ {x}
    /\ \A i \in P : s[i] \in T /\ x <= i

LEMMA ListLess ==
    ASSUME NEW P, NEW s, NEW T, NEW x, NEW Q, OneLess(P, s, T, x, Q),
           NEW a, Lists(a, s, P), NEW b, Lists(b, s, Q)
    PROVE  /\ Len(b) \in Nat /\ Len(a) = Len(b) + 1 /\ a[1] = s[x]
           /\ \A k \in 1 .. Len(b) : b[k] = a[k + 1]
<1> P \in SUBSET Nat /\ IsFiniteSet(P) /\ x \in P /\ Q = P \ {x}
  BY DEF OneLess
<1> \A i \in P : x <= i
  BY DEF OneLess
<1>1. Q \in SUBSET Nat /\ IsFiniteSet(Q)
  BY FS_RemoveElement
<1>2. /\ Cardinality(Q) = Cardinality(P) - 1 /\ Cardinality(P) \in Nat
      /\ Cardinality(Q) \in Nat
  BY <1>1, FS_RemoveElement, FS_CardinalityType
<1>3. Len(a) = Cardinality(P) /\ Len(b) = Cardinality(Q)
  BY DEF Lists
<1>4. Upto(P, x) = {x} /\ Cardinality(Upto(P, x)) = 1
  <2>1. \A i \in P : i <= x => i = x
    OBVIOUS
  <2>2. Upto(P, x) = {x}
    BY <2>1 DEF Upto
  <2> QED
    BY <2>2, FS_Singleton
<1>5. a[1] = s[x]
  <2>1. Nth(P, Cardinality(Upto(P, x))) = x
    BY NthIs
  <2>2. 1 \in 1 .. Cardinality(P)
    BY <1>2
  <2>3. a[1] = s[Nth(P, 1)]
    BY <2>2 DEF Lists
  <2> QED
    BY <2>1, <2>3, <1>4
<1>6. ASSUME NEW k \in 1 .. Cardinality(Q) PROVE b[k] = a[k + 1]
  <2>0. k + 1 \in 1 .. Cardinality(P) /\ k + 1 # 1 /\ (k + 1) - 1 = k
    BY <1>2
  <2>1. PICK i \in P : i = Nth(P, k + 1) /\ Cardinality(Upto(P, i)) = k + 1
    BY <2>0, NthFacts
  <2>2. i # x /\ i \in Q
    BY <2>0, <2>1, <1>4
  <2>3. x <= i
    OBVIOUS
  <2>4. Upto(Q, i) = Upto(P, i) \ {x} /\ x \in Upto(P, i)
    BY <2>3 DEF Upto
  <2>5. IsFiniteSet(Upto(P, i))
    BY UptoFacts
  <2>6. Cardinality(Upto(P, i) \ {x}) = Cardinality(Upto(P, i)) - 1
    BY <2>4, <2>5, FS_RemoveElement
  <2>7. Cardinality(Upto(Q, i)) = k
    BY <2>0, <2>1, <2>4, <2>6
  <2>8. Nth(Q, Cardinality(Upto(Q, i))) = i
    BY <2>2, <1>1, NthIs
  <2>9. b[k] = s[Nth(Q, k)] /\ a[k + 1] = s[Nth(P, k + 1)]
    BY <2>0 DEF Lists
  <2> QED
    BY <2>1, <2>7, <2>8, <2>9
<1>7. Len(b) \in Nat /\ Len(a) = Len(b) + 1
  BY <1>2, <1>3
<1>8. \A k \in 1 .. Len(b) : b[k] = a[k + 1]
  BY <1>3, <1>6
<1> QED
  BY <1>5, <1>7, <1>8

LEMMA AtLess ==
    ASSUME NEW P, NEW s, NEW T, NEW x, NEW Q, OneLess(P, s, T, x, Q)
    PROVE  /\ At(s, P) \in Seq(T) /\ At(s, P) # << >> /\ Head(At(s, P)) = s[x]
           /\ At(s, Q) = Tail(At(s, P))
<1>0. /\ P \in SUBSET Nat /\ IsFiniteSet(P) /\ x \in P /\ Q = P \ {x}
      /\ \A i \in P : s[i] \in T
  BY DEF OneLess
<1>1. Q \in SUBSET Nat /\ IsFiniteSet(Q) /\ \A i \in Q : s[i] \in T
  BY <1>0, FS_RemoveElement
<1>2. PICK a \in Seq(T) : a = At(s, P) /\ Lists(a, s, P)
  <2>1. At(s, P) \in Seq(T) /\ Lists(At(s, P), s, P)
    BY <1>0, AtFacts
  <2> QED
    BY <2>1
<1>3. PICK b \in Seq(T) : b = At(s, Q) /\ Lists(b, s, Q)
  <2>1. At(s, Q) \in Seq(T) /\ Lists(At(s, Q), s, Q)
    BY <1>1, AtFacts
  <2> QED
    BY <2>1
<1>4. Lists(a, s, P) /\ Lists(b, s, Q)
  BY <1>2, <1>3
<1>5. /\ Len(b) \in Nat /\ Len(a) = Len(b) + 1 /\ a[1] = s[x]
      /\ \A k \in 1 .. Len(b) : b[k] = a[k + 1]
  BY <1>4, ListLess
<1>6. a # << >> /\ Head(a) = s[x]
  BY <1>5
<1>7. PICK c \in Seq(T) : c = Tail(a)
  BY <1>6, HeadTailProperties
<1>8. Len(c) = Len(a) - 1 /\ \A k \in 1 .. Len(a) - 1 : c[k] = a[k + 1]
  BY <1>6, <1>7, HeadTailProperties
<1>9. Len(b) = Len(c) /\ \A k \in 1 .. Len(b) : b[k] = c[k]
  BY <1>5, <1>8
<1>10. b = c
  BY <1>9, SameSeq
<1> QED
  BY <1>2, <1>3, <1>6, <1>7, <1>10

LEMMA Shifted ==
    ASSUME NEW P \in SUBSET Nat, IsFiniteSet(P), NEW e \in Nat
    PROVE  LET Q == {p - e : p \in P}
           IN  IsFiniteSet(Q) /\ Cardinality(Q) = Cardinality(P)
<1>1. PICK Q : Q = {p - e : p \in P}
  OBVIOUS
<1>2. PICK f : f = [p \in P |-> p - e]
  OBVIOUS
<1>3. f \in [P -> Q]
  BY <1>1, <1>2
<1>4. f \in Surjection(P, Q)
  BY <1>1, <1>2, <1>3 DEF Surjection
<1>5. \A i, j \in P : f[i] = f[j] => i = j
  BY <1>2
<1>6. f \in Injection(P, Q)
  BY <1>3, <1>5 DEF Injection, IsInjective
<1>7. IsFiniteSet(Q) /\ Cardinality(Q) = Cardinality(P)
  BY <1>4, <1>6, FS_Surjection
<1> QED
  BY <1>1, <1>7

\* The same positions after the first e tokens are gone.
Shift(P, s, e, t, Q) ==
    /\ P \in SUBSET Nat /\ IsFiniteSet(P) /\ e \in Nat /\ Q = {p - e : p \in P}
    /\ \A p \in P : p > e /\ t[p - e] = s[p]

LEMMA AtShift ==
    ASSUME NEW P, NEW s, NEW e, NEW t, NEW Q, Shift(P, s, e, t, Q)
    PROVE  At(t, Q) = At(s, P)
<1> P \in SUBSET Nat /\ IsFiniteSet(P) /\ e \in Nat /\ Q = {p - e : p \in P}
  BY DEF Shift
<1> (\A p \in P : p > e) /\ \A p \in P : t[p - e] = s[p]
  BY DEF Shift
<1>1. Q \in SUBSET Nat /\ IsFiniteSet(Q) /\ Cardinality(Q) = Cardinality(P)
  BY Shifted
<1>2. ASSUME NEW k \in 1 .. Cardinality(P) PROVE t[Nth(Q, k)] = s[Nth(P, k)]
  <2>1. PICK i \in P : i = Nth(P, k) /\ Cardinality(Upto(P, i)) = k
    BY NthFacts
  <2>2. i - e \in Q
    OBVIOUS
  <2>3. PICK U \in SUBSET Nat : U = Upto(P, i) /\ IsFiniteSet(U)
    BY UptoFacts DEF Upto
  <2>4. Upto(Q, i - e) = {p - e : p \in U}
    BY <2>3 DEF Upto
  <2>5. Cardinality(Upto(Q, i - e)) = k
    BY <2>1, <2>3, <2>4, Shifted
  <2>6. Nth(Q, k) = i - e
    BY <2>2, <2>5, <1>1, NthIs
  <2> QED
    BY <2>1, <2>6
<1> QED
  BY <1>1, <1>2 DEF At


-------------------------------------------------------------------------------
(***************************************************************************)
(* The messages of a stream of lines.                                      *)
(***************************************************************************)
InLines(s) == At(s, Messages(s))

IsMessage(s, i) ==
    /\ i \in 1 .. Len(s) - 1
    /\ s[i] # Newline /\ s[i + 1] = Newline /\ \A j \in 1 .. i : s[j] # Bad

LEMMA MessageFacts ==
    ASSUME NEW T, NEW s \in Seq(T)
    PROVE  /\ \A i : i \in Messages(s) <=> IsMessage(s, i)
           /\ Messages(s) \in SUBSET Nat /\ IsFiniteSet(Messages(s))
<1>1. Len(s) \in Nat
  OBVIOUS
<1>2. IsFiniteSet(1 .. Len(s) - 1)
  BY <1>1, FS_Interval
<1>3. Messages(s) \in SUBSET (1 .. Len(s) - 1)
  BY DEF Messages
<1>4. IsFiniteSet(Messages(s))
  BY <1>2, <1>3, FS_Subset
<1>5. \A i : i \in Messages(s) <=> IsMessage(s, i)
  BY DEF Messages, IsMessage
<1> QED
  BY <1>3, <1>4, <1>5

LEMMA MessageTypes ==
    ASSUME NEW T, NEW s \in Seq(T), NEW of, Framed(s, of)
    PROVE  (\A i \in Messages(s) : s[i] \in Nat) /\ InLines(s) \in Seq(Nat)
<1>1. Messages(s) \in SUBSET Nat /\ IsFiniteSet(Messages(s))
  BY MessageFacts
<1>2. ASSUME NEW i \in Messages(s) PROVE s[i] \in Nat
  <2>1. IsMessage(s, i)
    BY MessageFacts
  <2>2. i \in 1 .. Len(s) /\ i \in 1 .. i /\ s[i] # Newline /\ s[i] # Bad
    BY <2>1 DEF IsMessage
  <2> QED
    BY <2>2 DEF Framed
<1>3. At(s, Messages(s)) \in Seq(Nat)
  BY <1>1, <1>2, AtFacts
<1> QED
  BY <1>2, <1>3 DEF InLines

LEMMA NoMessages ==
    ASSUME NEW T, NEW s \in Seq(T), \A i \in Messages(s) : FALSE
    PROVE  InLines(s) = << >>
<1>1. PICK P \in SUBSET Nat : P = {} /\ P = Messages(s)
  OBVIOUS
<1>2. IsFiniteSet(P) /\ Cardinality(P) = 0
  BY <1>1, FS_EmptySet
<1>3. \A i \in P : s[i] \in Nat
  BY <1>1
<1>4. At(s, P) \in Seq(Nat) /\ Lists(At(s, P), s, P)
  BY <1>2, <1>3, AtFacts
<1>5. Len(At(s, P)) = 0
  BY <1>2, <1>4 DEF Lists
<1>6. At(s, P) = << >>
  BY <1>4, <1>5
<1> QED
  BY <1>1, <1>6 DEF InLines

\* A message that the peer writes is the last.
LEMMA OneMessage ==
    ASSUME NEW T, NEW s \in Seq(T), NEW of, of # "closed", Framed(s, of), ~HasBad(s),
           NEW text \in Seq(T), Len(text) = 2, text[1] \in Nat, text[2] = Newline,
           NEW t \in Seq(T), IsJoin(t, s, text)
    PROVE  InLines(s) \in Seq(Nat) /\ InLines(t) = Append(InLines(s), text[1])
<1>1. /\ Len(s) \in Nat /\ Len(t) = Len(s) + 2
      /\ \A i \in 1 .. Len(s) : t[i] = s[i]
      /\ t[Len(s) + 1] = text[1] /\ t[Len(s) + 2] = text[2]
  <2>1. Len(s) \in Nat /\ Len(t) = Len(s) + 2 /\ \A i \in 1 .. Len(s) : t[i] = s[i]
    BY DEF IsJoin
  <2>2. \A i \in Len(s) + 1 .. Len(s) + 2 : t[i] = text[i - Len(s)]
    BY DEF IsJoin
  <2>3. t[Len(s) + 1] = text[1] /\ t[Len(s) + 2] = text[2]
    BY <2>1, <2>2
  <2> QED
    BY <2>1, <2>3
<1>2. PICK n \in Nat : n = Len(s)
  BY <1>1
<1>3. /\ Len(s) = n /\ Len(t) = n + 2
      /\ \A i \in 1 .. n : t[i] = s[i] /\ s[i] # Bad
      /\ t[n + 1] \in Nat /\ t[n + 1] = text[1] /\ t[n + 2] = Newline
  BY <1>1, <1>2 DEF HasBad
<1>4. \A i \in 1 .. n : s[i] # Newline => i < n
  BY <1>2, <1>3 DEF Framed
<1>5. ASSUME NEW i, IsMessage(s, i) PROVE i \in 1 .. n /\ i < n + 1 /\ IsMessage(t, i)
  <2>1. i \in 1 .. n - 1 /\ i \in 1 .. n /\ i + 1 \in 1 .. n /\ i \in 1 .. Len(t) - 1
    BY <1>3, <1>5 DEF IsMessage
  <2>2. \A j \in 1 .. i : j \in 1 .. n
    BY <2>1
  <2> QED
    BY <2>1, <2>2, <1>3, <1>5 DEF IsMessage
<1>6. ASSUME NEW i, IsMessage(t, i), i # n + 1 PROVE IsMessage(s, i)
  <2>1. i \in 1 .. n /\ t[i] # Newline /\ t[i + 1] = Newline
    BY <1>3, <1>6 DEF IsMessage
  <2>2. i < n
    BY <2>1, <1>3, <1>4
  <2>3. i + 1 \in 1 .. n /\ i \in 1 .. Len(s) - 1 /\ \A j \in 1 .. i : j \in 1 .. n
    BY <2>1, <2>2, <1>3
  <2> QED
    BY <2>1, <2>3, <1>3 DEF IsMessage
<1>7. IsMessage(t, n + 1)
  <2>1. n + 1 \in 1 .. Len(t) - 1 /\ t[n + 1] # Newline /\ t[(n + 1) + 1] = Newline
    BY <1>3, Different
  <2>2. ASSUME NEW j \in 1 .. n + 1 PROVE t[j] # Bad
    <3>1. j \in 1 .. n \/ j = n + 1
      OBVIOUS
    <3> QED
      BY <3>1, <1>3, Different
  <2> QED
    BY <2>1, <2>2 DEF IsMessage
<1>8. PICK P \in SUBSET Nat : P = Messages(s) /\ IsFiniteSet(P)
  BY MessageFacts
<1>9. PICK Q \in SUBSET Nat : Q = Messages(t) /\ IsFiniteSet(Q)
  BY MessageFacts
<1>10. Q = P \cup {n + 1}
  BY <1>5, <1>6, <1>7, <1>8, <1>9, MessageFacts
<1>11. \A i \in P : i < n + 1 /\ t[i] = s[i]
  BY <1>3, <1>5, <1>8, MessageFacts
<1>12. \A i \in P : s[i] \in Nat
  BY <1>8, MessageTypes
<1>13. At(s, P) \in Seq(Nat) /\ At(t, Q) = Append(At(s, P), t[n + 1])
  <2>1. PICK x \in Nat : x = n + 1
    OBVIOUS
  <2>2. /\ \A i \in P : i < x
        /\ \A i \in P : t[i] = s[i]
        /\ t[x] \in Nat /\ Q = P \cup {x}
    BY <2>1, <1>3, <1>10, <1>11
  <2>3. OneMore(P, s, Nat, x, t, Q)
    BY <2>2, <1>8, <1>12 DEF OneMore
  <2>4. At(s, P) \in Seq(Nat) /\ At(t, Q) = Append(At(s, P), t[x])
    BY <2>3, AtMore
  <2> QED
    BY <2>1, <2>4
<1> QED
  BY <1>3, <1>8, <1>9, <1>13 DEF InLines

\* What else it writes is no message, nor is one that follows a bad line.
LEMMA NoMessage ==
    ASSUME NEW T, NEW s \in Seq(T), NEW of, of # "closed", Framed(s, of),
           NEW text \in Seq(T), NEW t \in Seq(T), IsJoin(t, s, text),
           \/ Len(text) = 2 /\ (HasBad(s) \/ text[1] = Bad)
           \/ Len(text) \in {0, 1}
    PROVE  InLines(t) = InLines(s)
<1>1. /\ Len(s) \in Nat /\ Len(text) \in 0 .. 2 /\ Len(t) = Len(s) + Len(text)
      /\ \A i \in 1 .. Len(s) : t[i] = s[i]
      /\ Len(text) = 2 => t[Len(s) + 1] = text[1]
  <2>1. /\ Len(s) \in Nat /\ Len(text) \in 0 .. 2 /\ Len(t) = Len(s) + Len(text)
        /\ \A i \in 1 .. Len(s) : t[i] = s[i]
    BY DEF IsJoin
  <2>2. \A i \in Len(s) + 1 .. Len(s) + Len(text) : t[i] = text[i - Len(s)]
    BY DEF IsJoin
  <2>3. Len(text) = 2 => t[Len(s) + 1] = text[1]
    BY <2>1, <2>2
  <2> QED
    BY <2>1, <2>3
<1>2. PICK n \in Nat : n = Len(s)
  BY <1>1
<1>3. /\ Len(s) = n /\ Len(t) = n + Len(text) /\ Len(text) \in 0 .. 2
      /\ \A i \in 1 .. n : t[i] = s[i]
      /\ Len(text) = 2 => t[n + 1] = Bad \/ \E i \in 1 .. n : s[i] = Bad
  <2>1. Len(text) = 2 => t[n + 1] = Bad \/ \E i \in 1 .. n : s[i] = Bad
    <3> SUFFICES ASSUME Len(text) = 2 PROVE t[n + 1] = Bad \/ \E i \in 1 .. n : s[i] = Bad
      OBVIOUS
    <3>1. HasBad(s) \/ text[1] = Bad
      OBVIOUS
    <3>2. HasBad(s) => \E i \in 1 .. n : s[i] = Bad
      BY <1>2 DEF HasBad
    <3>3. text[1] = Bad => t[n + 1] = Bad
      BY <1>1, <1>2
    <3> QED
      BY <3>1, <3>2, <3>3
  <2>2. /\ Len(s) = n /\ Len(t) = n + Len(text) /\ Len(text) \in 0 .. 2
        /\ \A i \in 1 .. n : t[i] = s[i]
    BY <1>1, <1>2
  <2> QED
    BY <2>1, <2>2
<1>4. \A i \in 1 .. n : s[i] # Newline => i < n
  BY <1>2, <1>3 DEF Framed
<1>5. ASSUME NEW i, IsMessage(s, i) PROVE i \in 1 .. n /\ IsMessage(t, i)
  <2>1. i \in 1 .. n - 1 /\ i \in 1 .. n /\ i + 1 \in 1 .. n /\ i \in 1 .. Len(t) - 1
    BY <1>3, <1>5 DEF IsMessage
  <2>2. \A j \in 1 .. i : j \in 1 .. n
    BY <2>1
  <2> QED
    BY <2>1, <2>2, <1>3, <1>5 DEF IsMessage
<1>6. ASSUME NEW i, IsMessage(t, i) PROVE IsMessage(s, i)
  <2>1. /\ i \in 1 .. n + 1 /\ t[i] # Newline /\ t[i + 1] = Newline
        /\ \A j \in 1 .. i : t[j] # Bad
        /\ i = n + 1 => Len(text) = 2
    <3>1. /\ i \in 1 .. Len(t) - 1 /\ t[i] # Newline /\ t[i + 1] = Newline
          /\ \A j \in 1 .. i : t[j] # Bad
      BY <1>6 DEF IsMessage
    <3>2. i \in 1 .. n + 1 /\ (i = n + 1 => Len(text) = 2)
      <4>1. PICK l \in 0 .. 2 : l = Len(text)
        BY <1>3
      <4>2. i \in 1 .. (n + l) - 1
        BY <3>1, <4>1, <1>3
      <4>3. i \in 1 .. n + 1 /\ (i = n + 1 => l = 2)
        BY <4>2
      <4> QED
        BY <4>1, <4>3
    <3> QED
      BY <3>1, <3>2
  <2>2. i # n + 1
    <3> SUFFICES ASSUME i = n + 1 PROVE FALSE
      OBVIOUS
    <3>1. t[n + 1] # Bad /\ \A j \in 1 .. n : t[j] # Bad
      BY <2>1
    <3> QED
      BY <3>1, <2>1, <1>3
  <2>3. i \in 1 .. n
    BY <2>1, <2>2
  <2>4. i < n
    BY <2>1, <2>3, <1>3, <1>4
  <2>5. i + 1 \in 1 .. n /\ i \in 1 .. Len(s) - 1 /\ \A j \in 1 .. i : j \in 1 .. n
    BY <2>3, <2>4, <1>3
  <2> QED
    BY <2>1, <2>3, <2>5, <1>3 DEF IsMessage
<1>7. PICK P \in SUBSET Nat : P = Messages(s) /\ IsFiniteSet(P)
  BY MessageFacts
<1>8. Messages(t) = P
  BY <1>5, <1>6, <1>7, MessageFacts
<1>9. \A i \in P : t[i] = s[i]
  BY <1>3, <1>5, <1>7, MessageFacts
<1>10. At(t, P) = At(s, P)
  BY <1>7, <1>9, AtSame
<1> QED
  BY <1>7, <1>8, <1>10 DEF InLines

\* The messages behind the first line are those of what is left, e tokens further.
LEMMA BehindLine ==
    ASSUME NEW T, NEW s \in Seq(T), NEW e \in 1 .. Len(s),
           NEW t \in Seq(T), IsPart(t, s, e, Len(s) - e),
           \A j \in 1 .. e : s[j] # Bad, NEW i \in Nat, i > e
    PROVE  IsMessage(s, i) <=> IsMessage(t, i - e)
<1>1. /\ Len(s) \in Nat /\ Len(t) = Len(s) - e /\ e \in Nat
      /\ \A k \in 1 .. Len(s) - e : t[k] = s[k + e]
  BY DEF IsPart
<1>2. PICK k \in Nat : k = i - e /\ k >= 1 /\ i = k + e
  BY <1>1
<1>3. i \in 1 .. Len(s) - 1 <=> k \in 1 .. Len(t) - 1
  BY <1>1, <1>2
<1>4. ASSUME i \in 1 .. Len(s) - 1 PROVE t[k] = s[i] /\ t[k + 1] = s[i + 1]
  <2>1. /\ k \in 1 .. Len(s) - e /\ k + 1 \in 1 .. Len(s) - e
        /\ k + e = i /\ (k + 1) + e = i + 1
    BY <1>1, <1>2, <1>4
  <2> QED
    BY <2>1, <1>1
<1>5. ASSUME i \in 1 .. Len(s) - 1, \A j \in 1 .. i : s[j] # Bad
      PROVE  \A j \in 1 .. k : t[j] # Bad
  <2> SUFFICES ASSUME NEW j \in 1 .. k PROVE t[j] # Bad
    OBVIOUS
  <2>1. j + e \in 1 .. i /\ j \in 1 .. Len(s) - e
    BY <1>1, <1>2, <1>5
  <2> QED
    BY <2>1, <1>1, <1>5
<1>6. ASSUME i \in 1 .. Len(s) - 1, \A j \in 1 .. k : t[j] # Bad
      PROVE  \A j \in 1 .. i : s[j] # Bad
  <2> SUFFICES ASSUME NEW j \in 1 .. i PROVE s[j] # Bad
    OBVIOUS
  <2>1. CASE j <= e
    BY <2>1
  <2>2. CASE j > e
    <3>1. j - e \in 1 .. k /\ j - e \in 1 .. Len(s) - e /\ (j - e) + e = j
      BY <2>2, <1>1, <1>2, <1>6
    <3>2. t[j - e] = s[j]
      BY <3>1, <1>1
    <3> QED
      BY <3>1, <3>2, <1>6
  <2> QED
    BY <2>1, <2>2, <1>1
<1>7. IsMessage(s, i) => IsMessage(t, k)
  BY <1>3, <1>4, <1>5 DEF IsMessage
<1>8. IsMessage(t, k) => IsMessage(s, i)
  BY <1>3, <1>4, <1>6 DEF IsMessage
<1> QED
  BY <1>2, <1>7, <1>8

LEMMA ShiftedMessages ==
    ASSUME NEW T, NEW s \in Seq(T), NEW e \in 1 .. Len(s),
           NEW t \in Seq(T), IsPart(t, s, e, Len(s) - e),
           \A j \in 1 .. e : s[j] # Bad,
           NEW R \in SUBSET Nat, IsFiniteSet(R),
           \A i : i \in R <=> IsMessage(s, i) /\ i > e
    PROVE  InLines(t) = At(s, R)
<1>1. /\ Len(s) \in Nat /\ e \in Nat /\ \A k \in 1 .. Len(s) - e : t[k] = s[k + e]
  BY DEF IsPart
<1>2. PICK Q : Q = {p - e : p \in R}
  OBVIOUS
<1>3. \A p \in R : p > e /\ p \in Nat
  OBVIOUS
<1>4. ASSUME NEW k \in Q PROVE k \in Messages(t)
  <2>1. PICK p \in R : k = p - e
    BY <1>2
  <2>2. p \in Nat /\ p > e /\ IsMessage(s, p)
    OBVIOUS
  <2>3. IsMessage(t, p - e)
    BY <2>2, BehindLine
  <2> QED
    BY <2>1, <2>3, MessageFacts
<1>5. ASSUME NEW k \in Messages(t) PROVE k \in Q
  <2>1. IsMessage(t, k) /\ k \in Nat
    BY MessageFacts
  <2>2. k >= 1
    BY <2>1 DEF IsMessage
  <2>3. PICK p \in Nat : p = k + e /\ p > e /\ p - e = k
    BY <1>1, <2>1, <2>2
  <2>4. IsMessage(t, p - e)
    BY <2>1, <2>3
  <2>5. IsMessage(s, p)
    BY <2>3, <2>4, BehindLine
  <2>6. p \in R
    BY <2>3, <2>5
  <2> QED
    BY <2>3, <2>6, <1>2
<1>6. Messages(t) = Q
  BY <1>4, <1>5
<1>7. \A p \in R : t[p - e] = s[p]
  <2> SUFFICES ASSUME NEW p \in R PROVE t[p - e] = s[p]
    OBVIOUS
  <2>1. p \in Nat /\ p > e /\ IsMessage(s, p)
    OBVIOUS
  <2>2. p \in 1 .. Len(s) - 1
    BY <2>1 DEF IsMessage
  <2>3. p - e \in 1 .. Len(s) - e /\ (p - e) + e = p
    BY <1>1, <2>1, <2>2
  <2> QED
    BY <2>3, <1>1
<1>8. Shift(R, s, e, t, Q)
  BY <1>1, <1>2, <1>3, <1>7 DEF Shift
<1>9. At(t, Q) = At(s, R)
  BY <1>8, AtShift
<1> QED
  BY <1>6, <1>9 DEF InLines

LEMMA EmptyLineGone ==
    ASSUME NEW T, NEW s \in Seq(T), 1 \in 1 .. Len(s), s[1] = Newline,
           NEW t \in Seq(T), IsPart(t, s, 1, Len(s) - 1)
    PROVE  InLines(t) = InLines(s)
<1>1. PICK R \in SUBSET Nat : R = Messages(s) /\ IsFiniteSet(R)
  BY MessageFacts
<1>2. \A i : i \in R <=> IsMessage(s, i)
  BY <1>1, MessageFacts
<1>3. \A i : IsMessage(s, i) => i > 1
  BY DEF IsMessage
<1>4. \A i : i \in R <=> IsMessage(s, i) /\ i > 1
  BY <1>2, <1>3
<1>5. \A j \in 1 .. 1 : s[j] # Bad
  BY Different
<1>6. InLines(t) = At(s, R)
  BY <1>1, <1>4, <1>5, ShiftedMessages
<1> QED
  BY <1>1, <1>6 DEF InLines

LEMMA MessageGone ==
    ASSUME NEW T, NEW s \in Seq(T), 2 \in 1 .. Len(s), s[1] # Bad, s[1] # Newline,
           s[2] = Newline, NEW of, Framed(s, of),
           NEW t \in Seq(T), IsPart(t, s, 2, Len(s) - 2)
    PROVE  /\ InLines(s) \in Seq(Nat) /\ InLines(s) # << >>
           /\ Head(InLines(s)) = s[1] /\ InLines(t) = Tail(InLines(s))
<1>0. Len(s) \in Nat /\ Len(s) >= 2
  OBVIOUS
<1>1. PICK P \in SUBSET Nat : P = Messages(s) /\ IsFiniteSet(P)
  BY MessageFacts
<1>2. \A i : i \in P <=> IsMessage(s, i)
  BY <1>1, MessageFacts
<1>3. PICK R \in SUBSET Nat : R = P \ {1} /\ IsFiniteSet(R)
  <2>1. P \ {1} \in SUBSET Nat /\ IsFiniteSet(P \ {1})
    BY <1>1, FS_RemoveElement
  <2> QED
    BY <2>1
<1>4. \A j \in 1 .. 2 : s[j] # Bad
  BY Different
<1>5. 1 \in P
  <2>1. 1 \in 1 .. Len(s) - 1 /\ 1 + 1 = 2 /\ \A j \in 1 .. 1 : s[j] # Bad
    BY <1>0
  <2>2. IsMessage(s, 1)
    BY <2>1 DEF IsMessage
  <2> QED
    BY <2>2, <1>2
<1>6. \A i : i \in R <=> IsMessage(s, i) /\ i > 2
  <2>1. \A i : IsMessage(s, i) => i = 1 \/ i > 2
    BY DEF IsMessage
  <2> QED
    BY <2>1, <1>2, <1>3
<1>7. InLines(t) = At(s, R)
  BY <1>3, <1>4, <1>6, ShiftedMessages
<1>8. \A i \in P : s[i] \in Nat
  BY <1>1, MessageTypes
<1>9. \A i \in P : 1 <= i
  BY <1>2 DEF IsMessage
<1>10. /\ At(s, P) \in Seq(Nat) /\ At(s, P) # << >> /\ Head(At(s, P)) = s[1]
       /\ At(s, R) = Tail(At(s, P))
  <2>1. OneLess(P, s, Nat, 1, R)
    BY <1>1, <1>3, <1>5, <1>8, <1>9 DEF OneLess
  <2> QED
    BY <2>1, AtLess
<1> QED
  BY <1>1, <1>7, <1>10 DEF InLines

\* Nothing is read behind a bad line, or where no line ends.
LEMMA NothingThere ==
    ASSUME NEW T, NEW s \in Seq(T),
           \/ s[1] = Bad
           \/ \A i \in 1 .. Len(s) : s[i] # Newline
    PROVE  InLines(s) = << >>
<1>1. ASSUME NEW i \in Messages(s) PROVE FALSE
  <2>1. IsMessage(s, i)
    BY MessageFacts
  <2>2. /\ i \in 1 .. Len(s) - 1 /\ s[i + 1] = Newline /\ \A j \in 1 .. i : s[j] # Bad
    BY <2>1 DEF IsMessage
  <2>3. 1 \in 1 .. i /\ i + 1 \in 1 .. Len(s)
    BY <2>2
  <2> QED
    BY <2>2, <2>3
<1> QED
  BY <1>1, NoMessages

-------------------------------------------------------------------------------
(***************************************************************************)
(* The messages of the testbench, at every other token.                    *)
(***************************************************************************)
Msgs == Nat \cup {Bye}

\* s has messages in their places, as every beginning of some lines has.
InPlace(s) == \A k \in 1 .. Len(s) \div 2 : s[2 * k - 1] \in Msgs

IsSent(g, s) ==
    /\ g \in Seq(Msgs) /\ Len(g) = Len(s) \div 2
    /\ \A k \in 1 .. Len(s) \div 2 : g[k] = s[2 * k - 1]

LEMMA SentFacts ==
    ASSUME NEW T, NEW s \in Seq(T), InPlace(s)
    PROVE  IsSent(Sent(s), s)
<1>1. Len(s) \div 2 \in Nat
  OBVIOUS
<1>2. \A k \in 1 .. Len(s) \div 2 : s[2 * k - 1] \in Msgs
  BY DEF InPlace
<1> QED
  BY <1>1, <1>2 DEF Sent, IsSent

LEMMA LinesInPlace ==
    ASSUME NEW T, NEW s \in Seq(T), Lines(s),
           NEW p \in Seq(T), NEW w \in Seq(T), IsJoin(s, p, w)
    PROVE  InPlace(p) /\ InPlace(s) /\ Len(p) \div 2 \in 0 .. Len(s) \div 2
<1>1. PICK n \in 0 .. Len(s) : /\ Len(s) = 2 * n
                               /\ \A k \in 1 .. n : s[2 * k - 1] \in Nat \cup {Bye}
  BY DEF Lines
<1>2. /\ Len(p) \in Nat /\ Len(s) \in Nat /\ Len(p) <= Len(s)
      /\ \A i \in 1 .. Len(p) : s[i] = p[i]
  BY DEF IsJoin
<1>3. Len(s) \div 2 = n /\ Len(p) \div 2 \in 0 .. n
  BY <1>1, <1>2
<1>4. ASSUME NEW k \in 1 .. Len(p) \div 2 PROVE p[2 * k - 1] \in Msgs
  <2>1. 2 * k - 1 \in 1 .. Len(p) /\ k \in 1 .. n
    BY <1>2, <1>3
  <2>2. s[2 * k - 1] \in Nat \cup {Bye}
    BY <2>1, <1>1
  <2>3. p[2 * k - 1] = s[2 * k - 1]
    BY <2>1, <1>2
  <2> QED
    BY <2>2, <2>3 DEF Msgs
<1> QED
  BY <1>1, <1>3, <1>4 DEF InPlace, Msgs

\* What an end of the stream leaves is a beginning of what was sent.
LEMMA SentPart ==
    ASSUME NEW T, NEW s \in Seq(T), Lines(s),
           NEW p \in Seq(T), NEW w \in Seq(T), IsJoin(s, p, w)
    PROVE  /\ Sent(s) \in Seq(Msgs) /\ Sent(p) \in Seq(Msgs)
           /\ \E n \in 0 .. Len(Sent(s)) : Sent(p) = SubSeq(Sent(s), 1, n)
<1>1. InPlace(p) /\ InPlace(s) /\ Len(p) \div 2 \in 0 .. Len(s) \div 2
  BY LinesInPlace
<1>2. PICK g \in Seq(Msgs) : g = Sent(s) /\ IsSent(g, s)
  <2>1. IsSent(Sent(s), s)
    BY <1>1, SentFacts
  <2> QED
    BY <2>1 DEF IsSent
<1>3. PICK h \in Seq(Msgs) : h = Sent(p) /\ IsSent(h, p)
  <2>1. IsSent(Sent(p), p)
    BY <1>1, SentFacts
  <2> QED
    BY <2>1 DEF IsSent
<1>4. PICK n \in Nat : n = Len(h) /\ n <= Len(g) /\ n = Len(p) \div 2
  BY <1>1, <1>2, <1>3 DEF IsSent
<1>5. PICK q \in Seq(Msgs) : q = SubSeq(g, 1, n) /\ IsPart(q, g, 0, n)
  <2>1. 0 \in 0 .. Len(g) /\ n \in 0 .. Len(g) /\ n - 0 = n /\ 0 + 1 = 1
    BY <1>4
  <2> QED
    BY <2>1, Parted
<1>6. ASSUME NEW k \in 1 .. n PROVE h[k] = q[k]
  <2>1. 2 * k - 1 \in 1 .. Len(p) /\ k \in 1 .. Len(p) \div 2 /\ k \in 1 .. Len(s) \div 2
    BY <1>1, <1>4
  <2>2. h[k] = p[2 * k - 1] /\ g[k] = s[2 * k - 1]
    BY <2>1, <1>2, <1>3 DEF IsSent
  <2>3. s[2 * k - 1] = p[2 * k - 1]
    BY <2>1 DEF IsJoin
  <2>4. q[k] = g[k]
    BY <1>5 DEF IsPart
  <2> QED
    BY <2>2, <2>3, <2>4
<1>7. Len(h) = Len(q) /\ \A k \in 1 .. Len(h) : h[k] = q[k]
  BY <1>4, <1>5, <1>6 DEF IsPart
<1>8. h = q
  BY <1>7, SameSeq
<1> QED
  BY <1>2, <1>3, <1>4, <1>5, <1>8

LEMMA SentMore ==
    ASSUME NEW T, NEW s \in Seq(T), Lines(s), NEW text \in Seq(T), Len(text) = 2,
           text[1] \in Nat \cup {Bye}, text[2] = Newline,
           NEW t \in Seq(T), IsJoin(t, s, text)
    PROVE  Sent(s) \in Seq(Msgs) /\ Sent(t) = Append(Sent(s), text[1])
<1>1. Lines(t)
  BY LinesMore
<1>2. InPlace(s) /\ InPlace(t)
  BY <1>1, LinesInPlace
<1>3. PICK g \in Seq(Msgs) : g = Sent(s) /\ IsSent(g, s)
  <2>1. IsSent(Sent(s), s)
    BY <1>2, SentFacts
  <2> QED
    BY <2>1 DEF IsSent
<1>4. PICK h \in Seq(Msgs) : h = Sent(t) /\ IsSent(h, t)
  <2>1. IsSent(Sent(t), t)
    BY <1>2, SentFacts
  <2> QED
    BY <2>1 DEF IsSent
<1>5. PICK n \in Nat : Len(s) = 2 * n
  <2>1. PICK n \in 0 .. Len(s) : Len(s) = 2 * n
    BY DEF Lines
  <2>2. Len(s) \in Nat
    OBVIOUS
  <2>3. n \in Nat
    BY <2>2
  <2> QED
    BY <2>1, <2>3
<1>6. /\ Len(t) = 2 * n + 2
      /\ \A i \in 1 .. 2 * n : t[i] = s[i]
      /\ t[2 * n + 1] = text[1]
  <2>1. Len(t) = 2 * n + 2 /\ \A i \in 1 .. 2 * n : t[i] = s[i]
    BY <1>5 DEF IsJoin
  <2>2. \A i \in 2 * n + 1 .. 2 * n + 2 : t[i] = text[i - 2 * n]
    BY <1>5 DEF IsJoin
  <2>3. t[2 * n + 1] = text[1]
    BY <2>2
  <2> QED
    BY <2>1, <2>3
<1>7. Len(s) \div 2 = n /\ Len(t) \div 2 = n + 1
  BY <1>5, <1>6
<1>8. Len(g) = n /\ Len(h) = n + 1
  BY <1>3, <1>4, <1>7 DEF IsSent
<1>9. ASSUME NEW k \in 1 .. n PROVE h[k] = g[k]
  <2>1. 2 * k - 1 \in 1 .. 2 * n /\ k \in 1 .. n + 1
    OBVIOUS
  <2>2. h[k] = t[2 * k - 1] /\ g[k] = s[2 * k - 1]
    BY <2>1, <1>3, <1>4, <1>7 DEF IsSent
  <2> QED
    BY <2>1, <2>2, <1>6
<1>10. h[n + 1] = text[1]
  <2>1. n + 1 \in 1 .. n + 1 /\ 2 * (n + 1) - 1 = 2 * n + 1
    OBVIOUS
  <2>2. h[n + 1] = t[2 * (n + 1) - 1]
    BY <2>1, <1>4, <1>7 DEF IsSent
  <2> QED
    BY <2>1, <2>2, <1>6
<1>11. PICK x \in Msgs : x = text[1]
  BY DEF Msgs
<1>12. PICK c \in Seq(Msgs) : c = Append(g, x)
  BY AppendProperties
<1>13. Len(c) = Len(g) + 1 /\ c[Len(g) + 1] = x /\ \A k \in 1 .. Len(g) : c[k] = g[k]
  BY <1>12, AppendProperties
<1>14. Len(h) = Len(c) /\ \A k \in 1 .. Len(h) : h[k] = c[k]
  BY <1>8, <1>9, <1>10, <1>11, <1>13
<1>15. h = c
  BY <1>14, SameSeq
<1> QED
  BY <1>3, <1>4, <1>11, <1>12, <1>15

LEMMA SentRest ==
    ASSUME NEW T, NEW p \in Seq(T), InPlace(p), 2 \in 1 .. Len(p),
           NEW q \in Seq(T), IsPart(q, p, 2, Len(p) - 2)
    PROVE  /\ Sent(p) \in Seq(Msgs) /\ Sent(p) # << >> /\ Head(Sent(p)) = p[1]
           /\ Sent(q) = Tail(Sent(p))
<1>1. PICK g \in Seq(Msgs) : g = Sent(p) /\ IsSent(g, p)
  <2>1. IsSent(Sent(p), p)
    BY SentFacts
  <2> QED
    BY <2>1 DEF IsSent
<1>2. PICK n \in Nat : n = Len(p) \div 2 /\ n >= 1
  OBVIOUS
<1>3. Len(q) = Len(p) - 2 /\ Len(q) \div 2 = n - 1 /\ \A i \in 1 .. Len(q) : q[i] = p[i + 2]
  <2>1. Len(q) = Len(p) - 2 /\ \A i \in 1 .. Len(q) : q[i] = p[i + 2]
    BY DEF IsPart
  <2>2. Len(p) \in Nat
    OBVIOUS
  <2>3. (Len(p) - 2) \div 2 = n - 1
    BY <1>2, <2>2
  <2> QED
    BY <2>1, <2>3
<1>4. ASSUME NEW k \in 1 .. n - 1 PROVE q[2 * k - 1] = p[2 * (k + 1) - 1]
  <2>1. 2 * k - 1 \in 1 .. Len(q) /\ (2 * k - 1) + 2 = 2 * (k + 1) - 1
    BY <1>2, <1>3
  <2> QED
    BY <2>1, <1>3
<1>5. \A k \in 1 .. n - 1 : p[2 * (k + 1) - 1] \in Msgs
  <2> SUFFICES ASSUME NEW k \in 1 .. n - 1 PROVE p[2 * (k + 1) - 1] \in Msgs
    OBVIOUS
  <2>1. k + 1 \in 1 .. Len(p) \div 2
    BY <1>2
  <2> QED
    BY <2>1 DEF InPlace
<1>6. InPlace(q)
  BY <1>3, <1>4, <1>5 DEF InPlace
<1>7. PICK h \in Seq(Msgs) : h = Sent(q) /\ IsSent(h, q)
  <2>1. IsSent(Sent(q), q)
    BY <1>6, SentFacts
  <2> QED
    BY <2>1 DEF IsSent
<1>8. Len(g) = n /\ Len(h) = n - 1
  BY <1>1, <1>2, <1>3, <1>7 DEF IsSent
<1>9. \A k \in 1 .. n : g[k] = p[2 * k - 1]
  BY <1>1, <1>2 DEF IsSent
<1>10. \A k \in 1 .. n - 1 : h[k] = q[2 * k - 1]
  BY <1>3, <1>7 DEF IsSent
<1>11. g # << >> /\ Head(g) = p[1]
  <2>1. 1 \in 1 .. n /\ 2 * 1 - 1 = 1
    BY <1>2
  <2>2. g[1] = p[1]
    BY <2>1, <1>9
  <2> QED
    BY <2>2, <1>2, <1>8
<1>12. PICK c \in Seq(Msgs) : c = Tail(g)
  BY <1>11, HeadTailProperties
<1>13. Len(c) = n - 1 /\ \A k \in 1 .. n - 1 : c[k] = g[k + 1]
  BY <1>8, <1>11, <1>12, HeadTailProperties
<1>14. ASSUME NEW k \in 1 .. n - 1 PROVE h[k] = c[k]
  <2>1. k + 1 \in 1 .. n
    OBVIOUS
  <2>2. g[k + 1] = p[2 * (k + 1) - 1]
    BY <2>1, <1>9
  <2> QED
    BY <2>2, <1>4, <1>10, <1>13
<1>15. Len(h) = Len(c) /\ \A k \in 1 .. Len(h) : h[k] = c[k]
  BY <1>8, <1>13, <1>14
<1>16. h = c
  BY <1>15, SameSeq
<1> QED
  BY <1>1, <1>7, <1>11, <1>12, <1>16

-------------------------------------------------------------------------------
(***************************************************************************)
(* A message that goes from the front of one queue to the end of another.  *)
(***************************************************************************)
LEMMA HeadAndTail ==
    ASSUME NEW T, NEW f \in Seq(T), f # << >>
    PROVE  /\ Head(f) \in T /\ <<Head(f)>> \in Seq(T) /\ Tail(f) \in Seq(T)
           /\ f = <<Head(f)>> \o Tail(f)
<1>1. Len(f) \in Nat \ {0} /\ Head(f) = f[1]
  BY EmptySeq
<1>2. 1 \in 1 .. Len(f) /\ Len(f) \in 1 .. Len(f) /\ 1 + 1 = 2
  BY <1>1
<1>3. SubSeq(f, 1, Len(f)) = <<f[1]>> \o SubSeq(f, 1 + 1, Len(f))
  BY <1>2, SubSeqRecursiveFirst
<1>4. SubSeq(f, 1, Len(f)) = f /\ Tail(f) = SubSeq(f, 2, Len(f))
  BY SubSeqFull, TailIsSubSeq
<1>5. f = <<Head(f)>> \o Tail(f)
  <2>1. PICK h : h = Head(f)
    OBVIOUS
  <2>2. f[1] = h
    BY <1>1, <2>1
  <2> QED
    BY <1>2, <1>3, <1>4, <2>1, <2>2
<1>6. Head(f) \in T /\ Tail(f) \in Seq(T)
  BY HeadTailProperties
<1>7. <<Head(f)>> \in Seq(T)
  <2>1. PICK h \in T : h = Head(f)
    BY <1>6
  <2> QED
    BY <2>1
<1> QED
  BY <1>5, <1>6, <1>7

LEMMA Passed ==
    ASSUME NEW T, NEW r \in Seq(T), NEW f \in Seq(T), f # << >>, NEW g \in Seq(T)
    PROVE  (r \o <<Head(f)>>) \o (Tail(f) \o g) = r \o (f \o g)
<1>1. PICK o \in Seq(T) : o = <<Head(f)>> /\ f = o \o Tail(f)
  <2>1. <<Head(f)>> \in Seq(T) /\ f = <<Head(f)>> \o Tail(f)
    BY HeadAndTail
  <2> QED
    BY <2>1
<1>2. PICK h \in Seq(T) : h = Tail(f)
  BY HeadAndTail
<1>3. PICK u \in Seq(T) : u = h \o g
  BY ConcatProperties
<1>4. PICK v : v = o \o u
  OBVIOUS
<1>5. (r \o o) \o u = r \o v
  BY <1>4, Assoc, SMTT(30)
<1>6. (o \o h) \o g = o \o u
  BY <1>3, Assoc
<1>7. f = o \o h
  BY <1>1, <1>2
<1>8. (r \o o) \o u = r \o (f \o g)
  BY <1>4, <1>5, <1>6, <1>7
<1> QED
  BY <1>1, <1>2, <1>3, <1>8

\* b and q are what a and r become.
Passes(T, r, f, g, a, q, b) ==
    /\ r \in Seq(T) /\ f \in Seq(T) /\ f # << >> /\ g \in Seq(T)
    /\ a = f \o g /\ q = r \o <<Head(f)>> /\ b = Tail(f) \o g

LEMMA PassesOn ==
    ASSUME NEW T, NEW r, NEW f, NEW g, NEW a, NEW q, NEW b, Passes(T, r, f, g, a, q, b)
    PROVE  q \o b = r \o a
<1>1. /\ r \in Seq(T) /\ f \in Seq(T) /\ f # << >> /\ g \in Seq(T)
      /\ a = f \o g /\ q = r \o <<Head(f)>> /\ b = Tail(f) \o g
  BY DEF Passes
<1>2. (r \o <<Head(f)>>) \o (Tail(f) \o g) = r \o (f \o g)
  BY <1>1, Passed, SMTT(30)
<1> QED
  BY <1>1, <1>2

LEMMA FirstOut ==
    ASSUME NEW T, NEW r \in Seq(T), r # << >>, NEW a \in Seq(T)
    PROVE  /\ r \o a # << >> /\ Head(r \o a) = Head(r) /\ Tail(r \o a) = Tail(r) \o a
<1>1. PICK x : x = r \o a
  OBVIOUS
<1>2. x \in Seq(T) /\ x # << >>
  BY <1>1, ConcatProperties, ConcatEqualIffEmpty
<1>3. Head(r) \in T /\ <<Head(r)>> \in Seq(T) /\ Tail(r) \in Seq(T)
  BY HeadAndTail
<1>4. PICK o : o = <<Head(r)>> /\ Len(o) = 1 /\ o[1] = Head(r)
  <2>1. PICK m : m = Head(r)
    OBVIOUS
  <2>2. PICK o : o = <<m>>
    OBVIOUS
  <2>3. Len(o) = 1 /\ o[1] = m
    BY <2>2
  <2> QED
    BY <2>1, <2>2, <2>3
<1>5. PICK h : h = Tail(r)
  OBVIOUS
<1>6. o \in Seq(T) /\ h \in Seq(T) /\ r = o \o h
  BY <1>3, <1>4, <1>5, HeadAndTail
<1>7. PICK y : y = h \o a
  OBVIOUS
<1>8. y \in Seq(T) /\ x = o \o y
  <2>1. (o \o h) \o a = o \o (h \o a)
    BY <1>6, ConcatAssociative, SMTT(30)
  <2> QED
    BY <2>1, <1>1, <1>6, <1>7, ConcatProperties
<1>9. IsJoin(x, o, y) /\ Len(y) \in Nat
  BY <1>6, <1>8, Joined
<1>10. /\ Len(x) = 1 + Len(y) /\ x[1] = Head(r)
       /\ \A i \in 2 .. 1 + Len(y) : x[i] = y[i - 1]
  BY <1>4, <1>9 DEF IsJoin
<1>11. PICK z \in Seq(T) : z = Tail(x)
  BY <1>2, HeadTailProperties
<1>12. Len(z) = Len(x) - 1 /\ \A i \in 1 .. Len(z) : z[i] = x[i + 1]
  BY <1>2, <1>11, HeadTailProperties
<1>13. Len(z) = Len(y) /\ \A i \in 1 .. Len(z) : z[i] = y[i]
  <2>1. Len(z) = Len(y)
    BY <1>9, <1>10, <1>12
  <2>2. ASSUME NEW i \in 1 .. Len(z) PROVE z[i] = y[i]
    <3>1. i + 1 \in 2 .. 1 + Len(y) /\ (i + 1) - 1 = i
      BY <2>1, <1>9
    <3> QED
      BY <3>1, <1>10, <1>12
  <2> QED
    BY <2>1, <2>2
<1>14. z = y
  BY <1>8, <1>13, SameSeq
<1>15. Head(x) = x[1]
  OBVIOUS
<1> QED
  BY <1>1, <1>2, <1>5, <1>7, <1>10, <1>11, <1>14, <1>15

LEMMA LastIn ==
    ASSUME NEW T, NEW r \in Seq(T), NEW a \in Seq(T), NEW m \in T
    PROVE  r \o Append(a, m) = Append(r \o a, m)
<1>1. PICK o \in Seq(T) : o = <<m>>
  <2>1. <<m>> \in Seq(T)
    OBVIOUS
  <2> QED
    BY <2>1
<1>2. r \o a \in Seq(T)
  BY ConcatProperties
<1>3. Append(a, m) = a \o o /\ Append(r \o a, m) = (r \o a) \o o
  BY <1>1, <1>2, AppendIsConcat
<1>4. (r \o a) \o o = r \o (a \o o)
  BY ConcatAssociative
<1> QED
  BY <1>3, <1>4

-------------------------------------------------------------------------------
(***************************************************************************)
(* The two streams, as the refinement mapping has them.                    *)
(***************************************************************************)
Events == Nat \cup {PeerClosed}

Reading == rd_pc \notin {"end", "done", "died"}

\* What comes after the lines that are in flight.
EndMark == IF PeerGone /\ ~garbled THEN <<PeerClosed>> ELSE << >>

LEMMA ArrivingIs ==
    /\ Reading => Arriving = InFlight \o EndMark
    /\ rd_pc \in {"done", "died"} => Arriving = << >>
    /\ rd_pc = "end" => Arriving = <<PeerClosed>>
  BY DEF Reading, Arriving, EndMark

LEMMA ArrivingIsNext ==
    /\ Reading' => Arriving' = InFlight' \o EndMark'
    /\ rd_pc' \in {"done", "died"} => Arriving' = << >>
    /\ rd_pc' = "end" => Arriving' = <<PeerClosed>>
  BY DEF Reading, Arriving, EndMark

LEMMA InFlightTypes ==
    ASSUME TypeOK, UpInv
    PROVE  /\ buf \o up \in Seq(Tokens) /\ Framed(buf \o up, peer)
           /\ InFlight = InLines(buf \o up) /\ InFlight \in Seq(Nat)
<1>1. PICK s \in Seq(Tokens) : s = buf \o up
  BY Joined DEF TypeOK
<1>2. Framed(s, peer)
  BY <1>1 DEF UpInv, UpStream
<1>3. InLines(s) \in Seq(Nat)
  BY <1>2, MessageTypes
<1>4. InFlight = InLines(s)
  BY <1>1 DEF InFlight, InLines
<1> QED
  BY <1>1, <1>2, <1>3, <1>4

LEMMA EndMarkTypes ==
    EndMark \in Seq(Events)
<1>1. << >> \in Seq(Events) /\ <<PeerClosed>> \in Seq(Events)
  BY DEF Events
<1> QED
  BY <1>1 DEF EndMark

LEMMA ArrivingTypes ==
    ASSUME TypeOK, UpInv
    PROVE  /\ InFlight \in Seq(Events) /\ EndMark \in Seq(Events)
           /\ Arriving \in Seq(Events) /\ rx_queue \in Seq(Events)
<1>1. InFlight \in Seq(Events)
  <2>1. PICK f \in Seq(Nat) : f = InFlight
    BY InFlightTypes
  <2>2. f \in Seq(Events)
    BY DEF Events
  <2> QED
    BY <2>1, <2>2
<1>2. EndMark \in Seq(Events) /\ << >> \in Seq(Events) /\ <<PeerClosed>> \in Seq(Events)
  BY EndMarkTypes DEF Events
<1>3. InFlight \o EndMark \in Seq(Events)
  BY <1>1, <1>2, Joined
<1>4. Reading \/ rd_pc \in {"done", "died"} \/ rd_pc = "end"
  BY DEF Reading
<1>5. Arriving \in Seq(Events)
  BY <1>2, <1>3, <1>4, ArrivingIs
<1> QED
  BY <1>1, <1>2, <1>5 DEF TypeOK, Events

LEMMA Stutters ==
    ASSUME ToTb' = ToTb, ToGem5' = ToGem5, UNCHANGED <<polled, taken, stop, garbled>>,
           PeerGone' <=> PeerGone
    PROVE  UNCHANGED Streams!streamVars
<1>1. stop' = stop /\ garbled' = garbled /\ (PeerGone' <=> PeerGone)
  OBVIOUS
<1>2. (~stop /\ ~PeerGone /\ ~garbled)' = (~stop /\ ~PeerGone /\ ~garbled)
  BY <1>1
<1>3. (~stop)' = ~stop /\ (~PeerGone)' = ~PeerGone
  BY <1>1
<1> QED
  BY <1>2, <1>3 DEF Streams!streamVars

LEMMA TbSame ==
    ASSUME stop' = stop,
           \/ stop
           \/ /\ UNCHANGED <<rx_queue, garbled>> /\ Reading /\ Reading'
              /\ InFlight' = InFlight /\ (PeerGone' <=> PeerGone)
    PROVE  ToTb' = ToTb
<1>1. CASE stop
  BY <1>1 DEF ToTb
<1>2. CASE ~stop
  <2>1. EndMark' = EndMark
    BY <1>2 DEF EndMark
  <2>2. Arriving' = Arriving
    BY <1>2, <2>1, ArrivingIs, ArrivingIsNext
  <2> QED
    BY <1>2, <2>2 DEF ToTb
<1> QED
  BY <1>1, <1>2

Sending == sock = "open" /\ ~(stop /\ wr_pc = "ended")

LEMMA Gem5Is ==
    /\ PeerGone => ToGem5 = << >>
    /\ ~PeerGone /\ Sending => ToGem5 = Sent(peer_buf \o down \o wr_rest) \o tx_queue
    /\ ~PeerGone /\ ~Sending => ToGem5 = Sent(peer_buf \o down)
  BY DEF ToGem5, Sending

LEMMA Gem5IsNext ==
    /\ PeerGone' => ToGem5' = << >>
    /\ (~PeerGone)' /\ Sending'
       => ToGem5' = Sent(peer_buf' \o down' \o wr_rest') \o tx_queue'
    /\ (~PeerGone)' /\ (~Sending)' => ToGem5' = Sent(peer_buf' \o down')
  BY DEF ToGem5, Sending

LEMMA Gem5Same ==
    ASSUME UNCHANGED <<peer_buf, down>>, PeerGone' <=> PeerGone, Sending' <=> Sending,
           Sending => UNCHANGED <<wr_rest, tx_queue>>
    PROVE  ToGem5' = ToGem5
<1>1. CASE PeerGone
  BY <1>1, Gem5Is, Gem5IsNext
<1>2. CASE ~PeerGone /\ Sending
  BY <1>2, Gem5Is, Gem5IsNext
<1>3. CASE ~PeerGone /\ ~Sending
  BY <1>3, Gem5Is, Gem5IsNext
<1> QED
  BY <1>1, <1>2, <1>3

\* A running connection's socket is open until the stop flag is up.
LEMMA WhileOpen ==
    ASSUME TypeOK, ConnectionInv, ThreadInv, rd_pc # "unborn", ~stop
    PROVE  sock = "open" /\ app_pc \in {"up", "flushing"}
  BY DEF ConnectionInv, ThreadInv, Unconnected, TypeOK

(***************************************************************************)
(* The reader changes neither stream: what it takes out of the bytes is    *)
(* what was in flight, and it ends where the stream does.                  *)
(***************************************************************************)
LEMMA NoLine ==
    ASSUME TypeOK, UpInv, ~HasLine(buf), up = << >>
    PROVE  InFlight = << >> /\ (garbled => rd_pc = "died")
<1>1. PICK s \in Seq(Tokens) : s = buf /\ Len(s) \in Nat /\ DOMAIN s = 1 .. Len(s)
  BY DEF TypeOK
<1>2. buf \o up = s
  BY <1>1
<1>3. \A i \in 1 .. Len(s) : s[i] # Newline
  BY <1>1 DEF HasLine
<1>4. InLines(s) = << >>
  BY <1>3, NothingThere
<1>5. InFlight = InLines(s)
  BY <1>2 DEF InFlight, InLines
<1>6. UpStream(s, peer, garbled, rd_pc)
  BY <1>2 DEF UpInv
<1>7. ~HasBad(s)
  <2> SUFFICES ASSUME NEW i \in 1 .. Len(s), s[i] = Bad PROVE FALSE
    BY DEF HasBad
  <2>1. Framed(s, peer)
    BY <1>6 DEF UpStream
  <2>2. /\ i < Len(s) => s[i + 1] = Newline
        /\ i = Len(s) => s[i] # Bad
    BY <2>1, <1>3 DEF Framed
  <2>0. Len(s) \in Nat
    BY <1>1
  <2>3. i < Len(s) \/ i = Len(s)
    BY <2>0
  <2>4. i < Len(s) => i + 1 \in 1 .. Len(s)
    BY <1>1
  <2> QED
    BY <2>2, <2>3, <2>4, <1>3
<1> QED
  BY <1>4, <1>5, <1>6, <1>7 DEF UpStream

LEMMA ReaderSplitsMaps ==
    ASSUME TypeOK, ConnectionInv, ThreadInv, UpInv, ReaderSplits, ~stop
    PROVE  ToTb' = ToTb
<1>1. /\ UNCHANGED <<stop, sock, up, peer, garbled>> /\ rd_pc = "lines" /\ Reading
      /\ (PeerGone' <=> PeerGone)
  BY DEF ReaderSplits, ReaderGoes, appVars, peerVars, Reading, PeerGone, after_line
<1>2. CASE ~HasLine(buf)
  <2>1. UNCHANGED <<buf, rx_queue>> /\ Reading'
    BY <1>2 DEF ReaderSplits, ReaderGoes, Reading
  <2>2. InFlight' = InFlight
    BY <2>1, <1>1 DEF InFlight
  <2> QED
    BY <1>1, <2>1, <2>2, TbSame
<1>3. CASE HasLine(buf)
  <2>1. PICK e \in 1 .. Len(buf), s \in Seq(Tokens), t \in Seq(Tokens) :
            /\ s = buf \o up /\ t = AfterLine(buf) \o up
            /\ Len(s) \in Nat /\ e \in 1 .. Len(s) /\ IsPart(t, s, e, Len(s) - e)
            /\ s[e] = Newline
            /\ \/ e = 1 /\ Line(buf) = << >>
               \/ /\ e = 2 /\ s[1] # Newline /\ s[1] \in Nat \cup {Bad}
                  /\ Line(buf) = <<s[1]>>
    BY <1>3, UpLine
  <2>2. InFlight = InLines(s) /\ Framed(s, peer) /\ UpStream(s, peer, garbled, rd_pc)
    BY <2>1, InFlightTypes DEF UpInv
  <2>3. buf' = AfterLine(buf)
    BY <1>3 DEF ReaderSplits
  <2>4. InFlight' = InLines(t)
    BY <2>1, <2>3, <1>1 DEF InFlight, InLines
  <2>5. IsPart(t, s, e, Len(s) - e) /\ s[e] = Newline /\ e \in 1 .. Len(s) /\ Len(s) \in Nat
    BY <2>1
  <2>6. CASE e = 1 /\ Line(buf) = << >>
    <3>1. Line(buf) # <<Bad>>
      BY <2>6
    <3>2. rx_queue' = rx_queue \o << >> /\ rd_pc' = "lines"
      BY <1>3, <2>6, <3>1 DEF ReaderSplits, ReaderGoes, after_line
    <3>3. rx_queue' = rx_queue /\ Reading'
      BY <3>2 DEF TypeOK, Reading
    <3>4. 1 \in 1 .. Len(s) /\ s[1] = Newline /\ IsPart(t, s, 1, Len(s) - 1)
      BY <2>5, <2>6
    <3>5. InLines(t) = InLines(s)
      BY <3>4, EmptyLineGone
    <3>6. InFlight' = InFlight
      BY <3>5, <2>2, <2>4
    <3> QED
      BY <1>1, <3>3, <3>6, TbSame
  <2>7. CASE e = 2 /\ s[1] = Bad /\ Line(buf) = <<s[1]>>
    <3>1. Line(buf) = <<Bad>>
      BY <2>7
    <3>2. rx_queue' = rx_queue /\ rd_pc' = "died"
      BY <1>3, <3>1 DEF ReaderSplits, ReaderGoes
    <3>3. InLines(s) = << >>
      BY <2>7, NothingThere
    <3>4. HasBad(s)
      <4>1. 1 \in 1 .. Len(s)
        BY <2>5
      <4> QED
        BY <4>1, <2>7 DEF HasBad
    <3>5. garbled
      BY <3>4, <2>2 DEF UpStream
    <3>6. Arriving = << >> \o << >>
      BY <3>3, <3>5, <2>2, <1>1, ArrivingIs DEF EndMark
    <3>7. Arriving = << >> /\ Arriving' = << >>
      BY <3>2, <3>6, ArrivingIsNext
    <3> QED
      BY <3>2, <3>7, <1>1 DEF ToTb
  <2>8. CASE e = 2 /\ s[1] # Newline /\ s[1] \in Nat /\ Line(buf) = <<s[1]>>
    <3>1. PICK m \in Nat : m = s[1]
      BY <2>8
    <3>2. m # Bad /\ m \in Events
      BY Different DEF Events
    <3>3. Line(buf) = <<m>> /\ Line(buf) # <<Bad>>
      BY <2>8, <3>1, <3>2
    <3>4. rx_queue' = rx_queue \o <<m>> /\ rd_pc' = "lines"
      BY <1>3, <3>3 DEF ReaderSplits, ReaderGoes, after_line
    <3>5. 2 \in 1 .. Len(s) /\ s[2] = Newline /\ IsPart(t, s, 2, Len(s) - 2)
      BY <2>5, <2>8
    <3>6. s[1] # Bad /\ s[1] # Newline /\ Framed(s, peer)
      BY <2>2, <2>8, <3>1, <3>2
    <3>7. /\ InLines(s) \in Seq(Nat) /\ InLines(s) # << >>
          /\ Head(InLines(s)) = s[1] /\ InLines(t) = Tail(InLines(s))
      BY <3>5, <3>6, MessageGone
    <3>8. PICK f \in Seq(Events) : f = InFlight
      BY ArrivingTypes
    <3>9. f # << >> /\ Head(f) = m /\ InFlight' = Tail(f)
      BY <3>1, <3>7, <3>8, <2>2, <2>4
    <3>10. PICK g \in Seq(Events) : g = EndMark /\ g = EndMark'
      <4>1. EndMark' = EndMark
        BY <1>1 DEF EndMark
      <4> QED
        BY <4>1, ArrivingTypes
    <3>11. Arriving = f \o g /\ Arriving' = Tail(f) \o g
      <4>1. Reading'
        BY <3>4 DEF Reading
      <4> QED
        BY <4>1, <1>1, <3>8, <3>9, <3>10, ArrivingIs, ArrivingIsNext
    <3>12. PICK r \in Seq(Events) : r = rx_queue
      BY ArrivingTypes
    <3>13. PICK a : a = Arriving
      OBVIOUS
    <3>14. PICK b : b = Arriving'
      OBVIOUS
    <3>15. PICK q : q = rx_queue'
      OBVIOUS
    <3>16. q = r \o <<Head(f)>> /\ a = f \o g /\ b = Tail(f) \o g
      BY <3>4, <3>9, <3>11, <3>12, <3>13, <3>14, <3>15
    <3>17. Passes(Events, r, f, g, a, q, b)
      BY <3>9, <3>16 DEF Passes
    <3>18. q \o b = r \o a
      BY <3>17, PassesOn, SMTT(30)
    <3> QED
      BY <3>12, <3>13, <3>14, <3>15, <3>18, <1>1 DEF ToTb
  <2> QED
    BY <2>1, <2>6, <2>7, <2>8
<1> QED
  BY <1>2, <1>3

LEMMA ReaderMaps ==
    ASSUME TypeOK, ConnectionInv, ThreadInv, UpInv, Reader
    PROVE  UNCHANGED Streams!streamVars
<1>1. /\ UNCHANGED <<sock, stop, polled, wr_pc, wr_rest, tx_queue, down, peer, peer_buf,
                     taken, garbled>>
      /\ rd_pc # "unborn" /\ rd_pc' # "unborn"
  BY DEF Reader, ReaderChecks, ReaderReceives, ReaderSeesEnd, ReaderSplits, ReaderEnds,
     ReaderGoes, after_line, appVars, wrVars, peerVars
<1>2. /\ UNCHANGED <<polled, taken, stop, garbled>>
      /\ (PeerGone' <=> PeerGone) /\ (Sending' <=> Sending)
  BY <1>1 DEF PeerGone, Sending
<1>3. ToGem5' = ToGem5
  BY <1>1, <1>2, Gem5Same
<1>4. ToTb' = ToTb
  <2>1. CASE stop
    BY <2>1, <1>2, TbSame
  <2>2. CASE ~stop /\ ReaderChecks
    <3>1. sock # "none"
      BY <2>2, <1>1, WhileOpen
    <3>2. Reading /\ Reading' /\ UNCHANGED <<buf, up, rx_queue>>
      BY <2>2, <3>1 DEF ReaderChecks, ReaderGoes, Reading
    <3>3. InFlight' = InFlight
      BY <3>2 DEF InFlight
    <3> QED
      BY <3>2, <3>3, <1>2, TbSame
  <2>3. CASE ReaderReceives
    <3>1. Reading /\ Reading' /\ rx_queue' = rx_queue
      BY <2>3 DEF ReaderReceives, ReaderGoes, Reading
    <3>2. PICK n \in 1 .. Len(up) : /\ buf' = buf \o SubSeq(up, 1, n)
                                    /\ up' = SubSeq(up, n + 1, Len(up))
      BY <2>3 DEF ReaderReceives, Recv
    <3>3. buf \in Seq(Tokens) /\ up \in Seq(Tokens)
      BY DEF TypeOK
    <3>4. buf' \o up' = buf \o up
      BY <3>2, <3>3, Received
    <3>5. InFlight' = InFlight
      BY <3>4 DEF InFlight
    <3> QED
      BY <3>1, <3>5, <1>2, TbSame
  <2>4. CASE ~stop /\ ReaderSeesEnd
    <3>1. sock = "open"
      BY <2>4, <1>1, WhileOpen
    <3>2. /\ up = << >> /\ peer = "closed" /\ rd_pc = "recv" /\ rd_pc' = "end"
          /\ rx_queue' = rx_queue
      BY <2>4, <3>1 DEF ReaderSeesEnd, ReaderGoes
    <3>3. InFlight = << >> /\ ~garbled
      BY <3>2, NoLine DEF ThreadInv
    <3>4. Arriving = << >> \o <<PeerClosed>> /\ Arriving' = <<PeerClosed>>
      BY <3>2, <3>3, ArrivingIs, ArrivingIsNext DEF Reading, EndMark, PeerGone
    <3>5. << >> \o <<PeerClosed>> = <<PeerClosed>>
      OBVIOUS
    <3> QED
      BY <3>2, <3>4, <3>5, <1>1 DEF ToTb
  <2>5. CASE ~stop /\ ReaderSplits
    BY <2>5, ReaderSplitsMaps
  <2>6. CASE ~stop /\ ReaderEnds
    <3>1. /\ rd_pc = "end" /\ rd_pc' = "done" /\ rx_queue' = Append(rx_queue, PeerClosed)
      BY <2>6 DEF ReaderEnds, ReaderGoes
    <3>2. Arriving = <<PeerClosed>> /\ Arriving' = << >>
      BY <3>1, ArrivingIs, ArrivingIsNext
    <3>3. PICK r \in Seq(Events) : r = rx_queue
      BY ArrivingTypes
    <3>4. PeerClosed \in Events
      BY DEF Events
    <3>5. Append(r, PeerClosed) \o << >> = r \o <<PeerClosed>>
      BY <3>4, AppendIsConcat
    <3> QED
      BY <3>1, <3>2, <3>3, <3>5, <1>1 DEF ToTb
  <2> QED
    BY <2>1, <2>2, <2>3, <2>4, <2>5, <2>6 DEF Reader
<1> QED
  BY <1>2, <1>3, <1>4, Stutters

(***************************************************************************)
(* The testbench's side of its own stream.                                 *)
(***************************************************************************)
LEMMA SentTypes ==
    ASSUME TypeOK, DownInv
    PROVE  \E s, p \in Seq(Tokens) : \E g, h \in Seq(Msgs) :
              /\ s = peer_buf \o down \o wr_rest /\ p = peer_buf \o down
              /\ wr_rest \in Seq(Tokens) /\ IsJoin(s, p, wr_rest) /\ Lines(s)
              /\ g = Sent(s) /\ h = Sent(p) /\ tx_queue \in Seq(Msgs)
              /\ \E n \in 0 .. Len(g) : h = SubSeq(g, 1, n)
<1>1. PICK p \in Seq(Tokens) : p = peer_buf \o down
  BY Joined DEF TypeOK
<1>2. wr_rest \in Seq(Tokens) /\ tx_queue \in Seq(Msgs)
  BY DEF TypeOK, Msgs
<1>3. PICK s \in Seq(Tokens) : s = p \o wr_rest /\ IsJoin(s, p, wr_rest)
  BY <1>2, Joined
<1>4. Lines(s) /\ s = peer_buf \o down \o wr_rest
  BY <1>1, <1>3 DEF DownInv
<1>5. PICK w \in Seq(Tokens) : w = wr_rest
  BY <1>2
<1>6. IsJoin(s, p, w)
  BY <1>3, <1>5
<1>7. /\ Sent(s) \in Seq(Msgs) /\ Sent(p) \in Seq(Msgs)
      /\ \E n \in 0 .. Len(Sent(s)) : Sent(p) = SubSeq(Sent(s), 1, n)
  BY <1>4, <1>6, SentPart
<1>8. PICK g \in Seq(Msgs) : g = Sent(s)
  BY <1>7
<1>9. PICK h \in Seq(Msgs) : h = Sent(p)
  BY <1>7
<1>10. \E n \in 0 .. Len(g) : h = SubSeq(g, 1, n)
  BY <1>7, <1>8, <1>9
<1> QED
  BY <1>1, <1>2, <1>3, <1>4, <1>8, <1>9, <1>10

LEMMA Beginning ==
    ASSUME NEW T, NEW g \in Seq(T), NEW q \in Seq(T), NEW n \in 0 .. Len(g)
    PROVE  n \in 0 .. Len(g \o q) /\ SubSeq(g \o q, 1, n) = SubSeq(g, 1, n)
<1>1. PICK c \in Seq(T) : c = g \o q /\ IsJoin(c, g, q)
  BY Joined
<1>2. Len(g) \in Nat /\ Len(q) \in Nat
  OBVIOUS
<1>3. Len(c) = Len(g) + Len(q) /\ \A i \in 1 .. Len(g) : c[i] = g[i]
  BY <1>1 DEF IsJoin
<1>4. /\ n \in 0 .. Len(c) /\ 0 \in 0 .. Len(c) /\ 0 \in 0 .. Len(g)
      /\ 0 + 1 = 1 /\ n - 0 = n
  BY <1>2, <1>3
<1>5. PICK x \in Seq(T) : x = SubSeq(c, 1, n) /\ IsPart(x, c, 0, n)
  BY <1>4, Parted
<1>6. PICK y \in Seq(T) : y = SubSeq(g, 1, n) /\ IsPart(y, g, 0, n)
  BY <1>4, Parted
<1>7. Len(x) = n /\ Len(y) = n
  BY <1>5, <1>6 DEF IsPart
<1>8. ASSUME NEW i \in 1 .. n PROVE x[i] = y[i]
  <2>1. x[i] = c[i + 0] /\ y[i] = g[i + 0] /\ i + 0 \in 1 .. Len(g)
    BY <1>2, <1>5, <1>6 DEF IsPart
  <2> QED
    BY <2>1, <1>3
<1>9. x = y
  <2>1. Len(x) = Len(y) /\ \A i \in 1 .. Len(x) : x[i] = y[i]
    BY <1>7, <1>8
  <2> QED
    BY <2>1, SameSeq
<1> QED
  BY <1>1, <1>4, <1>5, <1>6, <1>9

LEMMA Gem5Types ==
    ASSUME TypeOK, DownInv
    PROVE  /\ ToGem5 \in Seq(Msgs)
           /\ ~PeerGone => \E n \in 0 .. Len(ToGem5) :
                              Sent(peer_buf \o down) = SubSeq(ToGem5, 1, n)
           /\ \E n \in 0 .. Len(ToGem5) : ToGem5 = SubSeq(ToGem5, 1, n)
<1>1. PICK s, p \in Seq(Tokens), g, h \in Seq(Msgs) :
          /\ s = peer_buf \o down \o wr_rest /\ p = peer_buf \o down
          /\ g = Sent(s) /\ h = Sent(p) /\ tx_queue \in Seq(Msgs)
          /\ \E n \in 0 .. Len(g) : h = SubSeq(g, 1, n)
  BY SentTypes
<1>2. PICK q \in Seq(Msgs) : q = tx_queue
  BY <1>1
<1>3. ASSUME NEW x \in Seq(Msgs) PROVE \E n \in 0 .. Len(x) : x = SubSeq(x, 1, n)
  <2>1. Len(x) \in 0 .. Len(x) /\ SubSeq(x, 1, Len(x)) = x
    BY SubSeqFull
  <2> QED
    BY <2>1
<1>4. CASE PeerGone
  <2>1. ToGem5 = << >> /\ << >> \in Seq(Msgs)
    BY <1>4, Gem5Is
  <2> QED
    BY <2>1, <1>3, <1>4
<1>5. CASE ~PeerGone /\ ~Sending
  <2>1. ToGem5 = h
    BY <1>1, <1>5, Gem5Is
  <2> QED
    BY <2>1, <1>1, <1>3
<1>6. CASE ~PeerGone /\ Sending
  <2>1. ToGem5 = g \o q
    BY <1>1, <1>2, <1>6, Gem5Is
  <2>2. PICK n \in 0 .. Len(g) : h = SubSeq(g, 1, n)
    BY <1>1
  <2>3. n \in 0 .. Len(g \o q) /\ SubSeq(g \o q, 1, n) = SubSeq(g, 1, n)
    BY Beginning
  <2>4. PICK c \in Seq(Msgs) : c = g \o q
    BY ConcatProperties
  <2>5. ToGem5 = c /\ n \in 0 .. Len(c) /\ SubSeq(c, 1, n) = h
    BY <2>1, <2>2, <2>3, <2>4
  <2>6. \E k \in 0 .. Len(c) : c = SubSeq(c, 1, k)
    BY <1>3
  <2> QED
    BY <2>5, <2>6, <1>1
<1> QED
  BY <1>4, <1>5, <1>6

LEMMA Closes ==
    ASSUME stop', ToTb' = << >>, UNCHANGED <<polled, taken>>, PeerGone' <=> PeerGone,
           \E n \in 0 .. Len(ToGem5) : ToGem5' = SubSeq(ToGem5, 1, n)
    PROVE  Streams!Next
<1>1. (~stop)' = FALSE /\ (~stop /\ ~PeerGone /\ ~garbled)' = FALSE
  OBVIOUS
<1>2. (~PeerGone)' = ~PeerGone
  OBVIOUS
<1>3. Streams!TbCloses
  BY <1>1, <1>2 DEF Streams!TbCloses
<1> QED
  BY <1>3 DEF Streams!Next

LEMMA WriterTakes ==
    ASSUME TypeOK, ThreadInv, DownInv, wr_pc = "get", tx_queue # << >>,
           UNCHANGED <<peer_buf, down>>,
           wr_rest' = encode_msg(Head(tx_queue)), tx_queue' = Tail(tx_queue)
    PROVE  Sent(peer_buf' \o down' \o wr_rest') \o tx_queue'
           = Sent(peer_buf \o down \o wr_rest) \o tx_queue
<1>1. wr_rest = << >>
  BY DEF ThreadInv
<1>2. PICK s \in Seq(Tokens) : s = peer_buf \o down
  BY Joined DEF TypeOK
<1>3. s \o << >> = s
  OBVIOUS
<1>4. peer_buf \o down \o wr_rest = s /\ Lines(s)
  BY <1>1, <1>2, <1>3 DEF DownInv
<1>5. PICK q \in Seq(Msgs) : q = tx_queue /\ q # << >>
  BY DEF TypeOK, Msgs
<1>6. PICK m \in Msgs : m = Head(q)
  BY <1>5, HeadTailProperties
<1>7. m \in Tokens /\ Newline \in Tokens /\ m \in Nat \cup {Bye}
  BY DEF Msgs, Tokens
<1>8. PICK x : x = <<m, Newline>>
  OBVIOUS
<1>9. x \in Seq(Tokens) /\ Len(x) = 2 /\ x[1] = m /\ x[1] \in Nat \cup {Bye} /\ x[2] = Newline
  BY <1>7, <1>8
<1>10. PICK t \in Seq(Tokens) : t = s \o x /\ IsJoin(t, s, x)
  BY <1>9, Joined
<1>11. IsJoin(t, s, x)
  BY <1>10
<1>12. Sent(s) \in Seq(Msgs) /\ Sent(t) = Append(Sent(s), x[1])
  BY <1>4, <1>9, <1>11, SentMore
<1>13. PICK g \in Seq(Msgs) : g = Sent(s)
  BY <1>12
<1>14. Append(g, m) = g \o <<m>>
  BY AppendIsConcat
<1>15. PICK e \in Seq(Msgs) : e = << >>
  <2>1. << >> \in Seq(Msgs)
    BY EmptySeq
  <2> QED
    BY <2>1
<1>16. (g \o <<Head(q)>>) \o (Tail(q) \o e) = g \o (q \o e)
  BY <1>5, Passed, SMTT(30)
<1>17. Tail(q) \in Seq(Msgs)
  BY <1>5, HeadTailProperties
<1>18. Tail(q) \o e = Tail(q) /\ q \o e = q
  BY <1>15, <1>17, ConcatEmptySeq
<1>19. Append(g, m) \o Tail(q) = g \o q
  BY <1>6, <1>14, <1>16, <1>18
<1>20. t = peer_buf' \o down' \o wr_rest'
  BY <1>2, <1>5, <1>6, <1>8, <1>10 DEF encode_msg
<1>21. Sent(t) = Append(g, m)
  BY <1>9, <1>12, <1>13
<1>22. Sent(peer_buf' \o down' \o wr_rest') \o tx_queue' = Append(g, m) \o Tail(q)
  BY <1>5, <1>20, <1>21
<1> QED
  BY <1>4, <1>5, <1>13, <1>19, <1>22

LEMMA WriterMaps ==
    ASSUME TypeOK, ConnectionInv, ThreadInv, DownInv, Writer
    PROVE  [Streams!Next]_(Streams!streamVars)
<1>1. /\ UNCHANGED <<sock, stop, polled, rx_queue, rd_pc, buf, up, peer, peer_buf, taken,
                     garbled>>
      /\ rd_pc # "unborn"
  BY DEF Writer, WriterGets, WriterSends, WriterGoes, appVars, rdVars, peerVars, ThreadInv
<1>2. /\ UNCHANGED <<polled, taken, stop, garbled>> /\ (PeerGone' <=> PeerGone)
      /\ (PeerGone <=> peer = "closed")
  BY <1>1 DEF PeerGone
<1>3. ToTb' = ToTb
  <2>1. InFlight' = InFlight /\ (Reading' <=> Reading) /\ EndMark' = EndMark
    BY <1>1, <1>2 DEF InFlight, Reading, EndMark
  <2>2. Arriving' = Arriving
    BY <2>1, <1>1, ArrivingIs, ArrivingIsNext DEF Reading
  <2> QED
    BY <2>2, <1>1 DEF ToTb
<1>4. ASSUME ToGem5' = ToGem5 PROVE [Streams!Next]_(Streams!streamVars)
  BY <1>2, <1>3, <1>4, Stutters
<1>5. CASE WriterGets
  <2>1. down' = down
    BY <1>5 DEF WriterGets
  <2>2. CASE stop /\ WriterGoes("check", "ended")
    <3>1. CASE PeerGone \/ sock # "open"
      <4>1. ToGem5' = ToGem5
        BY <3>1, <2>1, <1>1, <1>2, Gem5Is, Gem5IsNext DEF Sending
      <4> QED
        BY <4>1, <1>4
    <3>2. CASE ~PeerGone /\ sock = "open"
      <4>1. (~PeerGone)' /\ (~Sending)'
        BY <3>2, <2>2, <1>1, <1>2 DEF Sending, WriterGoes
      <4>2. ToGem5' = Sent(peer_buf \o down)
        BY <4>1, <2>1, <1>1, Gem5IsNext
      <4>3. \E n \in 0 .. Len(ToGem5) : ToGem5' = SubSeq(ToGem5, 1, n)
        BY <3>2, <4>2, Gem5Types
      <4>4. stop' /\ ToTb' = << >>
        BY <2>2, <1>1 DEF ToTb
      <4> QED
        BY <4>3, <4>4, <1>2, Closes
    <3> QED
      BY <3>1, <3>2
  <2>3. CASE wr_pc \in {"check", "get"} /\ wr_pc' \in {"check", "get"}
             /\ UNCHANGED <<tx_queue, wr_rest>>
    <3>1. Sending' <=> Sending
      BY <2>3, <1>1 DEF Sending
    <3>2. ToGem5' = ToGem5
      BY <2>1, <2>3, <3>1, <1>1, <1>2, Gem5Same
    <3> QED
      BY <3>2, <1>4
  <2>4. CASE /\ tx_queue # << >> /\ WriterGoes("get", "send")
             /\ wr_rest' = encode_msg(Head(tx_queue)) /\ tx_queue' = Tail(tx_queue)
    <3>1. wr_pc = "get" /\ (Sending' <=> Sending) /\ UNCHANGED <<peer_buf, down>>
      BY <2>1, <2>4, <1>1 DEF Sending, WriterGoes
    <3>2. Sent(peer_buf' \o down' \o wr_rest') \o tx_queue'
          = Sent(peer_buf \o down \o wr_rest) \o tx_queue
      BY <2>4, <3>1, WriterTakes
    <3>3. ToGem5' = ToGem5
      <4>1. CASE PeerGone
        BY <4>1, <1>2, Gem5Is, Gem5IsNext
      <4>2. CASE ~PeerGone /\ Sending
        BY <4>2, <3>1, <3>2, <1>2, Gem5Is, Gem5IsNext
      <4>3. CASE ~PeerGone /\ ~Sending
        BY <4>3, <3>1, <1>2, Gem5Is, Gem5IsNext
      <4> QED
        BY <4>1, <4>2, <4>3
    <3> QED
      BY <3>3, <1>4
  <2> QED
    BY <1>5, <2>2, <2>3, <2>4 DEF WriterGets, WriterGoes, after_empty
<1>6. CASE WriterSends
  <2>1. tx_queue' = tx_queue
    BY <1>6 DEF WriterSends
  <2>2. CASE /\ wr_rest = << >> /\ WriterGoes("send", "check")
             /\ UNCHANGED <<wr_rest, down>>
    <3>1. Sending' <=> Sending
      BY <2>2, <1>1 DEF Sending, WriterGoes
    <3>2. ToGem5' = ToGem5
      BY <2>1, <2>2, <3>1, <1>1, <1>2, Gem5Same
    <3> QED
      BY <3>2, <1>4
  <2>3. CASE /\ wr_rest # << >> /\ sock = "open" /\ peer # "closed"
             /\ WriterGoes("send", "send")
             /\ down' = Append(down, Head(wr_rest)) /\ wr_rest' = Tail(wr_rest)
    <3>1. peer_buf' \o down' \o wr_rest' = peer_buf \o down \o wr_rest
      BY <2>3, <1>1, SentToken
    <3>2. Sending /\ Sending' /\ ~PeerGone /\ (~PeerGone)'
      BY <2>3, <1>1, <1>2 DEF Sending, WriterGoes
    <3>3. ToGem5' = ToGem5
      BY <2>1, <3>1, <3>2, Gem5Is, Gem5IsNext
    <3> QED
      BY <3>3, <1>4
  <2>4. CASE /\ wr_rest # << >> /\ (sock # "open" \/ peer = "closed")
             /\ WriterGoes("send", "ended") /\ UNCHANGED <<wr_rest, down>>
    <3>1. PeerGone \/ (~Sending /\ (~Sending)')
      BY <2>4, <1>1, <1>2 DEF Sending
    <3>2. CASE PeerGone
      <4>1. ToGem5' = ToGem5
        BY <3>2, <1>2, Gem5Is, Gem5IsNext
      <4> QED
        BY <4>1, <1>4
    <3>3. CASE ~Sending /\ (~Sending)'
      <4>1. UNCHANGED <<peer_buf, down>> /\ (Sending' <=> Sending)
        BY <2>4, <3>3, <1>1
      <4>2. ToGem5' = ToGem5
        BY <3>3, <4>1, <1>2, Gem5Same
      <4> QED
        BY <4>2, <1>4
    <3> QED
      BY <3>1, <3>2, <3>3
  <2> QED
    BY <1>6, <2>2, <2>3, <2>4 DEF WriterSends
<1> QED
  BY <1>5, <1>6 DEF Writer

(***************************************************************************)
(* The thread that calls connect, send, poll and close.                    *)
(***************************************************************************)
LEMMA ConnectMaps ==
    ASSUME TypeOK, ConnectionInv, ThreadInv, Connect \/ ConnectRefused
    PROVE  UNCHANGED Streams!streamVars
<1>1. /\ UNCHANGED <<stop, polled, rx_queue, buf, up, peer, taken, garbled, peer_buf, down,
                     wr_rest, tx_queue>>
      /\ Unconnected /\ ~stop /\ ~PeerGone /\ (~PeerGone)' /\ Reading /\ Reading'
  <2>1. Unconnected
    BY DEF Connect, ConnectRefused, Unconnected
  <2>2. rd_pc = "unborn" /\ ~stop
    BY <2>1 DEF ThreadInv, ConnectionInv, Unconnected
  <2>3. CASE Connect
    BY <2>1, <2>2, <2>3 DEF Connect, peerVars, PeerGone, Reading
  <2>4. CASE ConnectRefused
    BY <2>1, <2>2, <2>4 DEF ConnectRefused, peerVars, rdVars, wrVars, PeerGone, Reading
  <2> QED
    BY <2>3, <2>4
<1>2. ToTb' = ToTb
  <2>1. InFlight' = InFlight
    BY <1>1 DEF InFlight
  <2> QED
    BY <2>1, <1>1, TbSame
<1>3. ToGem5' = ToGem5
  <2>1. CASE ConnectRefused
    <3>1. Sending' <=> Sending
      BY <2>1 DEF ConnectRefused, wrVars, Sending
    <3> QED
      BY <3>1, <1>1, Gem5Same
  <2>2. CASE Connect
    <3>1. ~Sending /\ Sending'
      BY <2>2, <1>1 DEF Connect, ConnectionInv, Sending
    <3>2. peer_buf = << >> /\ down = << >> /\ wr_rest = << >> /\ tx_queue = << >>
      BY <1>1 DEF ThreadInv, Unconnected
    <3>3. PICK e : e = << >>
      OBVIOUS
    <3>4. e \o e = e /\ e \o e \o e = e /\ Len(e) = 0
      BY <3>3
    <3>5. ToGem5' = Sent(e) \o e /\ ToGem5 = Sent(e)
      <4>1. ToGem5 = Sent(peer_buf \o down)
        BY <3>1, <1>1, Gem5Is
      <4>2. ToGem5' = Sent(peer_buf \o down \o wr_rest) \o tx_queue
        BY <3>1, <1>1, Gem5IsNext
      <4> QED
        BY <4>1, <4>2, <3>2, <3>3, <3>4
    <3>6. InPlace(e) /\ e \in Seq(Tokens)
      BY <3>3, <3>4 DEF InPlace
    <3>7. Sent(e) \in Seq(Msgs)
      BY <3>6, SentFacts DEF IsSent
    <3>8. Sent(e) \o e = Sent(e)
      BY <3>3, <3>7, ConcatEmptySeq
    <3> QED
      BY <3>5, <3>8
  <2> QED
    BY <2>1, <2>2
<1> QED
  BY <1>1, <1>2, <1>3, Stutters

\* A message that is put into tx_queue.
LEMMA Puts ==
    ASSUME TypeOK, ConnectionInv, ThreadInv, DownInv, app_pc = "up",
           NEW m \in 1 .. MaxSends \cup {Bye}, tx_queue' = Append(tx_queue, m),
           UNCHANGED <<stop, sock, polled, rdVars, wr_pc, wr_rest, up, down, peerVars>>
    PROVE  Streams!Next
<1>1. /\ UNCHANGED <<polled, taken, stop, garbled, peer, rd_pc, peer_buf, down, rx_queue,
                     buf, up>>
      /\ ~stop /\ sock = "open" /\ sock' = "open" /\ rd_pc # "unborn"
  BY DEF rdVars, peerVars, ConnectionInv, ThreadInv, Unconnected
<1>2. /\ (PeerGone' <=> PeerGone) /\ Sending /\ Sending' /\ (Reading' <=> Reading)
      /\ InFlight' = InFlight
  BY <1>1 DEF PeerGone, Sending, Reading, InFlight
<1>3. ToTb' = ToTb
  <2>1. EndMark' = EndMark
    BY <1>1, <1>2 DEF EndMark
  <2>2. Arriving' = Arriving
    BY <2>1, <1>1, <1>2, ArrivingIs, ArrivingIsNext DEF Reading
  <2> QED
    BY <2>2, <1>1 DEF ToTb
<1>4. m \in Msgs
  BY DEF Msgs
<1>5. ToGem5' = IF ~PeerGone THEN Append(ToGem5, m) ELSE ToGem5
  <2>1. CASE PeerGone
    BY <2>1, <1>2, Gem5Is, Gem5IsNext
  <2>2. CASE ~PeerGone
    <3>1. PICK g \in Seq(Msgs) :
              g = Sent(peer_buf \o down \o wr_rest) /\ tx_queue \in Seq(Msgs)
      BY SentTypes
    <3>2. PICK q \in Seq(Msgs) : q = tx_queue
      BY <3>1
    <3>3. g \o Append(q, m) = Append(g \o q, m)
      BY <1>4, LastIn
    <3>4. ToGem5 = g \o q
      BY <2>2, <3>1, <3>2, <1>2, Gem5Is
    <3>5. ToGem5' = Sent(peer_buf \o down \o wr_rest) \o tx_queue'
      BY <2>2, <1>1, <1>2, Gem5IsNext
    <3> QED
      BY <2>2, <3>1, <3>2, <3>3, <3>4, <3>5
  <2> QED
    BY <2>1, <2>2
<1>6. Streams!TbSends(m)
  <2>1. /\ UNCHANGED <<polled, taken>> /\ (~stop)' = ~stop /\ (~PeerGone)' = ~PeerGone
        /\ (~stop /\ ~PeerGone /\ ~garbled)' = (~stop /\ ~PeerGone /\ ~garbled)
    BY <1>1, <1>2
  <2> QED
    BY <2>1, <1>1, <1>3, <1>5 DEF Streams!TbSends
<1> QED
  BY <1>6 DEF Streams!Next

LEMMA PollMaps ==
    ASSUME TypeOK, ConnectionInv, ThreadInv, UpInv, poll
    PROVE  Streams!Next
<1>1. /\ UNCHANGED <<sock, stop, rd_pc, buf, wr_pc, wr_rest, tx_queue, up, down, peer,
                     peer_buf, taken, garbled>>
      /\ ~stop /\ rx_queue # << >>
      /\ rx_queue' = Tail(rx_queue) /\ polled' = Append(polled, Head(rx_queue))
  BY DEF poll, wrVars, peerVars, ConnectionInv
<1>2. /\ (PeerGone' <=> PeerGone) /\ (Sending' <=> Sending) /\ (Reading' <=> Reading)
      /\ InFlight' = InFlight
  BY <1>1 DEF PeerGone, Sending, Reading, InFlight
<1>3. ToGem5' = ToGem5
  BY <1>1, <1>2, Gem5Same
<1>4. Arriving' = Arriving
  <2>1. EndMark' = EndMark
    BY <1>1, <1>2 DEF EndMark
  <2> QED
    BY <2>1, <1>1, <1>2, ArrivingIs, ArrivingIsNext DEF Reading
<1>5. PICK r \in Seq(Events) : r = rx_queue
  BY ArrivingTypes
<1>6. PICK a \in Seq(Events) : a = Arriving
  BY ArrivingTypes
<1>7. r # << >>
  BY <1>1, <1>5
<1>8. r \o a # << >> /\ Head(r \o a) = Head(r) /\ Tail(r \o a) = Tail(r) \o a
  BY <1>7, FirstOut
<1>9. ToTb = r \o a /\ ToTb' = Tail(r) \o a
  BY <1>1, <1>4, <1>5, <1>6 DEF ToTb
<1>10. ToTb # << >> /\ ToTb' = Tail(ToTb) /\ polled' = Append(polled, Head(ToTb))
  BY <1>1, <1>5, <1>8, <1>9
<1>11. Streams!TbPolls
  <2>1. /\ taken' = taken /\ (~stop)' = ~stop /\ (~PeerGone)' = ~PeerGone
        /\ (~stop /\ ~PeerGone /\ ~garbled)' = (~stop /\ ~PeerGone /\ ~garbled)
    BY <1>1, <1>2
  <2> QED
    BY <2>1, <1>3, <1>10 DEF Streams!TbPolls
<1> QED
  BY <1>11 DEF Streams!Next

LEMMA CloseMaps ==
    ASSUME TypeOK, ConnectionInv, ThreadInv, DownInv, close
    PROVE  [Streams!Next]_(Streams!streamVars)
<1>1. /\ UNCHANGED <<polled, rd_pc, buf, rx_queue, wr_pc, wr_rest, up, down, peer,
                     peer_buf, taken, garbled>>
      /\ ~Unconnected /\ rd_pc # "unborn"
  BY DEF close, CloseStep, rdVars, peerVars, Unconnected, ThreadInv
<1>2. (PeerGone' <=> PeerGone) /\ UNCHANGED <<polled, taken>>
  BY <1>1 DEF PeerGone
<1>3. CASE CloseStep("up", "flushing")
  <2>1. tx_queue' = Append(tx_queue, Bye) /\ app_pc = "up"
    BY <1>3 DEF close, CloseStep
  <2>2. UNCHANGED <<stop, sock, polled, rdVars, wr_pc, wr_rest, up, down, peerVars>>
    BY <1>3 DEF close, CloseStep
  <2> QED
    BY <2>1, <2>2, Puts
<1>4. CASE CloseStep("flushing", "stopping")
  <2>1. /\ stop' = TRUE /\ ~stop /\ sock = "open" /\ sock' = "open"
        /\ tx_queue' = tx_queue
    BY <1>4 DEF close, CloseStep, ConnectionInv
  <2>2. ToTb' = << >> /\ stop'
    BY <2>1 DEF ToTb
  <2>3. ToGem5' = ToGem5
    <3>1. CASE PeerGone
      BY <3>1, <1>2, Gem5Is, Gem5IsNext
    <3>2. CASE ~PeerGone
      <4>1. wr_pc # "ended"
        BY <3>2, <2>1, <1>1 DEF ThreadInv, PeerGone
      <4>2. Sending /\ Sending'
        BY <4>1, <2>1, <1>1 DEF Sending
      <4>3. UNCHANGED <<peer_buf, down, wr_rest, tx_queue>>
        BY <2>1, <1>1
      <4> QED
        BY <3>2, <4>2, <4>3, <1>2, Gem5Is, Gem5IsNext
    <3> QED
      BY <3>1, <3>2
  <2>4. \E n \in 0 .. Len(ToGem5) : ToGem5' = SubSeq(ToGem5, 1, n)
    BY <2>3, Gem5Types
  <2> QED
    BY <2>2, <2>4, <1>2, Closes
<1>5. CASE CloseStep("stopping", "closing")
  <2>1. /\ stop' = stop /\ stop /\ sock' = "shut" /\ tx_queue' = tx_queue
    BY <1>5 DEF close, CloseStep, ConnectionInv
  <2>2. ToTb' = << >> /\ stop'
    BY <2>1 DEF ToTb
  <2>3. \E n \in 0 .. Len(ToGem5) : ToGem5' = SubSeq(ToGem5, 1, n)
    <3>1. CASE PeerGone
      <4>1. ToGem5' = ToGem5
        BY <3>1, <1>2, Gem5Is, Gem5IsNext
      <4> QED
        BY <4>1, Gem5Types
    <3>2. CASE ~PeerGone
      <4>1. (~PeerGone)' /\ (~Sending)'
        BY <3>2, <2>1, <1>2 DEF Sending
      <4>2. ToGem5' = Sent(peer_buf \o down)
        BY <4>1, <1>1, Gem5IsNext
      <4> QED
        BY <3>2, <4>2, Gem5Types
    <3> QED
      BY <3>1, <3>2
  <2> QED
    BY <2>2, <2>3, <1>2, Closes
<1>6. CASE CloseStep("closing", "dropping") \/ CloseStep("dropping", "closed")
  <2>1. /\ stop' = stop /\ stop /\ sock # "open" /\ sock' # "open" /\ garbled' = garbled
    BY <1>1, <1>6 DEF close, CloseStep, ConnectionInv
  <2>2. ToTb' = ToTb
    BY <2>1, TbSame
  <2>3. ~Sending /\ (~Sending)' /\ UNCHANGED <<peer_buf, down>>
    BY <2>1, <1>1 DEF Sending
  <2>4. ToGem5' = ToGem5
    BY <2>3, <1>2, Gem5Same
  <2> QED
    BY <2>1, <2>2, <2>4, <1>2, Stutters
<1> QED
  BY <1>3, <1>4, <1>5, <1>6 DEF close

LEMMA AppMaps ==
    ASSUME TypeOK, ConnectionInv, ThreadInv, UpInv, DownInv, send \/ poll \/ close
    PROVE  [Streams!Next]_(Streams!streamVars)
<1>1. CASE send
  <2>1. PICK m : m = sends + 1
    OBVIOUS
  <2>2. m \in 1 .. MaxSends \cup {Bye}
    BY <2>1, <1>1, Different DEF send, TypeOK
  <2>3. tx_queue' = Append(tx_queue, m) /\ app_pc = "up"
    BY <2>1, <1>1 DEF send
  <2>4. UNCHANGED <<stop, sock, polled, rdVars, wr_pc, wr_rest, up, down, peerVars>>
    BY <1>1 DEF send
  <2> QED
    BY <2>2, <2>3, <2>4, Puts
<1>2. CASE poll
  BY <1>2, PollMaps
<1>3. CASE close
  BY <1>3, CloseMaps
<1> QED
  BY <1>1, <1>2, <1>3

(***************************************************************************)
(* The peer: what it writes arrives, what it reads it has taken, and its   *)
(* end is the end of both streams.                                         *)
(***************************************************************************)
\* While the peer is there and every line was good, the reader reads.
LEMMA StillReading ==
    ASSUME ThreadInv, peer # "closed", ~stop
    PROVE  Reading \/ (rd_pc = "died" /\ garbled)
  BY DEF ThreadInv, Reading

LEMMA ServesMaps ==
    ASSUME PeerServes
    PROVE  UNCHANGED Streams!streamVars
<1>1. /\ UNCHANGED <<sock, stop, polled, rd_pc, buf, rx_queue, wr_pc, wr_rest, tx_queue, up,
                     down, peer_buf, taken, garbled>>
      /\ ~PeerGone /\ (~PeerGone)'
  BY DEF PeerServes, appVars, rdVars, wrVars, PeerGone
<1>2. (Sending' <=> Sending) /\ InFlight' = InFlight /\ EndMark' = EndMark
      /\ (Reading' <=> Reading) /\ (PeerGone' <=> PeerGone)
  BY <1>1 DEF Sending, InFlight, EndMark, Reading
<1>3. Arriving' = Arriving
  BY <1>1, <1>2, ArrivingIs, ArrivingIsNext DEF Reading
<1>4. ToTb' = ToTb
  BY <1>1, <1>3 DEF ToTb
<1>5. ToGem5' = ToGem5
  BY <1>1, <1>2, Gem5Same
<1> QED
  BY <1>1, <1>2, <1>4, <1>5, Stutters

LEMMA PeerReadsMaps ==
    ASSUME TypeOK, ConnectionInv, ThreadInv, DownInv, PeerReads
    PROVE  [Streams!Next]_(Streams!streamVars)
<1>1. /\ UNCHANGED <<sock, stop, polled, rd_pc, buf, rx_queue, wr_pc, wr_rest, tx_queue, up,
                     peer, garbled>>
      /\ ~PeerGone /\ (~PeerGone)'
  BY DEF PeerReads, Linked, appVars, rdVars, wrVars, PeerGone
<1>2. (Sending' <=> Sending) /\ InFlight' = InFlight /\ EndMark' = EndMark
      /\ (Reading' <=> Reading) /\ (PeerGone' <=> PeerGone)
  BY <1>1 DEF Sending, InFlight, EndMark, Reading
<1>3. Arriving' = Arriving
  BY <1>1, <1>2, ArrivingIs, ArrivingIsNext DEF Reading
<1>4. ToTb' = ToTb
  BY <1>1, <1>3 DEF ToTb
<1>5. CASE ~HasLine(peer_buf)
  <2>1. taken' = taken /\ Recv(down, peer_buf)
    BY <1>5 DEF PeerReads
  <2>2. PICK n \in 1 .. Len(down) : /\ peer_buf' = peer_buf \o SubSeq(down, 1, n)
                                    /\ down' = SubSeq(down, n + 1, Len(down))
    BY <2>1 DEF Recv
  <2>3. peer_buf \in Seq(Tokens) /\ down \in Seq(Tokens)
    BY DEF TypeOK
  <2>4. peer_buf' \o down' = peer_buf \o down
    BY <2>2, <2>3, Received
  <2>5. ToGem5' = ToGem5
    <3>1. CASE Sending
      BY <3>1, <2>4, <1>1, <1>2, Gem5Is, Gem5IsNext
    <3>2. CASE ~Sending
      BY <3>2, <2>4, <1>1, <1>2, Gem5Is, Gem5IsNext
    <3> QED
      BY <3>1, <3>2
  <2> QED
    BY <2>1, <2>5, <1>1, <1>2, <1>4, Stutters
<1>6. CASE HasLine(peer_buf)
  <2>1. PICK s \in Seq(Tokens), t \in Seq(Tokens) :
            /\ s = peer_buf \o down \o wr_rest
            /\ t = AfterLine(peer_buf) \o down \o wr_rest
            /\ AfterLine(peer_buf) \in Seq(Tokens)
            /\ Len(s) \in Nat /\ 2 \in 1 .. Len(s) /\ 2 \in 1 .. Len(peer_buf)
            /\ LineEnd(peer_buf) = 2
            /\ IsPart(t, s, 2, Len(s) - 2)
            /\ s[1] \in Nat \cup {Bye} /\ s[1] = peer_buf[1]
            /\ Line(peer_buf) = <<s[1]>>
    BY <1>6, DownLine
  <2>2. /\ peer_buf' = AfterLine(peer_buf) /\ taken' = taken \o Line(peer_buf)
        /\ down' = down
    BY <1>6 DEF PeerReads
  <2>3. PICK m \in Msgs : m = s[1] /\ Line(peer_buf) = <<m>>
    BY <2>1 DEF Msgs
  <2>4. taken' = Append(taken, m)
    BY <2>2, <2>3, AppendIsConcat DEF TypeOK, Msgs
  <2>5. PICK p \in Seq(Tokens) : p = peer_buf \o down /\ IsJoin(p, peer_buf, down)
    BY Joined DEF TypeOK
  <2>6. Lines(s)
    BY <2>1 DEF DownInv
  <2>7. PICK w \in Seq(Tokens) : w = wr_rest
    BY DEF TypeOK
  <2>8. IsJoin(s, p, w)
    BY <2>1, <2>5, <2>7, Joined
  <2>9. InPlace(p) /\ InPlace(s)
    BY <2>6, <2>8, LinesInPlace
  <2>10. IsPart(t, s, 2, Len(s) - 2) /\ 2 \in 1 .. Len(s)
    BY <2>1
  <2>11. /\ Sent(s) \in Seq(Msgs) /\ Sent(s) # << >> /\ Head(Sent(s)) = s[1]
         /\ Sent(t) = Tail(Sent(s))
    BY <2>9, <2>10, SentRest
  <2>12. PICK q \in Seq(Tokens) :
            q = AfterLine(peer_buf) \o down /\ IsPart(q, p, 2, Len(p) - 2)
    <3>1. /\ peer_buf \in Seq(Tokens) /\ down \in Seq(Tokens)
          /\ 2 \in 1 .. Len(peer_buf) /\ LineEnd(peer_buf) = 2
      BY <2>1 DEF TypeOK
    <3>2. /\ AfterLine(peer_buf) \o down \in Seq(Tokens)
          /\ IsPart(AfterLine(peer_buf) \o down, peer_buf \o down, 2,
                    Len(peer_buf \o down) - 2)
      BY <3>1, Rest
    <3> QED
      BY <3>2, <2>5
  <2>13. 2 \in 1 .. Len(p) /\ p[1] = s[1]
    <3>1. /\ Len(p) = Len(peer_buf) + Len(down) /\ \A i \in 1 .. Len(peer_buf) : p[i] = peer_buf[i]
      BY <2>5 DEF IsJoin
    <3>2. Len(peer_buf) \in Nat /\ Len(down) \in Nat
      BY DEF TypeOK
    <3> QED
      BY <3>1, <3>2, <2>1
  <2>14. IsPart(q, p, 2, Len(p) - 2)
    BY <2>12
  <2>15. /\ Sent(p) \in Seq(Msgs) /\ Sent(p) # << >> /\ Head(Sent(p)) = p[1]
         /\ Sent(q) = Tail(Sent(p))
    BY <2>9, <2>13, <2>14, SentRest
  <2>16. ToGem5 # << >> /\ Head(ToGem5) = m /\ ToGem5' = Tail(ToGem5)
    <3>1. CASE ~Sending
      <4>1. ToGem5 = Sent(p) /\ ToGem5' = Sent(q)
        BY <3>1, <2>2, <2>5, <2>12, <1>1, <1>2, Gem5Is, Gem5IsNext
      <4> QED
        BY <4>1, <2>3, <2>13, <2>15
    <3>2. CASE Sending
      <4>1. PICK g \in Seq(Msgs) : g = Sent(s) /\ g # << >> /\ Head(g) = m
        BY <2>3, <2>11
      <4>2. PICK x \in Seq(Msgs) : x = tx_queue
        BY DEF TypeOK, Msgs
      <4>3. ToGem5 = g \o x
        BY <3>2, <4>1, <4>2, <2>1, <1>1, Gem5Is
      <4>4. ToGem5' = Tail(g) \o x
        BY <3>2, <4>1, <4>2, <2>1, <2>2, <2>11, <1>1, <1>2, Gem5IsNext
      <4>5. g # << >>
        BY <4>1
      <4>6. g \o x # << >> /\ Head(g \o x) = Head(g) /\ Tail(g \o x) = Tail(g) \o x
        BY <4>5, FirstOut
      <4> QED
        BY <4>1, <4>3, <4>4, <4>6
    <3> QED
      BY <3>1, <3>2
  <2>17. Streams!PeerTakes
    <3>1. /\ polled' = polled /\ (~stop)' = ~stop /\ (~PeerGone)' = ~PeerGone
          /\ (~stop /\ ~PeerGone /\ ~garbled)' = (~stop /\ ~PeerGone /\ ~garbled)
      BY <1>1, <1>2
    <3> QED
      BY <3>1, <2>4, <2>16, <1>4 DEF Streams!PeerTakes
  <2> QED
    BY <2>17 DEF Streams!Next
<1> QED
  BY <1>5, <1>6

\* A cut line, an empty one, a bad one, or any behind a bad one adds nothing.
LEMMA NoMessageAdded ==
    ASSUME TypeOK, UpInv, peer # "closed", NEW text \in Seq(Tokens), buf' = buf,
           up' = up \o text,
           \/ Len(text) = 2 /\ (HasBad(buf \o up) \/ text[1] = Bad)
           \/ Len(text) \in {0, 1}
    PROVE  InFlight' = InFlight
<1>1. PICK s \in Seq(Tokens) : /\ s = buf \o up /\ Framed(s, peer)
                               /\ InFlight = InLines(s)
  BY InFlightTypes
<1>2. PICK t \in Seq(Tokens) : t = s \o text /\ IsJoin(t, s, text)
  BY Joined
<1>3. t = buf' \o up'
  <2>1. PICK v : v = up \o text
    OBVIOUS
  <2>2. buf \in Seq(Tokens) /\ up \in Seq(Tokens)
    BY DEF TypeOK
  <2>3. (buf \o up) \o text = buf \o v
    BY <2>1, <2>2, Assoc
  <2> QED
    BY <2>1, <2>3, <1>1, <1>2
<1>4. Framed(s, peer) /\ IsJoin(t, s, text)
  BY <1>1, <1>2
<1>5. \/ Len(text) = 2 /\ (HasBad(s) \/ text[1] = Bad)
      \/ Len(text) \in {0, 1}
  BY <1>1
<1>6. PICK of : of = peer /\ of # "closed"
  OBVIOUS
<1>7. Framed(s, of)
  BY <1>4, <1>6
<1>8. InLines(t) = InLines(s)
  BY <1>4, <1>5, <1>6, <1>7, NoMessage
<1>9. InFlight' = InLines(t)
  BY <1>3 DEF InFlight, InLines
<1> QED
  BY <1>1, <1>8, <1>9

LEMMA MessageAdded ==
    ASSUME TypeOK, UpInv, peer # "closed", ~HasBad(buf \o up), NEW m \in Nat, buf' = buf,
           up' = up \o <<m, Newline>>
    PROVE  InFlight' = Append(InFlight, m)
<1>1. PICK s \in Seq(Tokens) : /\ s = buf \o up /\ Framed(s, peer)
                               /\ InFlight = InLines(s)
  BY InFlightTypes
<1>2. PICK text : text = <<m, Newline>>
  OBVIOUS
<1>3. m \in Tokens /\ Newline \in Tokens
  BY DEF Tokens
<1>4. text \in Seq(Tokens) /\ Len(text) = 2 /\ text[1] = m /\ text[1] \in Nat /\ text[2] = Newline
  BY <1>2, <1>3
<1>5. PICK t \in Seq(Tokens) : t = s \o text /\ IsJoin(t, s, text)
  BY <1>4, Joined
<1>6. t = buf' \o up'
  <2>1. PICK v : v = up \o text
    OBVIOUS
  <2>2. buf \in Seq(Tokens) /\ up \in Seq(Tokens) /\ text \in Seq(Tokens)
    BY <1>4 DEF TypeOK
  <2>3. (buf \o up) \o text = buf \o v
    BY <2>1, <2>2, Assoc, SMTT(30)
  <2> QED
    BY <2>1, <2>3, <1>1, <1>2, <1>5
<1>7. PICK of : of = peer /\ of # "closed"
  OBVIOUS
<1>8. Framed(s, of) /\ ~HasBad(s) /\ IsJoin(t, s, text)
  BY <1>1, <1>5, <1>7
<1>9. InLines(s) \in Seq(Nat) /\ InLines(t) = Append(InLines(s), text[1])
  BY <1>4, <1>7, <1>8, OneMessage
<1>10. InFlight' = InLines(t)
  BY <1>6 DEF InFlight, InLines
<1> QED
  BY <1>1, <1>4, <1>9, <1>10

LEMMA PeerExitsMaps ==
    ASSUME TypeOK, ConnectionInv, ThreadInv, UpInv, PeerExits
    PROVE  [Streams!Next]_(Streams!streamVars)
<1>1. /\ UNCHANGED <<sock, stop, polled, rd_pc, buf, rx_queue, wr_pc, wr_rest, tx_queue,
                     down, peer_buf, taken, garbled>>
      /\ peer = "serving" /\ peer' = "closed" /\ ~PeerGone
      /\ lines + 1 \in Nat /\ lines + 1 \in Tokens
  BY Different DEF PeerExits, appVars, rdVars, wrVars, PeerGone, TypeOK, Tokens
<1>2. CASE rd_pc = "unborn"
  <2>1. up' = up /\ ~PeerGone' /\ (~PeerGone)'
    BY <1>1, <1>2 DEF PeerExits, Linked, PeerGone
  <2>2. /\ (Sending' <=> Sending) /\ InFlight' = InFlight /\ EndMark' = EndMark
        /\ Reading /\ Reading' /\ (PeerGone' <=> PeerGone)
    BY <1>1, <1>2, <2>1 DEF Sending, InFlight, EndMark, Reading
  <2>3. Arriving' = Arriving
    BY <2>2, ArrivingIs, ArrivingIsNext
  <2>4. ToTb' = ToTb
    BY <1>1, <2>3 DEF ToTb
  <2>5. ToGem5' = ToGem5
    BY <1>1, <2>2, Gem5Same
  <2> QED
    BY <1>1, <2>2, <2>4, <2>5, Stutters
<1>3. CASE rd_pc # "unborn"
  <2>1. PeerGone' /\ ToGem5' = << >>
    <3>1. PeerGone'
      BY <1>1, <1>3 DEF PeerGone
    <3> QED
      BY <3>1, Gem5IsNext
  <2>2. InFlight' = InFlight
    <3>1. CASE up' = up
      BY <3>1, <1>1 DEF InFlight
    <3>2. CASE up' # up
      <4>1. up' = up \o <<lines + 1>> \/ up' = up \o << >>
        BY <3>2 DEF PeerExits
      <4>2. PICK x : x = <<lines + 1>>
        OBVIOUS
      <4>3. x \in Seq(Tokens) /\ Len(x) \in {0, 1}
        BY <4>2, <1>1
      <4>4. PICK y : y = << >>
        OBVIOUS
      <4>5. y \in Seq(Tokens) /\ Len(y) \in {0, 1}
        BY <4>4
      <4>6. peer # "closed" /\ buf' = buf
        BY <1>1
      <4>7. CASE up' = up \o x
        BY <4>3, <4>6, <4>7, NoMessageAdded
      <4>8. CASE up' = up \o y
        BY <4>5, <4>6, <4>8, NoMessageAdded
      <4> QED
        BY <4>1, <4>2, <4>4, <4>7, <4>8
    <3> QED
      BY <3>1, <3>2
  <2>3. ToTb' = IF ~stop /\ ~garbled THEN Append(ToTb, PeerClosed) ELSE ToTb
    <3>1. CASE stop
      BY <3>1, <1>1 DEF ToTb
    <3>2. CASE ~stop /\ garbled
      <4>1. EndMark' = EndMark /\ (Reading' <=> Reading)
        BY <3>2, <1>1 DEF EndMark, Reading
      <4>2. Arriving' = Arriving
        BY <4>1, <2>2, <1>1, ArrivingIs, ArrivingIsNext DEF Reading
      <4> QED
        BY <3>2, <4>2, <1>1 DEF ToTb
    <3>3. CASE ~stop /\ ~garbled
      <4>1. Reading
        BY <3>3, <1>1, StillReading
      <4>2. Reading' /\ EndMark = << >> /\ EndMark' = <<PeerClosed>>
        BY <3>3, <4>1, <1>1, <2>1 DEF Reading, EndMark
      <4>3. PICK f \in Seq(Events) : f = InFlight
        BY ArrivingTypes
      <4>4. PICK r \in Seq(Events) : r = rx_queue
        BY ArrivingTypes
      <4>5. PeerClosed \in Events
        BY DEF Events
      <4>6. f \o << >> = f /\ f \o <<PeerClosed>> = Append(f, PeerClosed)
        BY <4>5, ConcatEmptySeq, AppendIsConcat
      <4>7. Arriving = f /\ Arriving' = Append(f, PeerClosed)
        BY <4>1, <4>2, <4>3, <4>6, <2>2, ArrivingIs, ArrivingIsNext
      <4>8. r \o Append(f, PeerClosed) = Append(r \o f, PeerClosed)
        BY <4>5, LastIn
      <4> QED
        BY <3>3, <4>4, <4>7, <4>8, <1>1 DEF ToTb
    <3> QED
      BY <3>1, <3>2, <3>3
  <2>4. Streams!PeerEnds
    <3>1. /\ UNCHANGED <<polled, taken>> /\ (~stop)' = ~stop /\ ~PeerGone
          /\ (~PeerGone)' = FALSE /\ (~stop /\ ~PeerGone /\ ~garbled)' = FALSE
      BY <1>1, <2>1
    <3> QED
      BY <3>1, <2>1, <2>3 DEF Streams!PeerEnds, Streams!Arrives
  <2> QED
    BY <2>4 DEF Streams!Next
<1> QED
  BY <1>2, <1>3

LEMMA PeerWritesMaps ==
    ASSUME TypeOK, ConnectionInv, ThreadInv, UpInv,
           NEW text \in {encode_msg(lines + 1), encode_msg(Bad), <<Newline>>},
           PeerWrites(text)
    PROVE  [Streams!Next]_(Streams!streamVars)
<1>1. /\ UNCHANGED <<sock, stop, polled, rd_pc, buf, rx_queue, wr_pc, wr_rest, tx_queue,
                     down, peer_buf, taken, peer>>
      /\ peer = "serving" /\ rd_pc # "unborn" /\ up' = up \o text
      /\ ~PeerGone /\ (~PeerGone)'
      /\ garbled' = (garbled \/ text = encode_msg(Bad))
  BY DEF PeerWrites, Linked, appVars, rdVars, wrVars, PeerGone
<1>2. PICK m \in 1 .. MaxLines : m = lines + 1
  BY Different DEF PeerWrites, TypeOK
<1>3. m \in Nat /\ m \in Tokens /\ Bad \in Tokens /\ Newline \in Tokens /\ m # Bad
  BY Different DEF Tokens
<1>4. ToGem5' = ToGem5
  <2>1. (PeerGone' <=> PeerGone) /\ (Sending' <=> Sending)
    BY <1>1 DEF Sending
  <2> QED
    BY <2>1, <1>1, Gem5Same
<1>5. EndMark = << >> /\ EndMark' = << >> /\ (Reading' <=> Reading)
  BY <1>1 DEF EndMark, Reading
<1>6. ASSUME InFlight' = InFlight PROVE ToTb' = ToTb
  <2>1. Arriving' = Arriving
    BY <1>1, <1>5, <1>6, ArrivingIs, ArrivingIsNext DEF Reading
  <2> QED
    BY <2>1, <1>1 DEF ToTb
<1>7. PICK x : x = <<m, Newline>>
  OBVIOUS
<1>8. PICK y : y = <<Bad, Newline>>
  OBVIOUS
<1>9. PICK z : z = <<Newline>>
  OBVIOUS
<1>10. /\ x \in Seq(Tokens) /\ Len(x) = 2 /\ x[1] = m
       /\ y \in Seq(Tokens) /\ Len(y) = 2 /\ y[1] = Bad
       /\ z \in Seq(Tokens) /\ Len(z) = 1
  <2>1. x \in Seq(Tokens) /\ Len(x) = 2 /\ x[1] = m
    BY <1>3, <1>7
  <2>2. y \in Seq(Tokens) /\ Len(y) = 2 /\ y[1] = Bad
    BY <1>3, <1>8
  <2>3. z \in Seq(Tokens) /\ Len(z) = 1
    BY <1>3, <1>9
  <2> QED
    BY <2>1, <2>2, <2>3
<1>11. /\ text = x \/ text = y \/ text = z
       /\ (text = encode_msg(Bad)) <=> (text = y)
       /\ x # y /\ y # z
  <2>1. text = x \/ text = y \/ text = z
    BY <1>2, <1>7, <1>8, <1>9 DEF encode_msg
  <2>2. (text = encode_msg(Bad)) <=> (text = y)
    BY <1>8 DEF encode_msg
  <2>3. x # y /\ y # z
    BY <1>3, <1>10
  <2> QED
    BY <2>1, <2>2, <2>3
<1>12. peer # "closed" /\ buf' = buf
  BY <1>1
<1>13. CASE text = y
  <2>1. up' = up \o y /\ y[1] = Bad /\ Len(y) = 2 /\ y \in Seq(Tokens)
    BY <1>1, <1>10, <1>13
  <2>2. InFlight' = InFlight
    BY <2>1, <1>12, NoMessageAdded
  <2>3. ToTb' = ToTb
    BY <2>2, <1>6
  <2>4. garbled'
    BY <1>1, <1>11, <1>13
  <2>5. Streams!PeerGarbles
    <3>1. /\ UNCHANGED <<polled, taken>> /\ (~stop)' = ~stop /\ (~PeerGone)' = ~PeerGone
          /\ (~stop /\ ~PeerGone /\ ~garbled)' = FALSE /\ ~PeerGone
      BY <1>1, <2>4
    <3> QED
      BY <3>1, <2>3, <1>4 DEF Streams!PeerGarbles
  <2> QED
    BY <2>5 DEF Streams!Next
<1>14. CASE text # y
  <2>1. garbled' <=> garbled
    BY <1>1, <1>11, <1>14
  <2>2. garbled' = garbled
    <3>1. garbled \in BOOLEAN /\ garbled' \in BOOLEAN
      BY <1>1 DEF TypeOK
    <3> QED
      BY <2>1, <3>1
  <2>3. UNCHANGED <<polled, taken, stop, garbled>> /\ (PeerGone' <=> PeerGone)
    BY <1>1, <2>2
  <2>4. CASE text = z
    <3>1. up' = up \o z /\ Len(z) \in {0, 1} /\ z \in Seq(Tokens)
      BY <1>1, <1>10, <2>4
    <3>2. InFlight' = InFlight
      BY <3>1, <1>12, NoMessageAdded
    <3>3. ToTb' = ToTb
      BY <3>2, <1>6
    <3> QED
      BY <3>3, <2>3, <1>4, Stutters
  <2>5. CASE text = x
    <3>1. up' = up \o x /\ Len(x) = 2 /\ x \in Seq(Tokens)
      BY <1>1, <1>10, <2>5
    <3>2. ToTb' = IF ~stop /\ ~garbled THEN Append(ToTb, m) ELSE ToTb
      <4>1. CASE stop
        BY <4>1, <1>1 DEF ToTb
      <4>2. CASE ~stop /\ garbled
        <5>1. CASE HasBad(buf \o up)
          <6>1. InFlight' = InFlight
            BY <3>1, <5>1, <1>12, NoMessageAdded
          <6> QED
            BY <4>2, <6>1, <1>6
        <5>2. CASE ~HasBad(buf \o up)
          <6>1. rd_pc = "died" /\ rd_pc' = "died"
            BY <4>2, <5>2, <1>1 DEF UpInv, UpStream
          <6>2. Arriving = << >> /\ Arriving' = << >>
            BY <6>1, ArrivingIs, ArrivingIsNext
          <6> QED
            BY <4>2, <6>2, <1>1 DEF ToTb
        <5> QED
          BY <5>1, <5>2
      <4>3. CASE ~stop /\ ~garbled
        <5>1. ~HasBad(buf \o up)
          BY <4>3 DEF UpInv, UpStream
        <5>2. up' = up \o <<m, Newline>>
          BY <3>1, <1>7
        <5>3. InFlight' = Append(InFlight, m)
          BY <5>1, <5>2, <1>3, <1>12, MessageAdded
        <5>4. Reading /\ Reading'
          BY <4>3, <1>1, <1>5, StillReading
        <5>5. PICK f \in Seq(Events) : f = InFlight
          BY ArrivingTypes
        <5>6. PICK r \in Seq(Events) : r = rx_queue
          BY ArrivingTypes
        <5>7. m \in Events
          BY <1>3 DEF Events
        <5>8. Append(f, m) \in Seq(Events)
          BY <5>7, AppendProperties
        <5>9. f \o << >> = f /\ Append(f, m) \o << >> = Append(f, m)
          BY <5>8, ConcatEmptySeq
        <5>10. Arriving = f /\ Arriving' = Append(f, m)
          BY <5>3, <5>4, <5>5, <5>9, <1>5, ArrivingIs, ArrivingIsNext
        <5>11. r \o Append(f, m) = Append(r \o f, m)
          BY <5>7, LastIn
        <5> QED
          BY <4>3, <5>6, <5>10, <5>11, <1>1 DEF ToTb
      <4> QED
        BY <4>1, <4>2, <4>3
    <3>3. Streams!PeerSends(m)
      <4>1. /\ UNCHANGED <<polled, taken>> /\ (~stop)' = ~stop /\ (~PeerGone)' = ~PeerGone
            /\ (~stop /\ ~PeerGone /\ ~garbled)' = (~stop /\ ~PeerGone /\ ~garbled)
            /\ ~PeerGone
        BY <1>1, <2>3
      <4> QED
        BY <4>1, <3>2, <1>4 DEF Streams!PeerSends, Streams!Arrives
    <3> QED
      BY <3>3 DEF Streams!Next
  <2> QED
    BY <2>4, <2>5, <1>11, <1>14
<1> QED
  BY <1>13, <1>14

-------------------------------------------------------------------------------
LEMMA StreamsInit == Init => Streams!Init
<1> SUFFICES ASSUME Init PROVE Streams!Init
  OBVIOUS
<1>1. /\ buf = << >> /\ up = << >> /\ down = << >> /\ peer_buf = << >> /\ rx_queue = << >>
      /\ polled = << >> /\ taken = << >> /\ stop = FALSE /\ garbled = FALSE
      /\ rd_pc = "unborn" /\ sock = "none"
  BY DEF Init
<1>2. ~PeerGone /\ Reading /\ ~Sending /\ EndMark = << >>
  BY <1>1 DEF PeerGone, Reading, Sending, EndMark
<1>3. PICK e \in Seq(Tokens) : e = << >> /\ e \o e = e /\ Len(e) = 0
  <2>1. << >> \in Seq(Tokens) /\ << >> \o << >> = << >> /\ Len(<< >>) = 0
    BY EmptySeq
  <2> QED
    BY <2>1
<1>4. InLines(e) = << >>
  <2>1. \A i \in 1 .. Len(e) : e[i] # Newline
    BY <1>3
  <2> QED
    BY <2>1, NothingThere
<1>5. InFlight = << >>
  BY <1>1, <1>3, <1>4 DEF InFlight, InLines
<1>6. ToTb = << >>
  BY <1>1, <1>2, <1>3, <1>5, ArrivingIs DEF ToTb
<1>7. Sent(e) = << >>
  <2>1. IsSent(Sent(e), e)
    <3>1. InPlace(e)
      BY <1>3 DEF InPlace
    <3> QED
      BY <3>1, SentFacts
  <2>2. Sent(e) \in Seq(Msgs) /\ Len(Sent(e)) = 0
    BY <2>1, <1>3 DEF IsSent
  <2> QED
    BY <2>2
<1>8. ToGem5 = << >>
  BY <1>1, <1>2, <1>3, <1>7, Gem5Is
<1> QED
  BY <1>1, <1>2, <1>6, <1>8 DEF Streams!Init

LEMMA StreamsStep ==
    ASSUME TransportInv, [Next]_vars
    PROVE  [Streams!Next]_(Streams!streamVars)
<1>0. TypeOK /\ ConnectionInv /\ ThreadInv /\ UpInv /\ DownInv
  BY DEF TransportInv
<1>1. CASE Connect \/ ConnectRefused
  BY <1>0, <1>1, ConnectMaps
<1>2. CASE send \/ poll \/ close
  BY <1>0, <1>2, AppMaps
<1>3. CASE Reader
  BY <1>0, <1>3, ReaderMaps
<1>4. CASE Writer
  BY <1>0, <1>4, WriterMaps
<1>5. CASE PeerServes
  BY <1>5, ServesMaps
<1>6. CASE PeerExits
  BY <1>0, <1>6, PeerExitsMaps
<1>7. CASE PeerReads
  BY <1>0, <1>7, PeerReadsMaps
<1>8. ASSUME NEW text \in {encode_msg(lines + 1), encode_msg(Bad), <<Newline>>},
             PeerWrites(text)
      PROVE  [Streams!Next]_(Streams!streamVars)
  BY <1>0, <1>8, PeerWritesMaps
<1>9. CASE UNCHANGED vars
  <2>1. UNCHANGED <<appVars, rdVars, wrVars, up, down, peerVars>>
    BY <1>9 DEF vars
  <2>2. /\ UNCHANGED <<sock, stop, polled, rd_pc, buf, rx_queue, wr_pc, wr_rest, tx_queue, up,
                       down, peer_buf, taken, garbled, peer>>
    BY <2>1 DEF appVars, rdVars, wrVars, peerVars
  <2>3. /\ (PeerGone' <=> PeerGone) /\ (Sending' <=> Sending) /\ (Reading' <=> Reading)
        /\ InFlight' = InFlight
    BY <2>2 DEF PeerGone, Sending, Reading, InFlight
  <2>4. EndMark' = EndMark
    BY <2>2, <2>3 DEF EndMark
  <2>5. Arriving' = Arriving
    BY <2>2, <2>3, <2>4, ArrivingIs, ArrivingIsNext DEF Reading
  <2>6. ToTb' = ToTb
    BY <2>2, <2>5 DEF ToTb
  <2>7. ToGem5' = ToGem5
    BY <2>2, <2>3, Gem5Same
  <2> QED
    BY <2>2, <2>3, <2>6, <2>7, Stutters
<1> QED
  BY <1>1, <1>2, <1>3, <1>4, <1>5, <1>6, <1>7, <1>8, <1>9 DEF Next, Reader, Writer

(***************************************************************************)
(* The transport implements the two streams of messages: nothing is lost,  *)
(* doubled, reordered or made up between send and the peer or between the  *)
(* peer and poll, however recv cuts the bytes and wherever close or the    *)
(* end of the peer falls between the steps of the reader and the writer;   *)
(* PeerClosed is reported once, behind all that the peer had sent, and not *)
(* at all behind a line the reader thread has died of.                     *)
(***************************************************************************)
THEOREM StreamsImplemented == Spec => ImplementsStreams
<1>1. TransportInv /\ [Next]_vars => [Streams!Next]_(Streams!streamVars)
  BY StreamsStep
<1> QED
  BY <1>1, StreamsInit, TransportInvariant, PTL DEF Spec, ImplementsStreams, Streams!Spec
===============================================================================
