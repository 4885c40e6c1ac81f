---------------------------- MODULE CosimTransport ----------------------------
(***************************************************************************)
(* The testbench's end of the socket: CosimTransport with its reader and   *)
(* writer threads, and the line framing of cosim_protocol.py.  The peer's  *)
(* end reads lines the same way (_recv_line in fake_gem5.py).              *)
(*                                                                         *)
(* A byte stream is a sequence of tokens: a line is the token of its       *)
(* message and Newline, so a recv can end between the two.  Bad is a line  *)
(* that is no JSON; a Newline of its own is an empty line.  The n-th       *)
(* message of a side is the number n; the testbench's last is Bye.         *)
(***************************************************************************)
EXTENDS Integers, Sequences, FiniteSets

CONSTANTS
    Newline, Bad, Bye, PeerClosed,
    MaxWaits,               \* connect's timeout_s in units of 0.5 s
    MaxSends, MaxLines      \* bounds: sends of the testbench, lines of the peer

ASSUME TransportAssumption ==
    /\ {Newline, Bad, Bye, PeerClosed} \cap Nat = {}
    /\ Newline \notin {Bad, Bye, PeerClosed} /\ Bad \notin {Bye, PeerClosed}
    /\ MaxWaits \in Nat /\ MaxSends \in Nat /\ MaxLines \in Nat

VARIABLES
    \* the thread that calls connect, send, poll and close
    app_pc, waited, sends,
    sock,           \* self.sock: "none", "open", "shut" or "closed"
    stop,           \* self._stop
    tx_queue, rx_queue, peer_closed,
    \* the threads
    rd_pc, buf,
    wr_pc, wr_rest, \* what is left of the line in sendall
    \* the socket's two directions, and the peer
    up, down, peer, lines, peer_buf,
    \* histories: what poll and the peer's read have returned; a bad line was sent
    polled, taken, garbled

appVars == <<app_pc, waited, sends, sock, stop, polled>>
rdVars == <<rd_pc, buf, rx_queue, peer_closed>>
wrVars == <<wr_pc, wr_rest, tx_queue>>
peerVars == <<peer, lines, peer_buf, taken, garbled>>
vars == <<appVars, rdVars, wrVars, up, down, peerVars>>

Init ==
    /\ app_pc = "connecting" /\ waited = 0 /\ sends = 0
    /\ sock = "none" /\ stop = FALSE
    /\ tx_queue = << >> /\ rx_queue = << >> /\ peer_closed = FALSE
    /\ rd_pc = "unborn" /\ buf = << >> /\ wr_pc = "unborn" /\ wr_rest = << >>
    /\ up = << >> /\ down = << >>
    /\ peer = "absent" /\ lines = 0 /\ peer_buf = << >>
    /\ polled = << >> /\ taken = << >> /\ garbled = FALSE

-------------------------------------------------------------------------------
(***************************************************************************)
(* Framing.                                                                *)
(***************************************************************************)
encode_msg(m) == <<m, Newline>>

HasLine(b) == \E i \in DOMAIN b : b[i] = Newline

LineEnd(b) == CHOOSE i \in DOMAIN b :
    b[i] = Newline /\ \A j \in 1 .. i - 1 : b[j] # Newline

\* Mutant: the line with its end.
Line_keepends(b) == SubSeq(b, 1, LineEnd(b))

Line(b) == SubSeq(b, 1, LineEnd(b) - 1)

AfterLine(b) == SubSeq(b, LineEnd(b) + 1, Len(b))

\* recv returns any part of what has arrived, in order.
Recv(from, into) ==
    \E n \in 1 .. Len(from) : /\ into' = into \o SubSeq(from, 1, n)
                              /\ from' = SubSeq(from, n + 1, Len(from))

(***************************************************************************)
(* connect: retried until the server is there, or until waited reaches the *)
(* deadline.                                                               *)
(***************************************************************************)
Connect ==
    /\ app_pc = "connecting" /\ peer = "serving"
    /\ app_pc' = "up" /\ sock' = "open"
    /\ rd_pc' = "check" /\ wr_pc' = "check"
    /\ UNCHANGED <<waited, sends, stop, polled, buf, rx_queue, peer_closed, wr_rest,
                   tx_queue, up, down, peerVars>>

ConnectRefused ==
    /\ app_pc = "connecting" /\ peer # "serving"
    /\ \/ waited >= MaxWaits /\ app_pc' = "timed_out" /\ UNCHANGED waited
       \/ waited < MaxWaits /\ waited' = waited + 1 /\ UNCHANGED app_pc
    /\ UNCHANGED <<sends, sock, stop, polled, rdVars, wrVars, up, down, peerVars>>

send ==
    /\ app_pc = "up" /\ sends < MaxSends
    /\ tx_queue' = Append(tx_queue, sends + 1) /\ sends' = sends + 1
    /\ UNCHANGED <<app_pc, waited, sock, stop, polled, rdVars, wr_pc, wr_rest, up, down,
                   peerVars>>

poll ==
    /\ app_pc = "up" /\ rx_queue # << >>
    /\ rx_queue' = Tail(rx_queue) /\ polled' = Append(polled, Head(rx_queue))
    /\ UNCHANGED <<app_pc, waited, sends, sock, stop, rd_pc, buf, peer_closed, wrVars,
                   up, down, peerVars>>

(***************************************************************************)
(* close: bye, 0.2 s for the writer, _stop, shutdown, close, sock = None.  *)
(***************************************************************************)
CloseStep(from, to) == app_pc = from /\ app_pc' = to

close ==
    /\ \/ /\ CloseStep("up", "flushing")
          /\ tx_queue' = Append(tx_queue, Bye) /\ UNCHANGED <<stop, sock>>
       \/ /\ CloseStep("flushing", "stopping")
          /\ stop' = TRUE /\ UNCHANGED <<tx_queue, sock>>
       \/ /\ CloseStep("stopping", "closing")
          /\ sock' = "shut" /\ UNCHANGED <<tx_queue, stop>>
       \/ /\ CloseStep("closing", "dropping")
          /\ sock' = "closed" /\ UNCHANGED <<tx_queue, stop>>
       \/ /\ CloseStep("dropping", "closed")
          /\ sock' = "none" /\ UNCHANGED <<tx_queue, stop>>
    /\ UNCHANGED <<waited, sends, polled, rdVars, wr_pc, wr_rest, up, down, peerVars>>

-------------------------------------------------------------------------------
(***************************************************************************)
(* _reader_main.  `recv` is left by data, by the end of the stream, or by  *)
(* OSError once the socket is closed; self.sock = None and a bad line      *)
(* raise what the thread does not catch, and it dies without a word.       *)
(***************************************************************************)
ReaderGoes(from, to) == rd_pc = from /\ rd_pc' = to

ReaderChecks ==
    /\ \/ stop /\ ReaderGoes("check", "end")
       \/ ~stop /\ ReaderGoes("check", "load")
       \/ sock # "none" /\ ReaderGoes("load", "recv")
       \/ sock = "none" /\ ReaderGoes("load", "died")
    /\ UNCHANGED <<appVars, buf, rx_queue, peer_closed, wrVars, up, down, peerVars>>

ReaderReceives ==
    /\ sock \in {"open", "shut"}
    /\ ReaderGoes("recv", "lines")
    /\ Recv(up, buf)
    /\ UNCHANGED <<appVars, rx_queue, peer_closed, wrVars, down, peerVars>>

ReaderSeesEnd ==
    /\ \/ sock \in {"closed", "none"}
       \/ up = << >> /\ (peer = "closed" \/ sock = "shut")
    /\ ReaderGoes("recv", "end")
    /\ UNCHANGED <<appVars, buf, rx_queue, peer_closed, wrVars, up, down, peerVars>>

\* Mutant: `if` for `while`: one line for each recv.
after_line_if == "check"

\* `while b"\n" in buf`.
after_line == "lines"

ReaderSplits ==
    /\ \/ ~HasLine(buf) /\ ReaderGoes("lines", "check") /\ UNCHANGED <<buf, rx_queue>>
       \/ /\ HasLine(buf)
          /\ buf' = AfterLine(buf)
          /\ \/ /\ Line(buf) = <<Bad>>
                /\ ReaderGoes("lines", "died") /\ UNCHANGED rx_queue
             \/ /\ Line(buf) # <<Bad>>
                /\ rx_queue' = rx_queue \o Line(buf)
                /\ ReaderGoes("lines", after_line)
    /\ UNCHANGED <<appVars, peer_closed, wrVars, up, down, peerVars>>

ReaderEnds ==
    /\ ReaderGoes("end", "done")
    /\ peer_closed' = TRUE
    /\ rx_queue' = Append(rx_queue, PeerClosed)
    /\ UNCHANGED <<appVars, buf, wrVars, up, down, peerVars>>

(***************************************************************************)
(* _writer_main.  sendall may have sent part of the line when it fails.    *)
(* OSError ends the thread, as self.sock = None does.                      *)
(***************************************************************************)
WriterGoes(from, to) == wr_pc = from /\ wr_pc' = to

\* Mutant: `break` for `continue` when get times out.
after_empty_break == "ended"

after_empty == "check"

\* get(timeout=0.1) is left by a message, or by Empty to look at _stop again.
WriterGets ==
    /\ \/ stop /\ WriterGoes("check", "ended") /\ UNCHANGED <<tx_queue, wr_rest>>
       \/ ~stop /\ WriterGoes("check", "get") /\ UNCHANGED <<tx_queue, wr_rest>>
       \/ /\ tx_queue = << >> /\ WriterGoes("get", after_empty)
          /\ UNCHANGED <<tx_queue, wr_rest>>
       \/ /\ tx_queue # << >> /\ WriterGoes("get", "send")
          /\ wr_rest' = encode_msg(Head(tx_queue)) /\ tx_queue' = Tail(tx_queue)
    /\ UNCHANGED <<appVars, rdVars, up, down, peerVars>>

WriterSends ==
    /\ \/ /\ wr_rest = << >> /\ WriterGoes("send", "check")
          /\ UNCHANGED <<wr_rest, down>>
       \/ /\ wr_rest # << >> /\ sock = "open" /\ peer # "closed"
          /\ WriterGoes("send", "send")
          /\ down' = Append(down, Head(wr_rest)) /\ wr_rest' = Tail(wr_rest)
       \/ /\ wr_rest # << >> /\ (sock # "open" \/ peer = "closed")
          /\ WriterGoes("send", "ended")
          /\ UNCHANGED <<wr_rest, down>>
    /\ UNCHANGED <<appVars, rdVars, tx_queue, up, peerVars>>

-------------------------------------------------------------------------------
(***************************************************************************)
(* The peer: it binds its socket at some time, sends lines, and ends at    *)
(* any time, perhaps in the middle of a line.                              *)
(***************************************************************************)
PeerServes ==
    /\ peer = "absent"
    /\ peer' = "serving"
    /\ UNCHANGED <<appVars, rdVars, wrVars, up, down, lines, peer_buf, taken, garbled>>

Linked == peer = "serving" /\ rd_pc # "unborn"

PeerWrites(text) ==
    /\ Linked /\ lines < MaxLines
    /\ sock = "open"
    /\ up' = up \o text /\ lines' = lines + 1
    /\ garbled' = (garbled \/ text = encode_msg(Bad))
    /\ UNCHANGED <<appVars, rdVars, wrVars, down, peer, peer_buf, taken>>

PeerExits ==
    /\ peer = "serving"
    /\ peer' = "closed"
    /\ \E cut \in {<< >>, <<lines + 1>>} :
          up' = IF Linked /\ sock = "open" THEN up \o cut ELSE up
    /\ UNCHANGED <<appVars, rdVars, wrVars, down, lines, peer_buf, taken, garbled>>

\* MessageReader.read: recv until there is a line, skip empty ones.
PeerReads ==
    /\ Linked
    /\ \/ ~HasLine(peer_buf) /\ Recv(down, peer_buf) /\ UNCHANGED taken
       \/ /\ HasLine(peer_buf)
          /\ peer_buf' = AfterLine(peer_buf) /\ taken' = taken \o Line(peer_buf)
          /\ UNCHANGED down
    /\ UNCHANGED <<appVars, rdVars, wrVars, up, peer, lines, garbled>>

Next ==
    \/ Connect \/ ConnectRefused \/ send \/ poll \/ close
    \/ ReaderChecks \/ ReaderReceives \/ ReaderSeesEnd \/ ReaderSplits \/ ReaderEnds
    \/ WriterGets \/ WriterSends
    \/ PeerServes \/ PeerExits \/ PeerReads
    \/ \E text \in {encode_msg(lines + 1), encode_msg(Bad), <<Newline>>} :
          PeerWrites(text)

Spec == Init /\ [][Next]_vars

(***************************************************************************)
(* Fairness: threads run, the runtime polls (its dispatcher does so every  *)
(* cycle), the peer reads, connect's loop goes on.  close, once begun,     *)
(* goes on as well; nobody is obliged to send, to close or to exit.        *)
(***************************************************************************)
Reader == ReaderChecks \/ ReaderReceives \/ ReaderSeesEnd \/ ReaderSplits \/ ReaderEnds
Writer == WriterGets \/ WriterSends

Fairness ==
    /\ WF_vars(Connect \/ ConnectRefused)
    /\ WF_vars(poll)
    /\ WF_vars(app_pc # "up" /\ close)
    /\ WF_vars(Reader) /\ WF_vars(Writer) /\ WF_vars(PeerReads)

FairSpec == Spec /\ Fairness
-------------------------------------------------------------------------------
Tokens == Nat \cup {Bye, Newline, Bad}

\* Every variable has its type.
TypeOK ==
    /\ app_pc \in {"connecting", "timed_out", "up", "flushing", "stopping",
                   "closing", "dropping", "closed"}
    /\ sock \in {"none", "open", "shut", "closed"}
    /\ rd_pc \in {"unborn", "check", "load", "recv", "lines", "end", "done", "died"}
    /\ wr_pc \in {"unborn", "check", "get", "send", "ended"}
    /\ peer \in {"absent", "serving", "closed"}
    /\ waited \in 0 .. MaxWaits /\ sends \in 0 .. MaxSends /\ lines \in 0 .. MaxLines
    /\ stop \in BOOLEAN /\ peer_closed \in BOOLEAN
    /\ tx_queue \in Seq(Nat \cup {Bye})
    /\ rx_queue \in Seq(Nat \cup {PeerClosed})
    /\ buf \in Seq(Tokens) /\ up \in Seq(Tokens)
    /\ wr_rest \in Seq(Tokens) /\ down \in Seq(Tokens) /\ peer_buf \in Seq(Tokens)
    /\ polled \in Seq(Nat \cup {PeerClosed}) /\ taken \in Seq(Nat \cup {Bye})
    /\ garbled \in BOOLEAN

(***************************************************************************)
(* The two streams as their ends see them: what has been taken into a      *)
(* queue, and every whole line that is still on its way, up to a bad one.  *)
(***************************************************************************)
\* Where s has a message with its Newline, and no bad line before it.
Messages(s) == {i \in 1 .. Len(s) - 1 :
    s[i] # Newline /\ s[i + 1] = Newline /\ \A j \in 1 .. i : s[j] # Bad}

\* The k-th of some positions, and what s has at them, in their order.
Upto(P, i) == {j \in P : j <= i}
Nth(P, k) == CHOOSE i \in P : Cardinality(Upto(P, i)) = k
At(s, P) == [k \in 1 .. Cardinality(P) |-> s[Nth(P, k)]]

InFlight == At(buf \o up, Messages(buf \o up))

\* A peer that ends before the connection is made is nobody's peer.
PeerGone == peer = "closed" /\ rd_pc # "unborn"

Arriving ==
    CASE rd_pc \in {"done", "died"} -> << >>
      [] rd_pc = "end" -> <<PeerClosed>>
      [] OTHER -> InFlight \o IF PeerGone /\ ~garbled THEN <<PeerClosed>> ELSE << >>

\* The testbench sends no empty line: every other token is a message.
Sent(s) == [k \in 1 .. Len(s) \div 2 |-> s[2 * k - 1]]

ToTb == IF stop THEN << >> ELSE rx_queue \o Arriving

ToGem5 ==
    IF PeerGone THEN << >>
    ELSE IF sock = "open" /\ ~(stop /\ wr_pc = "ended")
    THEN Sent(peer_buf \o down \o wr_rest) \o tx_queue
    ELSE Sent(peer_buf \o down)

Streams == INSTANCE CosimStream WITH
    TbMsgs <- 1 .. MaxSends \cup {Bye}, PeerMsgs <- 1 .. MaxLines,
    to_tb <- ToTb, to_gem5 <- ToGem5,
    readable <- ~stop /\ ~PeerGone /\ ~garbled,
    tb_open <- ~stop, peer_open <- ~PeerGone

(***************************************************************************)
(* The transport implements the two streams: nothing is lost, doubled,     *)
(* reordered or made up between send and the peer, or between the peer and *)
(* poll, however recv cuts the bytes and wherever close falls between the  *)
(* steps of the threads; the end of the peer is reported once, last.       *)
(***************************************************************************)
ImplementsStreams == Streams!Spec

(***************************************************************************)
(* Whatever is sent and not lost by close is received: in the end nothing  *)
(* is on its way, and the end of the peer has been polled.                 *)
(***************************************************************************)
Drains == <>[](ToTb = << >> /\ ToGem5 = << >>)
===============================================================================
