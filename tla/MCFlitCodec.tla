------------------------------ MODULE MCFlitCodec -----------------------------
EXTENDS FlitCodec

Bytes(n) == IF n = "chunk_valid" THEN 2 ELSE 32

\* The bits of field n that are tried: of a number, those of its width on the
\* wire and the next one.
Bits(c, n) ==
    CASE n \in Vectors -> 8 * Bytes(n)
      [] n = "memattr" -> 5
      [] OTHER -> Link[c].layout[n].width + 1

Value(n, bits) == IF n \in Vectors THEN int_to_bytes(bits, Bytes(n)) ELSE bits

Empty(c) == [n \in FlitFields(c) |-> Value(n, {})]
Full(c) == [n \in FlitFields(c) |-> Value(n, 0 .. Bits(c, n) - 1)]

\* A beat as SnfAgent.handle_gem5_dat sends it: every lane enabled, 0xFF each.
AgentBeat == [Empty("rxdat") EXCEPT !.byte_enable = [i \in 1 .. 32 |-> 0 .. 7]]

\* Flits with one bit set, and flits with all bits set; return_txn_id None too.
Sent ==
    UNION {UNION {{[ch |-> c, flit |-> [Empty(c) EXCEPT ![n] = Value(n, {k})]] :
                      k \in 0 .. Bits(c, n) - 1} : n \in FlitFields(c)} : c \in Channels}
    \cup {[ch |-> c, flit |-> Full(c)] : c \in Channels}
    \cup {[ch |-> "rxdat", flit |-> AgentBeat]}
    \cup {[ch |-> "rxreq", flit |-> [Empty("rxreq") EXCEPT !.return_txn_id = None,
                                                          !.txnid = {k}]] : k \in 0 .. 12}
===============================================================================
