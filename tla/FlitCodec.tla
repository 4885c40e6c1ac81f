------------------------------- MODULE FlitCodec ------------------------------
(***************************************************************************)
(* chi_flit.py: the four wire layouts and the conversions between a flit   *)
(* and the word on the link's pins.  ChiLinkDriver drives packed words,    *)
(* ChiMonitor and observe_tx unpack what they sample; on the TX channels   *)
(* the DUT is taken to pack as pack_txrsp and pack_txdat do.               *)
(*                                                                         *)
(* A number is the set of the positions of its one bits: shifting left is  *)
(* adding to the positions, masking is intersection, `|` is union.  A byte *)
(* vector is a sequence of numbers.  A flit has the fields its channel     *)
(* carries; the others never reach the wire.                               *)
(***************************************************************************)
EXTENDS Integers, Sequences

CONSTANTS
    Inputs,         \* the [ch, flit] that are sent
    None            \* Python's None

VARIABLES
    ch, flit,       \* the channel, and the flit its sender has
    word,           \* the pins, or None while no flit is valid
    seen            \* the flit the monitor publishes, or None

vars == <<ch, flit, word, seen>>
-------------------------------------------------------------------------------
Field(lsb, width) == [lsb |-> lsb, width |-> width]

RXREQ_LAYOUT == [
    qos |-> Field(0, 4), tgtid |-> Field(4, 11), srcid |-> Field(15, 11),
    txnid |-> Field(26, 12), return_nid |-> Field(38, 11),
    return_txn_id |-> Field(50, 12), opcode |-> Field(62, 7), size |-> Field(69, 3),
    addr |-> Field(72, 48), non_secure |-> Field(120, 1),
    allow_retry |-> Field(122, 1), order |-> Field(123, 2),
    memattr_ewa |-> Field(129, 1), memattr_device |-> Field(130, 1),
    memattr_cacheable |-> Field(131, 1), memattr_allocate |-> Field(132, 1),
    trace_tag |-> Field(146, 1), user |-> Field(158, 4)]

RXDAT_LAYOUT == [
    qos |-> Field(0, 4), tgtid |-> Field(4, 11), srcid |-> Field(15, 11),
    txnid |-> Field(26, 12), home_nid |-> Field(38, 11), opcode |-> Field(49, 4),
    resp_err |-> Field(53, 2), resp |-> Field(55, 3), data_source |-> Field(58, 4),
    dbid |-> Field(65, 12), ccid |-> Field(77, 2), data_id |-> Field(79, 2),
    trace_tag |-> Field(93, 1), byte_enable |-> Field(98, 32), data |-> Field(130, 256)]

TXRSP_LAYOUT == [
    qos |-> Field(0, 4), tgtid |-> Field(4, 11), srcid |-> Field(15, 11),
    txnid |-> Field(26, 12), opcode |-> Field(38, 5), resp_err |-> Field(43, 2),
    resp |-> Field(45, 3), forward_state |-> Field(48, 3), cbusy |-> Field(51, 3),
    dbid |-> Field(54, 12), pcrdtype |-> Field(66, 4), tag_op |-> Field(70, 2),
    trace_tag |-> Field(72, 1), data_event |-> Field(73, 2)]

TXDAT_LAYOUT == [
    qos |-> Field(0, 4), tgtid |-> Field(4, 11), srcid |-> Field(15, 11),
    txnid |-> Field(26, 12), home_nid |-> Field(38, 11), opcode |-> Field(49, 4),
    resp_err |-> Field(53, 2), resp |-> Field(55, 3), data_source |-> Field(58, 4),
    dbid |-> Field(65, 12), ccid |-> Field(77, 2), data_id |-> Field(79, 2),
    trace_tag |-> Field(93, 1), data |-> Field(130, 256), data_check |-> Field(386, 32),
    poison |-> Field(418, 4), chunk_valid |-> Field(422, 2)]

\* The layout and the width of the word of each channel.
Link == [
    rxreq |-> [layout |-> RXREQ_LAYOUT, width |-> 172],
    rxdat |-> [layout |-> RXDAT_LAYOUT, width |-> 426],
    txrsp |-> [layout |-> TXRSP_LAYOUT, width |-> 75],
    txdat |-> [layout |-> TXDAT_LAYOUT, width |-> 426]]

Channels == {"rxreq", "rxdat", "txrsp", "txdat"}
-------------------------------------------------------------------------------
field_mask(width) == 0 .. width - 1

\* Mutant: a value wider than its field is not cut.
placed_uncut(value, f) == {b + f.lsb : b \in value}

placed(value, f) == {b + f.lsb : b \in value \cap field_mask(f.width)}

pack(layout, values, width) ==
    (UNION {placed(values[n], layout[n]) : n \in DOMAIN layout}) \cap field_mask(width)

unpack(layout, w) ==
    [n \in DOMAIN layout |-> {b \in field_mask(layout[n].width) : b + layout[n].lsb \in w}]

\* Mutant: big-endian.
bytes_to_int_be(bytes) ==
    UNION {{8 * (Len(bytes) - i) + b : b \in bytes[i] \cap 0 .. 7} : i \in DOMAIN bytes}

\* Mutant: an entry is a flag and has one bit.
bytes_to_int_flags(bytes) == {8 * (i - 1) : i \in {j \in DOMAIN bytes : bytes[j] # {}}}

\* Little-endian byte vectors.
bytes_to_int(bytes) ==
    UNION {{8 * (i - 1) + b : b \in bytes[i] \cap 0 .. 7} : i \in DOMAIN bytes}

int_to_bytes(value, nbytes) ==
    [i \in 1 .. nbytes |-> {b \in 0 .. 7 : 8 * (i - 1) + b \in value}]

int_bool(value) == IF value = {} THEN {} ELSE {0}

bit(value, i) == IF i \in value THEN {0} ELSE {}
-------------------------------------------------------------------------------
(***************************************************************************)
(* The conversions of the four channels.                                   *)
(***************************************************************************)
MemattrBit == [memattr_ewa |-> 0, memattr_device |-> 1, memattr_cacheable |-> 2,
               memattr_allocate |-> 3]
Memattrs == DOMAIN MemattrBit
Flags == {"non_secure", "trace_tag"}
Vectors == {"data", "byte_enable", "chunk_valid"}

\* The values of a channel's fields on the wire, from a flit f.
rxreq_values(f) == [n \in DOMAIN RXREQ_LAYOUT |->
    IF n \in Flags THEN int_bool(f[n])
    ELSE IF n \in Memattrs THEN bit(f["memattr"], MemattrBit[n])
    ELSE IF n = "return_txn_id" /\ f[n] = None THEN f["txnid"] ELSE f[n]]

pack_rxreq(f) == pack(RXREQ_LAYOUT, rxreq_values(f), 172)

unpack_rxreq(w) ==
    LET f == unpack(RXREQ_LAYOUT, w)
    IN  [n \in (DOMAIN f \ Memattrs) \cup {"memattr"} |->
            IF n = "memattr" THEN {MemattrBit[m] : m \in {k \in Memattrs : 0 \in f[k]}}
                             ELSE f[n]]

dat_value(f, n) ==
    IF n \in Flags THEN int_bool(f[n]) ELSE
    IF n \in Vectors THEN bytes_to_int(f[n]) ELSE f[n]

rxdat_values(f) == [n \in DOMAIN RXDAT_LAYOUT |-> dat_value(f, n)]

pack_rxdat(f) == pack(RXDAT_LAYOUT, rxdat_values(f), 426)

unpack_rxdat(w) ==
    LET f == unpack(RXDAT_LAYOUT, w)
    IN  [n \in DOMAIN f |->
            IF n \in Vectors THEN int_to_bytes(f[n], 32) ELSE f[n]]

txrsp_values(f) == [n \in DOMAIN TXRSP_LAYOUT |->
    IF n \in Flags THEN int_bool(f[n]) ELSE f[n]]

pack_txrsp(f) == pack(TXRSP_LAYOUT, txrsp_values(f), 75)

unpack_txrsp(w) == unpack(TXRSP_LAYOUT, w)

\* data_check and poison are in the layout and in no flit.
NoFlit == {"data_check", "poison"}

txdat_values(f) == [n \in DOMAIN TXDAT_LAYOUT |->
    IF n \in NoFlit THEN {} ELSE dat_value(f, n)]

pack_txdat(f) == pack(TXDAT_LAYOUT, txdat_values(f), 426)

unpack_txdat(w) ==
    LET f == unpack(TXDAT_LAYOUT, w)
    IN  [n \in DOMAIN f \ NoFlit |->
            IF n \in Vectors
              THEN int_to_bytes(f[n], IF n = "chunk_valid" THEN 2 ELSE 32) ELSE f[n]]
-------------------------------------------------------------------------------
(***************************************************************************)
(* A flit crosses the link: the sender drives the pins, the monitor of the *)
(* channel samples them and publishes what it unpacks.                     *)
(***************************************************************************)
FlitFields(c) ==
    IF c = "rxreq" THEN (DOMAIN RXREQ_LAYOUT \ Memattrs) \cup {"memattr"}
                   ELSE DOMAIN Link[c].layout \ NoFlit

\* Numbers of any width, byte vectors of at most a beat.
FlitOK(c, f) ==
    /\ DOMAIN f = FlitFields(c)
    /\ \A n \in FlitFields(c) :
          IF n \in Vectors
            THEN /\ f[n] \in Seq(SUBSET Nat)
                 /\ Len(f[n]) <= (IF n = "chunk_valid" THEN 2 ELSE 32)
            ELSE \/ n = "return_txn_id" /\ f[n] = None
                 \/ f[n] \in SUBSET Nat

ASSUME CodecAssumption ==
    \A in \in Inputs : in.ch \in Channels /\ FlitOK(in.ch, in.flit)

Init ==
    /\ \E in \in Inputs : ch = in.ch /\ flit = in.flit
    /\ word = None /\ seen = None

packed(c, f) ==
    CASE c = "rxreq" -> pack_rxreq(f)
      [] c = "rxdat" -> pack_rxdat(f)
      [] c = "txrsp" -> pack_txrsp(f)
      [] c = "txdat" -> pack_txdat(f)

unpacked(c, w) ==
    CASE c = "rxreq" -> unpack_rxreq(w)
      [] c = "rxdat" -> unpack_rxdat(w)
      [] c = "txrsp" -> unpack_txrsp(w)
      [] c = "txdat" -> unpack_txdat(w)

drive ==
    /\ word = None
    /\ word' = packed(ch, flit)
    /\ UNCHANGED <<ch, flit, seen>>

monitor ==
    /\ word # None /\ seen = None
    /\ seen' = unpacked(ch, word)
    /\ UNCHANGED <<ch, flit, word>>

Next == drive \/ monitor

Spec == Init /\ [][Next]_vars
-------------------------------------------------------------------------------
\* The pins carry a word of the channel's width, with 0 in every bit that is
\* not of a field ("Fields not listed are reserved / not consumed by the DUT
\* and are packed as zero", chi_flit.py:486-487).
TypeOK ==
    /\ ch \in Channels
    /\ word # None =>
          /\ word \subseteq field_mask(Link[ch].width)
          /\ \A b \in word : \E n \in DOMAIN Link[ch].layout :
                b - Link[ch].layout[n].lsb \in field_mask(Link[ch].layout[n].width)

(***************************************************************************)
(* Every field of the flit arrives as it was sent, a number cut to the     *)
(* width it has on the wire and data byte for byte, and no field shows in  *)
(* another one.  Nothing is said of the two vectors that have an entry per *)
(* lane and a bit per lane on the wire: they do not arrive as they were    *)
(* sent (see LanesEnabled).                                                *)
(***************************************************************************)
LaneVectors == {"byte_enable", "chunk_valid"}

Width(c, n) == IF n = "memattr" THEN 4 ELSE Link[c].layout[n].width

Cut(c, n, value) == value \cap field_mask(Width(c, n))

Arrives(c, f, g) ==
    /\ \A n \in DOMAIN f \cap (Vectors \ LaneVectors) : \A i \in DOMAIN f[n] :
          g[n][i] = f[n][i] \cap 0 .. 7
    /\ \A n \in DOMAIN f \cap Flags : g[n] = int_bool(f[n])
    /\ \A n \in DOMAIN f \ (Vectors \cup Flags) :
          IF n = "return_txn_id" /\ f[n] = None
            THEN g[n] = g["txnid"] ELSE g[n] = Cut(c, n, f[n])

SeenAsSent == seen # None => Arrives(ch, flit, seen)

(***************************************************************************)
(* byte_enable has a byte per lane in a flit (chi_flit.py:433-434) and a   *)
(* bit per lane on the wire, so pack puts 8 bits of each entry where there *)
(* is room for one, and only the first 4 entries count.  What the agent    *)
(* sends comes out right all the same: 32 entries of 0xFF enable every     *)
(* lane at the DUT (snf_agent.py:434), 32 entries of 0 none.               *)
(***************************************************************************)
LanesEnabled ==
    word # None /\ ch = "rxdat" =>
        LET lanes == unpack(RXDAT_LAYOUT, word).byte_enable
        IN  \A entry \in {0 .. 7, {}} :
                flit.byte_enable = [i \in 1 .. 32 |-> entry] =>
                    lanes = IF entry = {} THEN {} ELSE 0 .. 31
===============================================================================
