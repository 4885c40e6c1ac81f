---------------------------- MODULE FlitCodecProofs ---------------------------
(***************************************************************************)
(* Every flit crosses the link unharmed, and no reserved bit is ever set:  *)
(* SeenAsSent and TypeOK for every value of Inputs.                        *)
(***************************************************************************)
EXTENDS FlitCodec, TLAPS

\* The fields of a layout lie within the word and apart from each other.
WellFormed(layout, width) ==
    /\ \A n \in DOMAIN layout :
          /\ layout[n].lsb \in Nat /\ layout[n].width \in Nat
          /\ layout[n].lsb + layout[n].width <= width
    /\ \A m, n \in DOMAIN layout :
          \/ m = n
          \/ layout[m].lsb + layout[m].width <= layout[n].lsb
          \/ layout[n].lsb + layout[n].width <= layout[m].lsb

\* The four layouts of chi_flit.py are well formed.
LEMMA RxreqWellFormed == WellFormed(RXREQ_LAYOUT, 172)
  BY SMTT(60) DEF WellFormed, RXREQ_LAYOUT, Field

LEMMA RxdatWellFormed == WellFormed(RXDAT_LAYOUT, 426)
  BY SMTT(60) DEF WellFormed, RXDAT_LAYOUT, Field

LEMMA TxrspWellFormed == WellFormed(TXRSP_LAYOUT, 75)
  BY SMTT(60) DEF WellFormed, TXRSP_LAYOUT, Field

LEMMA TxdatWellFormed == WellFormed(TXDAT_LAYOUT, 426)
  BY SMTT(60) DEF WellFormed, TXDAT_LAYOUT, Field

\* unpack is the inverse of pack on a well-formed layout, up to the width of
\* each field.
LEMMA RoundTrip ==
  ASSUME NEW layout, NEW width \in Nat, WellFormed(layout, width),
         NEW values, \A n \in DOMAIN layout : values[n] \in SUBSET Nat,
         NEW n \in DOMAIN layout
  PROVE  unpack(layout, pack(layout, values, width))[n]
            = values[n] \cap field_mask(layout[n].width)
<1> DEFINE w == pack(layout, values, width)
           f == layout[n]
<1>1. /\ f.lsb \in Nat /\ f.width \in Nat /\ f.lsb + f.width <= width
      /\ values[n] \in SUBSET Nat
  BY DEF WellFormed
<1>2. unpack(layout, w)[n] = {b \in field_mask(f.width) : b + f.lsb \in w}
  BY DEF unpack
<1>3. ASSUME NEW b \in field_mask(f.width), b \in values[n]
      PROVE  b + f.lsb \in w
  <2>1. b + f.lsb \in placed(values[n], f)
    BY <1>3 DEF placed
  <2>2. b + f.lsb \in field_mask(width)
    BY <1>1 DEF field_mask
  <2> QED BY <2>1, <2>2 DEF pack
<1>4. ASSUME NEW b \in field_mask(f.width), b + f.lsb \in w
      PROVE  b \in values[n]
  <2>1. PICK m \in DOMAIN layout : b + f.lsb \in placed(values[m], layout[m])
    BY <1>4 DEF pack
  <2>2. PICK c \in values[m] \cap field_mask(layout[m].width) :
            b + f.lsb = c + layout[m].lsb
    BY <2>1 DEF placed
  <2>3. /\ layout[m].lsb \in Nat /\ layout[m].width \in Nat
        /\ \/ m = n
           \/ layout[m].lsb + layout[m].width <= f.lsb
           \/ f.lsb + f.width <= layout[m].lsb
    BY DEF WellFormed
  <2>4. /\ b \in Nat /\ b < f.width
        /\ c \in Nat /\ c < layout[m].width
    BY <1>1, <2>3 DEF field_mask
  <2>5. m = n
    BY <1>1, <2>2, <2>3, <2>4
  <2> QED BY <1>1, <2>2, <2>4, <2>5
<1> HIDE DEF w, f
<1>5. {b \in field_mask(f.width) : b + f.lsb \in w} = values[n] \cap field_mask(f.width)
  BY <1>3, <1>4
<1> QED BY <1>2, <1>5 DEF w, f

-------------------------------------------------------------------------------
(***************************************************************************)
(* Byte vectors.                                                           *)
(***************************************************************************)
LEMMA BytesAreNumber ==
  ASSUME NEW bytes \in Seq(SUBSET Nat)
  PROVE  bytes_to_int(bytes) \in SUBSET Nat
<1> SUFFICES ASSUME NEW x \in bytes_to_int(bytes) PROVE x \in Nat
  OBVIOUS
<1>1. PICK i \in DOMAIN bytes, b \in 0 .. 7 : x = 8 * (i - 1) + b
  BY DEF bytes_to_int
<1> QED BY <1>1

\* A bit of an entry is a bit of the number.
LEMMA ByteBit ==
  ASSUME NEW bytes \in Seq(SUBSET Nat),
         NEW i \in 1 .. Len(bytes), NEW b \in 0 .. 7, b \in bytes[i]
  PROVE  8 * (i - 1) + b \in bytes_to_int(bytes)
<1> DEFINE v == bytes_to_int(bytes)
<1>1. i \in DOMAIN bytes /\ b \in bytes[i] \cap 0 .. 7
  OBVIOUS
<1>2. 8 * (i - 1) + b \in v
  BY <1>1 DEF bytes_to_int
<1> QED BY <1>2

\* A byte vector comes back entry by entry, as far as the field is wide.
LEMMA BytesRoundTrip ==
  ASSUME NEW bytes \in Seq(SUBSET Nat), NEW k \in Nat, Len(bytes) <= k,
         NEW w \in Nat, NEW i \in 1 .. Len(bytes), NEW b \in 0 .. 7
  PROVE  b \in int_to_bytes(bytes_to_int(bytes) \cap field_mask(w), k)[i]
            <=> b \in bytes[i] /\ 8 * (i - 1) + b < w
<1> DEFINE v == bytes_to_int(bytes)
<1>1. i \in 1 .. k
  OBVIOUS
<1>2. b \in int_to_bytes(v \cap field_mask(w), k)[i]
         <=> 8 * (i - 1) + b \in v /\ 8 * (i - 1) + b \in field_mask(w)
  BY <1>1 DEF int_to_bytes
<1>3. 8 * (i - 1) + b \in field_mask(w) <=> 8 * (i - 1) + b < w
  BY <1>1 DEF field_mask
<1>4. ASSUME b \in bytes[i] PROVE 8 * (i - 1) + b \in v
  BY <1>4, ByteBit
<1>5. ASSUME 8 * (i - 1) + b \in v PROVE b \in bytes[i]
  <2>1. PICK j \in 1 .. Len(bytes), c \in 0 .. 7 :
            c \in bytes[j] /\ 8 * (i - 1) + b = 8 * (j - 1) + c
    <3>1. DOMAIN bytes = 1 .. Len(bytes)
      OBVIOUS
    <3>2. \E j \in DOMAIN bytes : \E c \in bytes[j] \cap 0 .. 7 :
              8 * (i - 1) + b = 8 * (j - 1) + c
      BY <1>5 DEF bytes_to_int
    <3> QED BY <3>1, <3>2, Zenon
  <2>2. i \in Nat /\ j \in Nat
    OBVIOUS
  <2>3. 8 * (i - 1) + b = 8 * (j - 1) + c
    BY <2>1
  <2>4. i = j /\ b = c
    <3>1. b - c = 8 * (j - i)
      BY <2>2, <2>3
    <3>2. i = j
      BY <2>2, <3>1
    <3> QED BY <2>2, <3>1, <3>2
  <2> QED BY <2>1, <2>4
<1> HIDE DEF v
<1> QED BY <1>2, <1>3, <1>4, <1>5 DEF v

-------------------------------------------------------------------------------
(***************************************************************************)
(* The four channels.                                                      *)
(***************************************************************************)
LEMMA BoolFits == \A x : int_bool(x) \cap field_mask(1) = int_bool(x)
  BY DEF int_bool, field_mask

\* A response arrives as it was sent.
LEMMA TxrspArrives ==
  ASSUME NEW f, FlitOK("txrsp", f)
  PROVE  Arrives("txrsp", f, unpack_txrsp(pack_txrsp(f)))
<1> DEFINE L == TXRSP_LAYOUT
           v == txrsp_values(f)
           g == unpack(L, pack(L, v, 75))
<1>1. /\ DOMAIN f = DOMAIN L
      /\ {"return_txn_id", "memattr", "non_secure"} \cap DOMAIN L = {}
      /\ DOMAIN L \cap Vectors = {}
      /\ L["trace_tag"].width = 1
      /\ Link["txrsp"].layout = L
  BY DEF FlitOK, FlitFields, Link, NoFlit, Vectors, TXRSP_LAYOUT, Field
<1>2. \A n \in DOMAIN L : f[n] \in SUBSET Nat
  BY <1>1 DEF FlitOK
<1>3. \A n \in DOMAIN L : v[n] \in SUBSET Nat
  BY <1>2 DEF int_bool, txrsp_values
<1>4. \A n \in DOMAIN L : g[n] = v[n] \cap field_mask(L[n].width)
  <2> HIDE DEF v
  <2> QED BY <1>3, TxrspWellFormed, RoundTrip
<1>5. unpack_txrsp(pack_txrsp(f)) = g
  BY DEF unpack_txrsp, pack_txrsp
<1> HIDE DEF L, g
<1>6. \A n \in DOMAIN L \cap Flags : g[n] = int_bool(f[n])
  <2>1. \A n \in DOMAIN L \cap Flags : v[n] = int_bool(f[n]) /\ L[n].width = 1
    BY <1>1 DEF L, Flags, txrsp_values
  <2> QED BY <1>4, <2>1, BoolFits
<1>7. \A n \in DOMAIN L \ Flags : g[n] = Cut("txrsp", n, f[n])
  BY <1>1, <1>4 DEF L, Cut, Width, txrsp_values
<1> QED BY <1>1, <1>5, <1>6, <1>7 DEF Arrives

\* So does a request.
LEMMA RxreqArrives ==
  ASSUME NEW f, FlitOK("rxreq", f)
  PROVE  Arrives("rxreq", f, unpack_rxreq(pack_rxreq(f)))
<1> DEFINE L == RXREQ_LAYOUT
           v == rxreq_values(f)
           u == unpack(L, pack(L, v, 172))
           g == unpack_rxreq(pack_rxreq(f))
<1>1. /\ DOMAIN f = (DOMAIN L \ Memattrs) \cup {"memattr"}
      /\ "memattr" \notin DOMAIN L
      /\ DOMAIN L \cap Vectors = {} /\ "memattr" \notin Vectors \cup Flags
      /\ Memattrs \subseteq DOMAIN L /\ Memattrs \cap Flags = {}
      /\ \A n \in Flags \cup Memattrs : L[n].width = 1
      /\ "txnid" \in DOMAIN L \ (Memattrs \cup Flags)
      /\ L["txnid"].width = L["return_txn_id"].width
      /\ Link["rxreq"].layout = L
  BY DEF FlitOK, FlitFields, Link, Vectors, Flags, Memattrs, MemattrBit, RXREQ_LAYOUT, Field
<1>2. /\ \A n \in DOMAIN L \ Memattrs :
             f[n] \in SUBSET Nat \/ (n = "return_txn_id" /\ f[n] = None)
      /\ f["memattr"] \in SUBSET Nat /\ f["txnid"] \in SUBSET Nat
  BY <1>1 DEF FlitOK
<1>3. \A n \in DOMAIN L : v[n] \in SUBSET Nat
  BY <1>1, <1>2 DEF int_bool, bit, rxreq_values
<1>4. DOMAIN u = DOMAIN L /\ \A n \in DOMAIN L : u[n] = v[n] \cap field_mask(L[n].width)
  <2> HIDE DEF v
  <2> QED BY <1>3, RxreqWellFormed, RoundTrip DEF unpack
<1>5. /\ g["memattr"] = {MemattrBit[m] : m \in {k \in Memattrs : 0 \in u[k]}}
      /\ \A n \in DOMAIN L \ Memattrs : g[n] = u[n]
  BY <1>1, <1>4 DEF unpack_rxreq, pack_rxreq
<1>6. g["memattr"] = Cut("rxreq", "memattr", f["memattr"])
  <2>1. \A k \in Memattrs : 0 \in u[k] <=> MemattrBit[k] \in f["memattr"]
    BY <1>1, <1>4 DEF rxreq_values, bit, field_mask
  <2>2. \A i \in 0 .. 3 : \E k \in Memattrs : MemattrBit[k] = i
    BY DEF Memattrs, MemattrBit
  <2>3. \A k \in Memattrs : MemattrBit[k] \in 0 .. 3
    BY DEF Memattrs, MemattrBit
  <2> HIDE DEF u, g
  <2>4. g["memattr"] = f["memattr"] \cap 0 .. 3
    BY <1>5, <2>1, <2>2, <2>3
  <2> QED BY <2>4 DEF Cut, Width, field_mask
<1> HIDE DEF L, u, g
<1>7. \A n \in DOMAIN f \cap Flags : g[n] = int_bool(f[n])
  <2>1. \A n \in DOMAIN f \cap Flags :
           n \in DOMAIN L \ Memattrs /\ v[n] = int_bool(f[n]) /\ L[n].width = 1
    BY <1>1 DEF L, rxreq_values
  <2> QED BY <1>4, <1>5, <2>1, BoolFits
<1>8. \A n \in (DOMAIN L \ (Memattrs \cup Flags)) :
         IF n = "return_txn_id" /\ f[n] = None
           THEN g[n] = g["txnid"] ELSE g[n] = Cut("rxreq", n, f[n])
  <2>1. \A n \in DOMAIN L \ (Memattrs \cup Flags) :
           /\ g[n] = v[n] \cap field_mask(L[n].width)
           /\ v[n] = IF n = "return_txn_id" /\ f[n] = None THEN f["txnid"] ELSE f[n]
           /\ n # "memattr" /\ Width("rxreq", n) = L[n].width
    BY <1>1, <1>4, <1>5 DEF L, Width, rxreq_values
  <2>2. g["txnid"] = f["txnid"] \cap field_mask(L["txnid"].width)
    BY <1>1, <2>1
  <2>3. \A n \in DOMAIN L \ (Memattrs \cup Flags) :
           Cut("rxreq", n, f[n]) = f[n] \cap field_mask(L[n].width)
    BY <2>1 DEF Cut
  <2> HIDE DEF v
  <2> TAKE n \in DOMAIN L \ (Memattrs \cup Flags)
  <2>4. CASE n = "return_txn_id" /\ f[n] = None
    BY <1>1, <2>1, <2>2, <2>4
  <2>5. CASE ~(n = "return_txn_id" /\ f[n] = None)
    <3>1. v[n] = f[n]
      BY <2>1, <2>5
    <3>2. g[n] = Cut("rxreq", n, f[n])
      BY <2>1, <2>3, <3>1
    <3> QED BY <2>5, <3>2
  <2> QED BY <2>4, <2>5
<1> QED BY <1>1, <1>6, <1>7, <1>8 DEF Arrives, g

\* A beat of data keeps its 256 bits.
LEMMA BeatRoundTrip ==
  ASSUME NEW bytes \in Seq(SUBSET Nat), Len(bytes) <= 32, NEW i \in 1 .. Len(bytes)
  PROVE  int_to_bytes(bytes_to_int(bytes) \cap field_mask(256), 32)[i] = bytes[i] \cap 0 .. 7
<1> DEFINE seen_bytes == int_to_bytes(bytes_to_int(bytes) \cap field_mask(256), 32)
<1>1. i \in 1 .. 32
  OBVIOUS
<1>2. seen_bytes[i] \subseteq 0 .. 7
  BY <1>1 DEF int_to_bytes
<1>3. ASSUME NEW b \in 0 .. 7
      PROVE  b \in seen_bytes[i] <=> b \in bytes[i]
  <2>1. b \in seen_bytes[i] <=> b \in bytes[i] /\ 8 * (i - 1) + b < 256
    BY BytesRoundTrip
  <2> QED BY <1>1, <2>1
<1> QED BY <1>2, <1>3

\* What a data flit puts on the wire: numbers, whatever the field.
LEMMA DatValue ==
  ASSUME NEW f, NEW n, n # "return_txn_id", NEW k \in Nat,
         IF n \in Vectors THEN f[n] \in Seq(SUBSET Nat) /\ Len(f[n]) <= k
                          ELSE f[n] \in SUBSET Nat
  PROVE  dat_value(f, n) \in SUBSET Nat
<1>1. CASE n \in Flags
  BY <1>1 DEF dat_value, int_bool
<1>2. CASE n \notin Flags /\ n \in Vectors
  BY <1>2, BytesAreNumber DEF dat_value
<1>3. CASE n \notin Flags /\ n \notin Vectors
  BY <1>3 DEF dat_value
<1> QED BY <1>1, <1>2, <1>3

\* Write data arrives as it was sent.
LEMMA RxdatArrives ==
  ASSUME NEW f, FlitOK("rxdat", f)
  PROVE  Arrives("rxdat", f, unpack_rxdat(pack_rxdat(f)))
<1> DEFINE L == RXDAT_LAYOUT
           v == rxdat_values(f)
           u == unpack(L, pack(L, v, 426))
           g == unpack_rxdat(pack_rxdat(f))
           len == 32
<1>1. /\ DOMAIN f = DOMAIN L
      /\ {"return_txn_id", "memattr", "chunk_valid"} \cap DOMAIN L = {}
      /\ \A n \in DOMAIN L \cap Flags : L[n].width = 1
      /\ \A n \in DOMAIN L : L[n].width \in Nat
      /\ Vectors \cap Flags = {}
      /\ Link["rxdat"].layout = L
      /\ L["data"].width = 256 /\ "data" \in Vectors
  BY DEF FlitOK, FlitFields, Link, NoFlit, Vectors, Flags, RXDAT_LAYOUT, Field
<1>2. \A n \in DOMAIN L :
         IF n \in Vectors THEN f[n] \in Seq(SUBSET Nat) /\ Len(f[n]) <= len
                          ELSE f[n] \in SUBSET Nat
  BY <1>1 DEF FlitOK
<1>3. \A n \in DOMAIN L : v[n] = dat_value(f, n) /\ v[n] \in SUBSET Nat
  <2> HIDE DEF L
  <2>1. \A n \in DOMAIN L : dat_value(f, n) \in SUBSET Nat
    BY <1>1, <1>2, DatValue
  <2> QED BY <2>1 DEF rxdat_values, L
<1>4. DOMAIN u = DOMAIN L /\ \A n \in DOMAIN L : u[n] = v[n] \cap field_mask(L[n].width)
  <2> HIDE DEF v
  <2> QED BY <1>3, RxdatWellFormed, RoundTrip DEF unpack
<1>5. \A n \in DOMAIN L : g[n] = IF n \in Vectors THEN int_to_bytes(u[n], len) ELSE u[n]
  BY <1>4 DEF unpack_rxdat, pack_rxdat
<1> HIDE DEF L, v, u, g
<1>6. ASSUME NEW n \in DOMAIN f \cap (Vectors \ LaneVectors), NEW i \in DOMAIN f[n]
      PROVE  g[n][i] = f[n][i] \cap 0 .. 7
  <2>1. n = "data"
    BY DEF Vectors, LaneVectors
  <2>2. n \in DOMAIN L /\ n \in Vectors /\ n \notin Flags /\ L[n].width = 256
    BY <1>1, <2>1
  <2>3. f[n] \in Seq(SUBSET Nat) /\ Len(f[n]) <= 32 /\ i \in 1 .. Len(f[n])
    BY <1>2, <2>1, <2>2
  <2>4. v[n] = bytes_to_int(f[n])
    BY <1>3, <2>2 DEF dat_value
  <2>5. u[n] = bytes_to_int(f[n]) \cap field_mask(256)
    BY <1>4, <2>2, <2>4
  <2>6. g[n] = int_to_bytes(u[n], 32)
    BY <1>5, <2>1, <2>2
  <2> QED BY <2>3, <2>5, <2>6, BeatRoundTrip
<1>7. \A n \in DOMAIN f \cap Flags : g[n] = int_bool(f[n])
  <2>1. \A n \in DOMAIN f \cap Flags :
           g[n] = v[n] \cap field_mask(1) /\ v[n] = int_bool(f[n])
    BY <1>1, <1>3, <1>4, <1>5 DEF dat_value
  <2> QED BY <2>1, BoolFits
<1>8. \A n \in DOMAIN f \ (Vectors \cup Flags) :
         n # "return_txn_id" /\ g[n] = Cut("rxdat", n, f[n])
  BY <1>1, <1>3, <1>4, <1>5 DEF dat_value, Cut, Width
<1> QED BY <1>6, <1>7, <1>8 DEF Arrives, g

\* So does read data.
LEMMA TxdatArrives ==
  ASSUME NEW f, FlitOK("txdat", f)
  PROVE  Arrives("txdat", f, unpack_txdat(pack_txdat(f)))
<1> DEFINE L == TXDAT_LAYOUT
           D == DOMAIN L \ NoFlit
           v == txdat_values(f)
           u == unpack(L, pack(L, v, 426))
           g == unpack_txdat(pack_txdat(f))
           len(n) == IF n = "chunk_valid" THEN 2 ELSE 32
<1>1. /\ DOMAIN f = D
      /\ {"return_txn_id", "memattr"} \cap DOMAIN L = {}
      /\ \A n \in DOMAIN L \cap Flags : L[n].width = 1
      /\ \A n \in DOMAIN L : L[n].width \in Nat
      /\ Vectors \cap Flags = {}
      /\ Link["txdat"].layout = L
      /\ L["data"].width = 256 /\ "data" \in Vectors
  BY DEF FlitOK, FlitFields, Link, NoFlit, Vectors, Flags, TXDAT_LAYOUT, Field
<1>2. \A n \in D :
         IF n \in Vectors THEN f[n] \in Seq(SUBSET Nat) /\ Len(f[n]) <= len(n)
                          ELSE f[n] \in SUBSET Nat
  BY <1>1 DEF FlitOK
<1>3. /\ \A n \in D : v[n] = dat_value(f, n)
      /\ \A n \in DOMAIN L : v[n] \in SUBSET Nat
  <2> HIDE DEF L
  <2>1. \A n \in D : dat_value(f, n) \in SUBSET Nat
    BY <1>1, <1>2, DatValue
  <2> QED BY <2>1 DEF txdat_values, L
<1>4. DOMAIN u = DOMAIN L /\ \A n \in DOMAIN L : u[n] = v[n] \cap field_mask(L[n].width)
  <2> HIDE DEF v
  <2> QED BY <1>3, TxdatWellFormed, RoundTrip DEF unpack
<1>5. \A n \in D : g[n] = IF n \in Vectors THEN int_to_bytes(u[n], len(n)) ELSE u[n]
  BY <1>4 DEF unpack_txdat, pack_txdat
<1> HIDE DEF L, v, u, g
<1>6. ASSUME NEW n \in DOMAIN f \cap (Vectors \ LaneVectors), NEW i \in DOMAIN f[n]
      PROVE  g[n][i] = f[n][i] \cap 0 .. 7
  <2>1. n = "data"
    BY DEF Vectors, LaneVectors
  <2>2. n \in D /\ n \in DOMAIN L /\ n \in Vectors /\ n \notin Flags /\ L[n].width = 256
    BY <1>1, <2>1
  <2>3. f[n] \in Seq(SUBSET Nat) /\ Len(f[n]) <= 32 /\ i \in 1 .. Len(f[n])
    BY <1>2, <2>1, <2>2
  <2>4. v[n] = bytes_to_int(f[n])
    BY <1>3, <2>2 DEF dat_value
  <2>5. u[n] = bytes_to_int(f[n]) \cap field_mask(256)
    BY <1>4, <2>2, <2>4
  <2>6. g[n] = int_to_bytes(u[n], 32)
    BY <1>5, <2>1, <2>2
  <2> QED BY <2>3, <2>5, <2>6, BeatRoundTrip
<1>7. \A n \in DOMAIN f \cap Flags : g[n] = int_bool(f[n])
  <2>1. \A n \in DOMAIN f \cap Flags :
           g[n] = v[n] \cap field_mask(1) /\ v[n] = int_bool(f[n])
    BY <1>1, <1>3, <1>4, <1>5 DEF dat_value
  <2> QED BY <2>1, BoolFits
<1>8. \A n \in DOMAIN f \ (Vectors \cup Flags) :
         n # "return_txn_id" /\ g[n] = Cut("txdat", n, f[n])
  BY <1>1, <1>3, <1>4, <1>5 DEF dat_value, Cut, Width
<1> QED BY <1>6, <1>7, <1>8 DEF Arrives, g

-------------------------------------------------------------------------------
(***************************************************************************)
(* The inductive invariant: the pins carry the packed flit, and what the   *)
(* monitor published is what it unpacked from them.                        *)
(***************************************************************************)
CodecInv ==
    /\ ch \in Channels /\ FlitOK(ch, flit)
    /\ word # None => word = packed(ch, flit)
    /\ seen # None => seen = unpacked(ch, packed(ch, flit))

\* What a channel's monitor unpacks from a packed flit is the flit.
LEMMA EveryFlitArrives ==
  ASSUME NEW c \in Channels, NEW f, FlitOK(c, f)
  PROVE  Arrives(c, f, unpacked(c, packed(c, f)))
<1>1. CASE c = "rxreq"
  BY <1>1, RxreqArrives, Zenon DEF packed, unpacked
<1>2. CASE c = "rxdat"
  BY <1>2, RxdatArrives, Zenon DEF packed, unpacked
<1>3. CASE c = "txrsp"
  BY <1>3, TxrspArrives, Zenon DEF packed, unpacked
<1>4. CASE c = "txdat"
  BY <1>4, TxdatArrives, Zenon DEF packed, unpacked
<1> QED BY <1>1, <1>2, <1>3, <1>4 DEF Channels

\* The invariant holds at first and is kept by both steps.
LEMMA CodecInductive ==
  /\ Init => CodecInv
  /\ CodecInv /\ [Next]_vars => CodecInv'
<1>1. Init => CodecInv
  BY CodecAssumption DEF Init, CodecInv
<1>2. CodecInv /\ [Next]_vars => CodecInv'
  <2> SUFFICES ASSUME CodecInv, [Next]_vars PROVE CodecInv'
    OBVIOUS
  <2>1. CASE drive
    BY <2>1 DEF CodecInv, drive
  <2>2. CASE monitor
    BY <2>2 DEF CodecInv, monitor
  <2>3. CASE UNCHANGED vars
    BY <2>3 DEF CodecInv, vars
  <2> QED BY <2>1, <2>2, <2>3 DEF Next
<1> QED BY <1>1, <1>2

(***************************************************************************)
(* Whatever flit is sent, on whatever channel and with whatever values,    *)
(* wider than their fields or not, the monitor of chi_mon.py publishes the *)
(* flit, numbers cut to their fields and data byte for byte: the two lane  *)
(* vectors aside, pack and unpack of chi_flit.py are inverse on the four   *)
(* layouts.                                                                *)
(***************************************************************************)
THEOREM FlitsArrive == Spec => []SeenAsSent
<1>1. CodecInv => SeenAsSent
  BY EveryFlitArrives DEF CodecInv, SeenAsSent
<1> QED BY CodecInductive, <1>1, PTL DEF Spec

\* A packed word fits its channel, and each of its bits is a bit of a field.
LEMMA PackedInFields ==
  ASSUME NEW layout, NEW width \in Nat, WellFormed(layout, width),
         NEW values, NEW b \in pack(layout, values, width)
  PROVE  /\ b \in field_mask(width)
         /\ \E n \in DOMAIN layout : b - layout[n].lsb \in field_mask(layout[n].width)
<1>1. b \in field_mask(width)
  BY DEF pack
<1>2. PICK n \in DOMAIN layout : b \in placed(values[n], layout[n])
  BY DEF pack
<1>3. PICK c \in field_mask(layout[n].width) : b = c + layout[n].lsb
  BY <1>2 DEF placed
<1>4. c \in Int /\ layout[n].lsb \in Nat
  BY DEF field_mask, WellFormed
<1>5. b - layout[n].lsb = c
  BY <1>3, <1>4
<1> QED BY <1>1, <1>3, <1>5

\* The word of every channel is packed by its own layout.
LEMMA EveryWordPacked ==
  ASSUME NEW c \in Channels, NEW f
  PROVE  /\ WellFormed(Link[c].layout, Link[c].width)
         /\ Link[c].width \in Nat
         /\ \E values : packed(c, f) = pack(Link[c].layout, values, Link[c].width)
<1>1. CASE c = "rxreq"
  <2>1. Link[c].layout = RXREQ_LAYOUT /\ Link[c].width = 172
    BY <1>1 DEF Link
  <2>2. packed(c, f) = pack(RXREQ_LAYOUT, rxreq_values(f), 172)
    BY <1>1, Zenon DEF packed, pack_rxreq
  <2> QED BY <2>1, <2>2, RxreqWellFormed
<1>2. CASE c = "rxdat"
  <2>1. Link[c].layout = RXDAT_LAYOUT /\ Link[c].width = 426
    BY <1>2 DEF Link
  <2>2. packed(c, f) = pack(RXDAT_LAYOUT, rxdat_values(f), 426)
    BY <1>2, Zenon DEF packed, pack_rxdat
  <2> QED BY <2>1, <2>2, RxdatWellFormed
<1>3. CASE c = "txrsp"
  <2>1. Link[c].layout = TXRSP_LAYOUT /\ Link[c].width = 75
    BY <1>3 DEF Link
  <2>2. packed(c, f) = pack(TXRSP_LAYOUT, txrsp_values(f), 75)
    BY <1>3, Zenon DEF packed, pack_txrsp
  <2> QED BY <2>1, <2>2, TxrspWellFormed
<1>4. CASE c = "txdat"
  <2>1. Link[c].layout = TXDAT_LAYOUT /\ Link[c].width = 426
    BY <1>4 DEF Link
  <2>2. packed(c, f) = pack(TXDAT_LAYOUT, txdat_values(f), 426)
    BY <1>4, Zenon DEF packed, pack_txdat
  <2> QED BY <2>1, <2>2, TxdatWellFormed
<1> QED BY <1>1, <1>2, <1>3, <1>4 DEF Channels

(***************************************************************************)
(* Whatever flit is driven, the word on the pins has the channel's width   *)
(* and 0 in every bit that belongs to no field: pack of chi_flit.py sets   *)
(* no reserved bit, however wide the values it is given.                   *)
(***************************************************************************)
THEOREM ReservedBitsZero == Spec => []TypeOK
<1>1. CodecInv => TypeOK
  <2> SUFFICES ASSUME CodecInv, word # None, NEW b \in word
               PROVE  /\ b \in field_mask(Link[ch].width)
                      /\ \E n \in DOMAIN Link[ch].layout :
                            b - Link[ch].layout[n].lsb
                               \in field_mask(Link[ch].layout[n].width)
    BY DEF CodecInv, TypeOK
  <2>1. ch \in Channels /\ word = packed(ch, flit)
    BY DEF CodecInv
  <2>2. PICK values : word = pack(Link[ch].layout, values, Link[ch].width)
    BY <2>1, EveryWordPacked
  <2>3. WellFormed(Link[ch].layout, Link[ch].width) /\ Link[ch].width \in Nat
    BY <2>1, EveryWordPacked
  <2>4. b \in pack(Link[ch].layout, values, Link[ch].width)
    BY <2>2
  <2> QED BY <2>3, <2>4, PackedInFields, Zenon
<1> QED BY CodecInductive, <1>1, PTL DEF Spec

\* The lanes of a packed beat are what its byte_enable is as a number, cut to a
\* bit per lane.
LEMMA RxdatLanes ==
  ASSUME NEW f, FlitOK("rxdat", f)
  PROVE  unpack(RXDAT_LAYOUT, pack_rxdat(f)).byte_enable
            = bytes_to_int(f.byte_enable) \cap 0 .. 31
<1> DEFINE L == RXDAT_LAYOUT
           v == rxdat_values(f)
<1>1. /\ DOMAIN f = DOMAIN L
      /\ {"return_txn_id", "memattr", "chunk_valid"} \cap DOMAIN L = {}
      /\ \A n \in DOMAIN L : L[n].width \in Nat
      /\ L["byte_enable"].width = 32 /\ "byte_enable" \in Vectors
      /\ "byte_enable" \in DOMAIN L /\ "byte_enable" \notin Flags
  BY DEF FlitOK, FlitFields, Link, NoFlit, Vectors, Flags, RXDAT_LAYOUT, Field
<1>2. \A n \in DOMAIN L :
         IF n \in Vectors THEN f[n] \in Seq(SUBSET Nat) /\ Len(f[n]) <= 32
                          ELSE f[n] \in SUBSET Nat
  BY <1>1 DEF FlitOK
<1>3. \A n \in DOMAIN L : v[n] = dat_value(f, n) /\ v[n] \in SUBSET Nat
  <2> HIDE DEF L
  <2>1. \A n \in DOMAIN L : dat_value(f, n) \in SUBSET Nat
    BY <1>1, <1>2, DatValue
  <2> QED BY <2>1 DEF rxdat_values, L
<1>4. unpack(L, pack(L, v, 426))["byte_enable"] = v["byte_enable"] \cap field_mask(32)
  <2> HIDE DEF v
  <2> QED BY <1>1, <1>3, RxdatWellFormed, RoundTrip
<1>5. v["byte_enable"] = bytes_to_int(f["byte_enable"])
  BY <1>1, <1>3 DEF dat_value
<1> QED BY <1>4, <1>5 DEF pack_rxdat, field_mask

(***************************************************************************)
(* The beats of handle_gem5_dat (snf_agent.py:434) enable all 32 lanes of  *)
(* the DUT and a beat of zeroes none, although 28 of the 32 entries are    *)
(* cut away: rxdat's byte_enable has a bit per lane.                       *)
(***************************************************************************)
THEOREM AllLanesEnabled == Spec => []LanesEnabled
<1>1. ASSUME NEW e \in {0 .. 7, {}}
      PROVE  bytes_to_int([i \in 1 .. 32 |-> e]) \cap 0 .. 31 = IF e = {} THEN {} ELSE 0 .. 31
  <2> DEFINE s == [i \in 1 .. 32 |-> e]
  <2>1. \A i \in DOMAIN s : s[i] = e /\ i \in 1 .. 32
    OBVIOUS
  <2>2. CASE e = {}
    BY <2>1, <2>2 DEF bytes_to_int
  <2>3. CASE e = 0 .. 7
    <3>1. ASSUME NEW b \in 0 .. 31 PROVE b \in bytes_to_int(s)
      <4>1. PICK i \in 1 .. 32 : b - 8 * (i - 1) \in 0 .. 7
        <5>1. CASE b < 8
          BY <5>1, 1 \in 1 .. 32
        <5>2. CASE b >= 8 /\ b < 16
          BY <5>2, 2 \in 1 .. 32
        <5>3. CASE b >= 16 /\ b < 24
          BY <5>3, 3 \in 1 .. 32
        <5>4. CASE b >= 24
          BY <5>4, 4 \in 1 .. 32
        <5> QED BY <5>1, <5>2, <5>3, <5>4
      <4>2. i \in DOMAIN s /\ s[i] = 0 .. 7
        BY <2>1, <2>3
      <4>3. b = 8 * (i - 1) + (b - 8 * (i - 1))
        BY <4>1
      <4>4. PICK k \in 0 .. 7 : k = b - 8 * (i - 1)
        BY <4>1
      <4>5. b = 8 * (i - 1) + k /\ k \in s[i] \cap 0 .. 7
        BY <4>2, <4>3, <4>4
      <4>6. 8 * (i - 1) + k \in bytes_to_int(s)
        <5>1. s \in Seq(SUBSET Nat) /\ i \in 1 .. Len(s) /\ k \in s[i]
          BY <2>3, <4>4
        <5> HIDE DEF s
        <5> QED BY <5>1, ByteBit
      <4> QED BY <4>5, <4>6, Zenon
    <3>2. 0 .. 7 # {}
      BY 0 \in 0 .. 7
    <3> QED BY <2>3, <3>1, <3>2
  <2> QED BY <2>2, <2>3
<1>2. CodecInv => LanesEnabled
  <2> SUFFICES ASSUME CodecInv, word # None, ch = "rxdat", NEW e \in {0 .. 7, {}},
                      flit.byte_enable = [i \in 1 .. 32 |-> e]
               PROVE  unpack(RXDAT_LAYOUT, word).byte_enable
                         = IF e = {} THEN {} ELSE 0 .. 31
    BY DEF LanesEnabled
  <2>1. FlitOK("rxdat", flit) /\ word = pack_rxdat(flit)
    BY DEF CodecInv, packed
  <2>2. unpack(RXDAT_LAYOUT, word).byte_enable = bytes_to_int(flit.byte_enable) \cap 0 .. 31
    BY <2>1, RxdatLanes, Zenon
  <2> QED BY <1>1, <2>2, Zenon
<1> QED BY CodecInductive, <1>2, PTL DEF Spec
===============================================================================
