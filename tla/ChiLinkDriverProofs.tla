-------------------------- MODULE ChiLinkDriverProofs -------------------------
(***************************************************************************)
(* What is proved about ChiLinkDriver, for every script, credit depth,     *)
(* FIFO size and timeout: the credits are conserved, every transaction is  *)
(* sampled once and in order, and, when upstream waits for DBIDResp, write *)
(* data carry the DBID of their own write.                                 *)
(*                                                                         *)
(* One inductive invariant, in four parts.  TypeInv adds to TypeOK the     *)
(* types TypeOK is silent about and says what the driver's position tells  *)
(* of the pins and of todo; CreditsConserved is inductive with it.         *)
(* OrderInv numbers the queues: what was sampled, the transaction in hand  *)
(* and item_fifo are consecutive.  DbidInv follows a DBID from the DUT     *)
(* through TXRSP and dbid_by_txn to the data that need it.                 *)
(***************************************************************************)
EXTENDS ChiLinkDriver, SequenceTheorems, TLAPS

InHandPcs == {"dbid", "dbid_wait", "credit", "credit_wait", "hold"}

\* The driver is suspended on a clock edge only where it waits for one; there
\* is a flit on the wire exactly while it holds it; the tasks it starts run
\* before the link leaves "stop".
Position ==
    /\ "drv" \in todo =>
          drv \in {"reset", "linkup", "dbid_wait", "credit_wait", "hold", "raised"}
    /\ drv \in InHandPcs => item # None
    /\ drv \in {"reset", "linkup", "get"} => item = None
    /\ flt # None => drv \in {"hold", "raised"} /\ flt = item
    /\ drv = "hold" => flt = item
    /\ link # "stop" \/ txc # "off" => act # "off"

TypeInv ==
    /\ TypeOK
    /\ script \in Scripts
    /\ dbid_by_txn \in [Wires -> DBIDs \cup {None}]
    /\ rx \in [Channels -> Seq(Flits)]
    /\ crdv \subseteq Channels
    /\ txrsp \in Numbers \cup {None}
    /\ granted \in [Numbers -> DBIDs \cup {None}]
    /\ served \subseteq Numbers
    /\ Position

\* The transaction in the driver's hands, unless the DUT has sampled it.
InHand == IF item = None \/ (flt # None /\ "drv" \in todo) THEN 0 ELSE 1

OrderInv ==
    /\ pushed = Len(got) + InHand + Len(item_fifo)
    /\ item # None => item.n = Len(got) + InHand
    /\ \A i \in 1 .. Len(item_fifo) : item_fifo[i] = Len(got) + InHand + i
    /\ \A c \in Channels : \A i \in 1 .. Len(rx[c]) : rx[c][i].n <= Len(got)
    /\ \A n \in served : n <= Len(got)

\* No later write under the wire id of k has been granted.
LastGranted(k) ==
    \A m \in Numbers :
        m > k /\ script[m].wire = script[k].wire => granted[m] = None

\* The DUT grants writes it has consumed.
GrantedServed ==
    \A k \in Numbers : granted[k] # None => k \in served /\ script[k].ch = "write"

\* What upstream waited for before it put a transaction stays true.
PutReady ==
    \A n \in Numbers : n <= pushed =>
        IF script[n].ch = "dat" THEN granted[WriteOf(n)] # None
                                ELSE SameWire(n) \subseteq served

\* dbid_by_txn holds the last grant of every wire id, unless that one is still
\* on TXRSP.
Recorded ==
    \A k \in Numbers : granted[k] # None /\ LastGranted(k) =>
        \/ dbid_by_txn[script[k].wire] = granted[k]
        \/ txrsp = k /\ "obs" \in todo

OnTxrsp ==
    txrsp # None /\ "obs" \in todo => granted[txrsp] # None /\ LastGranted(txrsp)

\* Data on their way to the driver find their own write's DBID.
DataWaiting ==
    \A n \in Numbers : script[n].ch = "dat" /\ Len(got) < n /\ n <= pushed =>
        dbid_by_txn[script[n].wire] = granted[WriteOf(n)]

ItemDbid ==
    /\ drv \in {"dbid", "dbid_wait"} => script[item.n].ch = "dat"
    /\ item # None /\ item.dbid # None =>
          /\ script[item.n].ch = "dat"
          /\ item.dbid = granted[WriteOf(item.n)]

DbidInv ==
    GrantedServed /\ PutReady /\ Recorded /\ OnTxrsp /\ DataWaiting /\ ItemDbid

-------------------------------------------------------------------------------
LEMMA TypeInit == Init => TypeInv
<1> SUFFICES ASSUME Init PROVE TypeInv
  OBVIOUS
<1>1. script \in Seq([ch : {"read", "write", "dat"}, wire : Nat])
  BY DriverAssumption DEF Init
<1>2. TypeOK
  BY DEF Init, TypeOK, Channels
<1>3. Position
  BY DEF Init, Position, InHandPcs
<1>4. rx \in [Channels -> Seq(Flits)]
  BY DEF Init
<1>5. /\ dbid_by_txn \in [Wires -> DBIDs \cup {None}]
      /\ granted \in [Numbers -> DBIDs \cup {None}]
  BY DEF Init
<1> QED
  BY <1>1, <1>2, <1>3, <1>4, <1>5 DEF Init, TypeInv

\* What the types say of a script and of the heads of the queues.
LEMMA TypeFacts ==
    ASSUME TypeInv
    PROVE  /\ script \in Seq([ch : {"read", "write", "dat"}, wire : Nat])
           /\ Numbers = 1 .. Len(script) /\ Numbers \subseteq Nat
           /\ None \notin Flits /\ None \notin Numbers /\ None \notin DBIDs
           /\ item_fifo # << >> =>
                /\ Head(item_fifo) \in Numbers /\ Tail(item_fifo) \in Seq(Numbers)
                /\ Head(item_fifo) = item_fifo[1]
                /\ Len(Tail(item_fifo)) = Len(item_fifo) - 1
                /\ \A i \in 1 .. Len(item_fifo) - 1 :
                     Tail(item_fifo)[i] = item_fifo[i + 1]
           /\ \A c \in Channels : rx[c] # << >> =>
                /\ Head(rx[c]) \in Flits /\ Tail(rx[c]) \in Seq(Flits)
                /\ Head(rx[c]) = rx[c][1] /\ Len(rx[c]) > 0
                /\ Len(Tail(rx[c])) = Len(rx[c]) - 1
                /\ \A i \in 1 .. Len(rx[c]) - 1 : Tail(rx[c])[i] = rx[c][i + 1]
<1>1. script \in Seq([ch : {"read", "write", "dat"}, wire : Nat])
  BY DriverAssumption DEF TypeInv
<1>2. Numbers = 1 .. Len(script) /\ Numbers \subseteq Nat
  BY <1>1, LenProperties DEF Numbers
<1>3. None \notin Flits /\ None \notin Numbers /\ None \notin DBIDs
  BY <1>2, DriverAssumption DEF Flits
<1>4. item_fifo \in Seq(Numbers) /\ \A c \in Channels : rx[c] \in Seq(Flits)
  BY DEF TypeInv, TypeOK
<1>5. ASSUME item_fifo # << >>
      PROVE  /\ Head(item_fifo) \in Numbers /\ Tail(item_fifo) \in Seq(Numbers)
             /\ Head(item_fifo) = item_fifo[1]
             /\ Len(Tail(item_fifo)) = Len(item_fifo) - 1
             /\ \A i \in 1 .. Len(item_fifo) - 1 :
                  Tail(item_fifo)[i] = item_fifo[i + 1]
  BY <1>4, <1>5, HeadTailProperties, LenProperties
<1>6. ASSUME NEW c \in Channels, rx[c] # << >>
      PROVE  /\ Head(rx[c]) \in Flits /\ Tail(rx[c]) \in Seq(Flits)
             /\ Head(rx[c]) = rx[c][1] /\ Len(rx[c]) > 0
             /\ Len(Tail(rx[c])) = Len(rx[c]) - 1
             /\ \A i \in 1 .. Len(rx[c]) - 1 : Tail(rx[c])[i] = rx[c][i + 1]
  BY <1>4, <1>6, HeadTailProperties, LenProperties
<1> QED
  BY <1>1, <1>2, <1>3, <1>5, <1>6

(***************************************************************************)
(* Types and positions are preserved by every step.                        *)
(***************************************************************************)
LEMMA TypeStep == TypeInv /\ [Next]_vars => TypeInv'
<1> SUFFICES ASSUME TypeInv, [Next]_vars PROVE TypeInv'
  OBVIOUS
<1>b. Numbers' = Numbers /\ Flits' = Flits /\ Wires' = Wires
  <2>1. script' = script
    BY DEF vars, tbVars, dutVars, Next, Put, ReleaseReset, Drive, drv_reset, drv_link_up,
           get, wait_dbid, wait_credit, drv_edge, link_activation_task,
           tx_credit_task, rx_credit_task, observe_tx, RisingEdge
  <2> QED
    BY <2>1 DEF Numbers, Flits, Wires
<1>c. None \notin Flits /\ None \notin Numbers /\ None \notin DBIDs
  BY TypeFacts
<1>d. item_fifo # << >> =>
        Head(item_fifo) \in Numbers /\ Tail(item_fifo) \in Seq(Numbers)
  BY TypeFacts
<1>e. \A c \in Channels : rx[c] # << >> =>
        Head(rx[c]) \in Flits /\ Tail(rx[c]) \in Seq(Flits)
  BY TypeFacts
<1>1. CASE UNCHANGED vars
  BY <1>b, <1>1 DEF vars, tbVars, dutVars, TypeInv, TypeOK, Position
<1>2. CASE Put
  <2>1. item_fifo' \in Seq(Numbers) /\ pushed' \in Nat
    BY <1>b, <1>2, AppendProperties DEF Put, TypeInv, TypeOK
  <2> QED
    BY <1>b, <1>2, <2>1 DEF Put, tbVars, dutVars, TypeInv, TypeOK, Position
<1>3. CASE ReleaseReset
  BY <1>b, <1>3 DEF ReleaseReset, tbVars, dutVars, TypeInv, TypeOK, Position
<1> DEFINE Clocks == waited \in [{"drv", "act", "txc"} -> Nat]
<1>a. \A c \in {"drv", "act", "txc"} : Waits(c) \/ Rewinds(c) => Clocks'
  BY DEF Waits, Rewinds, TypeInv, TypeOK
<1>4. CASE drv_reset
  <2>1. Clocks'
    BY <1>b, <1>4, <1>a DEF drv_reset, SeesReset
  <2> QED
    BY <1>b, <1>4, <2>1 DEF drv_reset, Resumes, dutVars, TypeInv, TypeOK, Position, InHandPcs
<1>5. CASE drv_link_up
  <2>1. Clocks'
    BY <1>b, <1>5, <1>a DEF drv_link_up
  <2>2. drv' \in {"get", "linkup", "raised"}
    BY <1>b, <1>5 DEF drv_link_up
  <2> QED
    BY <1>b, <1>5, <2>1, <2>2 DEF drv_link_up, Resumes, dutVars, TypeInv, TypeOK, Position, InHandPcs
<1>6. CASE get
  <2>1. item' \in Flits /\ item' # None
    <3>1. item' = [n |-> Head(item_fifo), dbid |-> None]
      BY <1>6 DEF get
    <3>2. item' \in Flits
      BY <1>6, <1>d, <3>1 DEF get, Flits
    <3> QED
      BY <1>c, <3>2
  <2>2. drv' \in {"dbid", "credit"} /\ item_fifo' \in Seq(Numbers)
    BY <1>d, <1>6 DEF get
  <2> QED
    BY <1>b, <1>6, <2>1, <2>2 DEF get, dutVars, TypeInv, TypeOK, Position,
                       InHandPcs
<1>7. CASE wait_dbid
  <2>1. Clocks'
    BY <1>b, <1>7, <1>a DEF wait_dbid, TypeInv, TypeOK
  <2>2. item \in Flits /\ item # None
    BY <1>b, <1>7 DEF wait_dbid, TypeInv, TypeOK, Position, InHandPcs, Flits
  <2>3. item' \in Flits
    <3>1. script[item.n].wire \in Wires
      BY <2>2 DEF Flits, Wires
    <3>2. dbid_by_txn[script[item.n].wire] \in DBIDs \cup {None}
      BY <3>1 DEF TypeInv
    <3> QED
      BY <1>7, <2>2, <3>2 DEF wait_dbid, Flits
  <2>4. drv' \in {"dbid_wait", "credit"}
    BY <1>b, <1>7 DEF wait_dbid
  <2>5. drv = "dbid" /\ flt' = flt /\ todo' = todo /\ flt = None /\ "drv" \notin todo
    BY <1>b, <1>7 DEF wait_dbid, TypeInv, Position
  <2>6. Position'
    BY <1>b, <1>c, <1>7, <2>3, <2>4, <2>5 DEF wait_dbid, dutVars, TypeInv, Position,
                       InHandPcs
  <2> QED
    BY <1>b, <1>7, <2>1, <2>3, <2>4, <2>5, <2>6
       DEF wait_dbid, dutVars, TypeInv, TypeOK
<1>8. CASE wait_credit
  <2> DEFINE c == Channel(item.n)
  <2>1. item \in Flits /\ item # None /\ c \in Channels
    BY <1>b, <1>8 DEF wait_credit, TypeInv, TypeOK, Position, InHandPcs, Flits, Channel,
                Channels
  <2>2. Clocks'
    BY <1>b, <1>8, <1>a DEF wait_credit, TypeInv, TypeOK
  <2>3. credits' \in [Channels -> Nat]
    <3>1. credits \in [Channels -> Nat]
      BY DEF TypeInv, TypeOK
    <3>2. \/ credits' = credits
          \/ credits[c] > 0 /\ credits' = [credits EXCEPT ![c] = @ - 1]
      BY <1>8 DEF wait_credit, has_credit, take_credit
    <3> HIDE DEF c
    <3> QED
      BY <2>1, <3>1, <3>2
  <2>4. \/ drv' = "hold" /\ flt' = item
        \/ drv' \in {"raised", "credit_wait"} /\ flt' = flt
    BY <1>b, <1>8 DEF wait_credit
  <2>5. drv = "credit" /\ flt = None /\ "drv" \notin todo
    BY <1>b, <1>8 DEF wait_credit, TypeInv, Position
  <2> QED
    BY <1>b, <1>8, <2>1, <2>2, <2>3, <2>4, <2>5
       DEF wait_credit, dutVars, TypeInv, TypeOK, Position, InHandPcs
<1>9. CASE drv_edge
  <2>1. Clocks'
    BY <1>b, <1>9, <1>a DEF drv_edge, after_wait, TypeInv, TypeOK
  <2> QED
    BY <1>b, <1>9, <2>1 DEF drv_edge, end_of_flit, Resumes, dutVars, TypeInv, TypeOK, Position, InHandPcs
<1>10. CASE link_activation_task
  <2>1. Clocks'
    BY <1>b, <1>10, <1>a DEF link_activation_task, SeesReset, TypeInv, TypeOK
  <2>2. act' \in {"reset", "asking", "acked"}
    BY <1>b, <1>10 DEF link_activation_task
  <2> QED
    BY <1>b, <1>10, <2>1, <2>2 DEF link_activation_task, Resumes, dutVars, TypeInv, TypeOK,
                       Position
<1>11. CASE tx_credit_task
  <2>1. Clocks'
    BY <1>b, <1>11, <1>a DEF tx_credit_task, TypeInv, TypeOK
  <2>2. drv' \in {drv, "raised"} /\ txc' \in {"linkup", "on"}
    BY <1>b, <1>11 DEF tx_credit_task
  <2>3. txc # "off" /\ todo' \subseteq todo
    BY <1>b, <1>11 DEF tx_credit_task, Resumes
  <2> QED
    BY <1>b, <1>11, <2>1, <2>2, <2>3 DEF tx_credit_task, dutVars, TypeInv, TypeOK,
                       Position, InHandPcs
<1>12. CASE rx_credit_task
  <2>1. credits' \in [Channels -> Nat]
    BY <1>b, <1>12 DEF rx_credit_task, counted, TypeInv, TypeOK
  <2> QED
    BY <1>b, <1>12, <2>1 DEF rx_credit_task, Resumes, dutVars, TypeInv, TypeOK, Position
<1>13. CASE observe_tx
  <2>1. dbid_by_txn' \in [Wires -> DBIDs \cup {None}]
    BY <1>b, <1>13 DEF observe_tx, record_dbid, TypeInv
  <2> QED
    BY <1>b, <1>13, <2>1 DEF observe_tx, Resumes, dutVars, TypeInv, TypeOK, Position
<1>14. CASE RisingEdge
  <2>1. PICK pop \in SUBSET {c \in Channels : rx[c] # << >>} :
         /\ rx' = [c \in Channels |->
                     (IF c \in pop THEN Tail(rx[c]) ELSE rx[c]) \o Sampled(c)]
         /\ served' = served \cup {Head(rx[c]).n : c \in pop}
         /\ crdv' \in SUBSET {c \in Channels : due[c] > 0}
         /\ due' = [c \in Channels |->
                      IF link # "run" /\ link' = "run" THEN RxDepth
                      ELSE due[c] + (IF c \in pop THEN 1 ELSE 0)
                                  - (IF c \in crdv' THEN 1 ELSE 0)]
    BY <1>b, <1>14 DEF RisingEdge
  <2>2. \A c \in Channels : Sampled(c) \in Seq(Flits)
    BY DEF Sampled, TypeInv, TypeOK
  <2>3. rx' \in [Channels -> Seq(Flits)]
    <3>1. \A c \in Channels :
            (IF c \in pop THEN Tail(rx[c]) ELSE rx[c]) \in Seq(Flits)
      BY DEF TypeInv
    <3> QED
      BY <2>1, <2>2, <3>1, ConcatProperties
  <2>4. due' \in [Channels -> Nat]
    <3>1. \A c \in Channels : due[c] \in Nat /\ (c \in crdv' => due[c] > 0)
      BY <2>1 DEF TypeInv, TypeOK
    <3>2. RxDepth \in Nat
      BY DriverAssumption
    <3> QED
      BY <2>1, <3>1, <3>2
  <2>5. served' \subseteq Numbers /\ crdv' \subseteq Channels
    <3>1. \A c \in pop : Head(rx[c]).n \in Numbers
      BY <1>e DEF Flits
    <3> QED
      BY <2>1, <3>1 DEF TypeInv
  <2>6. /\ txrsp' \in Numbers \cup {None}
        /\ granted' \in [Numbers -> DBIDs \cup {None}]
    BY <1>b, <1>14 DEF RisingEdge, Grants, TypeInv
  <2>7. got' \in Seq(Numbers)
    <3>1. flt # None => flt.n \in Numbers
      BY DEF TypeInv, TypeOK, Flits
    <3> QED
      BY <1>14, <3>1, AppendProperties DEF RisingEdge, TypeInv, TypeOK
  <2>8. todo' \subseteq {"drv", "act", "txc", "crd", "obs"}
        /\ ("drv" \in todo' => drv # "get")
    BY <1>b, <1>14 DEF RisingEdge, EdgeTasks
  <2>9. /\ link' \in {"stop", "req", "run"}
        /\ link' # "stop" => link # "stop" \/ act # "off"
    BY <1>b, <1>14 DEF RisingEdge, LinkMoves, TypeInv, TypeOK
  <2>10. Position'
    BY <1>b, <1>14, <2>8, <2>9 DEF RisingEdge, Suspended, tbVars, TypeInv, Position, InHandPcs
  <2> QED
    BY <1>b, <1>14, <2>3, <2>4, <2>5, <2>6, <2>7, <2>8, <2>9, <2>10
       DEF RisingEdge, tbVars, TypeInv, TypeOK
<1> QED
  BY <1>b, <1>1, <1>2, <1>3, <1>4, <1>5, <1>6, <1>7, <1>8, <1>9, <1>10, <1>11, <1>12,
     <1>13, <1>14 DEF Next, Drive

-------------------------------------------------------------------------------
(***************************************************************************)
(* Credits.  Steps that move no credit: neither the counters, the wires    *)
(* nor the adapters change, and no task that stands for one on the wire    *)
(* resumes.                                                                *)
(***************************************************************************)
LEMMA CreditFrame ==
    ASSUME CreditsConserved,
           UNCHANGED <<script, credits, rx, due, link, crdv, flt>>,
           "crd" \in todo' <=> "crd" \in todo,
           flt # None => ("drv" \in todo' <=> "drv" \in todo)
    PROVE  CreditsConserved'
<1>1. \A c \in Channels : OnWire(c)' = OnWire(c)
  BY DEF OnWire, Channel
<1> QED
  BY <1>1 DEF CreditsConserved

\* The clock edge: the flit on the wire enters the adapter, popped entries
\* become credits due, and returned ones are on the wire.
LEMMA CreditEdge ==
    ASSUME TypeInv, CreditsConserved, RisingEdge
    PROVE  CreditsConserved'
<1>1. PICK pop \in SUBSET {c \in Channels : rx[c] # << >>} :
         /\ rx' = [c \in Channels |->
                     (IF c \in pop THEN Tail(rx[c]) ELSE rx[c]) \o Sampled(c)]
         /\ crdv' \in SUBSET {c \in Channels : due[c] > 0}
         /\ due' = [c \in Channels |->
                      IF link # "run" /\ link' = "run" THEN RxDepth
                      ELSE due[c] + (IF c \in pop THEN 1 ELSE 0)
                                  - (IF c \in crdv' THEN 1 ELSE 0)]
  BY DEF RisingEdge
<1>2. /\ todo = {} /\ script' = script /\ credits' = credits /\ flt' = flt
      /\ drv # "raised" /\ todo' = EdgeTasks
  BY DEF RisingEdge, Suspended, tbVars
<1>3. flt # None => "drv" \in todo'
  BY <1>2 DEF EdgeTasks, TypeInv, Position
<1>4. link # "stop" => "crd" \in todo'
  BY <1>2 DEF EdgeTasks, TypeInv, Position
<1>5. link = "run" => link' = "run"
  BY DEF RisingEdge, LinkMoves
<1> SUFFICES ASSUME NEW c \in Channels
             PROVE  credits'[c] + OnWire(c)' + Len(rx'[c]) + due'[c]
                      = IF link' = "run" THEN RxDepth ELSE 0
  BY DEF CreditsConserved
<1> DEFINE flits == IF flt # None /\ Channel(flt.n) = c THEN 1 ELSE 0
           popped == IF c \in pop THEN 1 ELSE 0
           returned == IF c \in crdv' THEN 1 ELSE 0
<1>6. credits[c] \in Nat /\ due[c] \in Nat /\ Len(rx[c]) \in Nat /\ RxDepth \in Nat
  BY DriverAssumption, LenProperties DEF TypeInv, TypeOK
<1>7. credits[c] + flits + Len(rx[c]) + due[c] = IF link = "run" THEN RxDepth ELSE 0
  BY <1>2 DEF CreditsConserved, OnWire
<1>8. OnWire(c)' = returned
  <2>1. c \in crdv' => "crd" \in todo'
    BY <1>1, <1>4, <1>6, <1>7
  <2> QED
    BY <1>2, <1>3, <2>1 DEF OnWire
<1>9. Len(rx'[c]) = Len(rx[c]) - popped + flits
  <2>1. Sampled(c) \in Seq(Flits) /\ Len(Sampled(c)) = flits
    BY DEF Sampled, TypeInv, TypeOK
  <2>2. rx[c] \in Seq(Flits)
    BY DEF TypeInv
  <2>3. c \in pop => Tail(rx[c]) \in Seq(Flits) /\ Len(Tail(rx[c])) = Len(rx[c]) - 1
    BY TypeFacts
  <2> DEFINE kept == IF c \in pop THEN Tail(rx[c]) ELSE rx[c]
  <2>4. kept \in Seq(Flits) /\ Len(kept) = Len(rx[c]) - popped
    BY <1>6, <2>2, <2>3
  <2>5. rx'[c] = kept \o Sampled(c)
    BY <1>1
  <2> HIDE DEF kept, flits, popped
  <2>6. Len(kept \o Sampled(c)) = Len(kept) + Len(Sampled(c))
    BY <2>1, <2>4, ConcatProperties
  <2> QED
    BY <2>1, <2>4, <2>5, <2>6
<1>10. CASE link # "run" /\ link' = "run"
  <2>1. credits[c] = 0 /\ flits = 0 /\ Len(rx[c]) = 0 /\ due[c] = 0
    BY <1>6, <1>7, <1>10
  <2>2. c \notin pop /\ c \notin crdv'
    BY <1>1, <2>1, EmptySeq DEF TypeInv
  <2> QED
    BY <1>1, <1>2, <1>6, <1>8, <1>9, <1>10, <2>1, <2>2
<1>11. CASE ~(link # "run" /\ link' = "run")
  <2>1. due'[c] = due[c] + popped - returned
    BY <1>1, <1>11
  <2> HIDE DEF flits, popped, returned
  <2>2. flits \in Nat /\ popped \in Nat /\ returned \in Nat
    BY DEF flits, popped, returned
  <2>3. credits[c] + returned + (Len(rx[c]) - popped + flits)
          + (due[c] + popped - returned) = credits[c] + flits + Len(rx[c]) + due[c]
    BY <1>6, <2>2
  <2>4. (IF link' = "run" THEN RxDepth ELSE 0) = IF link = "run" THEN RxDepth ELSE 0
    BY <1>5, <1>11
  <2> QED
    BY <1>2, <1>7, <1>8, <1>9, <2>1, <2>3, <2>4
<1> QED
  BY <1>10, <1>11

(***************************************************************************)
(* CreditsConserved is inductive relative to the types and positions.      *)
(***************************************************************************)
LEMMA CreditStep == TypeInv /\ CreditsConserved /\ [Next]_vars => CreditsConserved'
<1> SUFFICES ASSUME TypeInv, CreditsConserved, [Next]_vars PROVE CreditsConserved'
  OBVIOUS
<1>1. CASE UNCHANGED vars \/ Put \/ ReleaseReset \/ get \/ wait_dbid
  BY <1>1, CreditFrame DEF vars, tbVars, dutVars, Put, ReleaseReset, get, wait_dbid
<1>2. CASE drv_reset \/ drv_link_up
  BY <1>2, CreditFrame DEF drv_reset, drv_link_up, Resumes, dutVars, TypeInv, Position
<1>3. CASE wait_credit
  <2> DEFINE k == Channel(item.n)
  <2>1. CASE UNCHANGED <<credits, flt>>
    BY <1>3, <2>1, CreditFrame DEF wait_credit, dutVars
  <2>2. CASE has_credit(k) /\ take_credit(k) /\ flt' = item
    <3>1. /\ UNCHANGED <<script, rx, due, link, crdv, todo>>
          /\ flt = None /\ "drv" \notin todo /\ item # None
      BY <1>3 DEF wait_credit, dutVars, TypeInv, Position, InHandPcs
    <3> SUFFICES ASSUME NEW c \in Channels
                 PROVE  credits'[c] + OnWire(c)' = credits[c] + OnWire(c)
      BY <3>1 DEF CreditsConserved
    <3>2. Channel(flt.n)' = k
      BY <2>2, <3>1 DEF Channel
    <3>3. OnWire(c)' = OnWire(c) + (IF c = k THEN 1 ELSE 0)
      BY <2>2, <3>1, <3>2 DEF OnWire
    <3>4. credits'[c] = credits[c] - (IF c = k THEN 1 ELSE 0) /\ credits[c] \in Nat
      BY <2>2 DEF take_credit, TypeInv, TypeOK
    <3>5. OnWire(c) \in Nat
      BY DEF OnWire
    <3> QED
      BY <3>3, <3>4, <3>5
  <2> QED
    BY <1>3, <2>1, <2>2 DEF wait_credit
<1>4. CASE drv_edge
  <2>1. CASE drv # "hold"
    BY <1>4, <2>1, CreditFrame DEF drv_edge, Resumes, dutVars, TypeInv, Position
  <2>2. CASE drv = "hold"
    <3>1. /\ UNCHANGED <<script, credits, rx, due, link, crdv>>
          /\ "drv" \in todo /\ todo' = todo \ {"drv"} /\ flt' = None
      BY <1>4, <2>2 DEF drv_edge, end_of_flit, Resumes, dutVars
    <3>2. \A c \in Channels : OnWire(c)' = OnWire(c)
      BY <3>1 DEF OnWire
    <3> QED
      BY <3>1, <3>2 DEF CreditsConserved
  <2> QED
    BY <2>1, <2>2
<1>5. CASE link_activation_task \/ tx_credit_task \/ observe_tx
  BY <1>5, CreditFrame DEF link_activation_task, tx_credit_task, observe_tx, Resumes,
                           dutVars
<1>6. CASE rx_credit_task
  <2>1. /\ UNCHANGED <<script, rx, due, link, crdv, flt>>
        /\ "crd" \in todo /\ todo' = todo \ {"crd"}
    BY <1>6 DEF rx_credit_task, Resumes, dutVars
  <2> SUFFICES ASSUME NEW c \in Channels
               PROVE  credits'[c] + OnWire(c)' = credits[c] + OnWire(c)
    BY <2>1 DEF CreditsConserved
  <2>2. Channel(flt.n)' = Channel(flt.n)
    BY <2>1 DEF Channel
  <2>3. OnWire(c)' = OnWire(c) - counted(c) /\ counted(c) \in Nat /\ OnWire(c) \in Nat
    BY <2>1, <2>2 DEF OnWire, counted
  <2>4. credits'[c] = credits[c] + counted(c) /\ credits[c] \in Nat
    BY <1>6 DEF rx_credit_task, TypeInv, TypeOK
  <2> QED
    BY <2>3, <2>4
<1>7. CASE RisingEdge
  BY <1>7, CreditEdge
<1> QED
  BY <1>1, <1>2, <1>3, <1>4, <1>5, <1>6, <1>7 DEF Next, Drive

(***************************************************************************)
(* Every reachable state of driver.py's model is well typed; no credit     *)
(* counter goes below zero.                                                *)
(***************************************************************************)
THEOREM DriverTypes == Spec => []TypeOK
<1>1. TypeInv => TypeOK
  BY DEF TypeInv
<1> QED
  BY <1>1, TypeInit, TypeStep, PTL DEF Spec

(***************************************************************************)
(* rx_credit_task, _wait_credit and the DUT neither lose nor make up a     *)
(* credit, whatever the interleaving on a clock edge, the adapter's depth  *)
(* and the timeouts.                                                       *)
(***************************************************************************)
THEOREM CreditsKept == Spec => []CreditsConserved
<1>1. Init => CreditsConserved
  BY DEF Init, CreditsConserved, OnWire, Channels
<1> QED
  BY <1>1, TypeInit, TypeStep, CreditStep, PTL DEF Spec

-------------------------------------------------------------------------------
(***************************************************************************)
(* Order.  Steps that move no transaction.                                 *)
(***************************************************************************)
LEMMA OrderFrame ==
    ASSUME OrderInv,
           UNCHANGED <<pushed, item_fifo, rx, served, got>>,
           InHand' = InHand, item' = None <=> item = None,
           item # None => item'.n = item.n
    PROVE  OrderInv'
BY DEF OrderInv

\* The clock edge: the flit on the wire, if any, is the next in order.
LEMMA OrderEdge ==
    ASSUME TypeInv, OrderInv, RisingEdge
    PROVE  /\ OrderInv'
           /\ got' \in {got, Append(got, Len(got) + 1)}
<1>1. PICK pop \in SUBSET {c \in Channels : rx[c] # << >>} :
         /\ rx' = [c \in Channels |->
                     (IF c \in pop THEN Tail(rx[c]) ELSE rx[c]) \o Sampled(c)]
         /\ served' = served \cup {Head(rx[c]).n : c \in pop}
  BY DEF RisingEdge
<1>2. /\ todo = {} /\ UNCHANGED <<script, pushed, item_fifo, item, flt, drv>>
      /\ drv # "raised" /\ todo' = EdgeTasks
      /\ got' = IF flt = None THEN got ELSE Append(got, flt.n)
  BY DEF RisingEdge, Suspended, tbVars
<1>3. flt # None => "drv" \in todo' /\ flt = item
  BY <1>2 DEF EdgeTasks, TypeInv, Position
<1>4. got \in Seq(Numbers) /\ Len(got) \in Nat
  BY LenProperties DEF TypeInv, TypeOK
<1>5. flt # None => flt \in Flits /\ flt.n \in Numbers /\ InHand = 1 /\ flt.n = Len(got) + 1
  BY <1>2, <1>3 DEF InHand, OrderInv, TypeInv, TypeOK, Flits
<1>6. got' \in {got, Append(got, Len(got) + 1)}
  BY <1>2, <1>5
<1> DEFINE f == IF flt = None THEN 0 ELSE 1
<1>7. Len(got') = Len(got) + f
  BY <1>2, <1>4, <1>5, AppendProperties
<1>8. InHand' = InHand - f /\ InHand \in Int
  BY <1>2, <1>3, <1>5 DEF InHand
<1>9. /\ pushed' = Len(got') + InHand' + Len(item_fifo')
      /\ item' # None => item'.n = Len(got') + InHand'
      /\ \A i \in 1 .. Len(item_fifo') : item_fifo'[i] = Len(got') + InHand' + i
  <2> HIDE DEF f
  <2>1. f \in Nat
    BY DEF f
  <2>2. Len(got') + InHand' = Len(got) + InHand
    BY <1>4, <1>7, <1>8, <2>1
  <2> QED
    BY <1>2, <2>2 DEF OrderInv
<1>10. ASSUME NEW c \in Channels, NEW i \in 1 .. Len(rx'[c])
       PROVE  rx'[c][i].n <= Len(got')
  <2> DEFINE kept == IF c \in pop THEN Tail(rx[c]) ELSE rx[c]
  <2>1. Sampled(c) \in Seq(Flits)
    BY DEF Sampled, TypeInv, TypeOK
  <2>2. /\ kept \in Seq(Flits) /\ Len(kept) \in Nat
        /\ \A j \in 1 .. Len(kept) : kept[j].n <= Len(got)
    <3>1. CASE c \in pop
      <4>1. /\ kept \in Seq(Flits) /\ Len(kept) = Len(rx[c]) - 1 /\ Len(rx[c]) \in Nat
            /\ \A j \in 1 .. Len(rx[c]) - 1 : kept[j] = rx[c][j + 1]
        BY <3>1, TypeFacts, LenProperties DEF TypeInv
      <4>2. \A j \in 1 .. Len(rx[c]) - 1 : rx[c][j + 1].n <= Len(got)
        BY <4>1 DEF OrderInv
      <4> HIDE DEF kept
      <4> QED
        BY <4>1, <4>2, LenProperties
    <3>2. CASE c \notin pop
      BY <3>2, LenProperties DEF OrderInv, TypeInv
    <3> QED
      BY <3>1, <3>2
  <2>3. rx'[c] = kept \o Sampled(c)
    BY <1>1
  <2> HIDE DEF kept
  <2>4. /\ Len(rx'[c]) = Len(kept) + Len(Sampled(c))
        /\ rx'[c][i] = IF i <= Len(kept) THEN kept[i] ELSE Sampled(c)[i - Len(kept)]
    BY <2>1, <2>2, <2>3, ConcatProperties
  <2>5. CASE i <= Len(kept)
    <3>1. i \in 1 .. Len(kept) /\ rx'[c][i] = kept[i]
      BY <2>1, <2>2, <2>4, <2>5, LenProperties
    <3>2. kept[i].n \in Nat
      <4>1. kept[i] \in Flits
        BY <2>2, <3>1, ElementOfSeq
      <4> QED
        BY <4>1, TypeFacts DEF Flits
    <3> QED
      BY <1>4, <1>7, <2>2, <3>1, <3>2
  <2>6. CASE ~(i <= Len(kept))
    <3>1. flt # None /\ Sampled(c) = <<flt>>
      BY <2>2, <2>4, <2>6 DEF Sampled
    <3>2. rx'[c][i] = flt
      BY <2>2, <2>4, <2>6, <3>1
    <3> QED
      BY <1>4, <1>5, <1>7, <3>1, <3>2
  <2> QED
    BY <2>5, <2>6
<1>11. \A n \in served' : n <= Len(got')
  <2>1. \A c \in pop : Head(rx[c]) = rx[c][1] /\ Len(rx[c]) > 0 /\ Len(rx[c]) \in Nat
    BY TypeFacts, LenProperties DEF TypeInv
  <2>2. \A c \in pop : Head(rx[c]).n <= Len(got)
    BY <2>1 DEF OrderInv
  <2>3. \A n \in served' : n \in Nat /\ n <= Len(got)
    <3>1. \A c \in pop : Head(rx[c]).n \in Numbers
      BY TypeFacts DEF Flits
    <3>2. Numbers \subseteq Nat
      BY TypeFacts
    <3> QED
      BY <1>1, <2>2, <3>1, <3>2 DEF OrderInv, TypeInv
  <2> QED
    BY <1>4, <1>7, <2>3
<1> QED
  BY <1>6, <1>9, <1>10, <1>11 DEF OrderInv

(***************************************************************************)
(* The numbering is inductive, and a step samples at most the next number. *)
(***************************************************************************)
LEMMA OrderStep ==
    TypeInv /\ OrderInv /\ [Next]_vars =>
        OrderInv' /\ got' \in {got, Append(got, Len(got) + 1)}
<1> SUFFICES ASSUME TypeInv, OrderInv, [Next]_vars
             PROVE  OrderInv' /\ got' \in {got, Append(got, Len(got) + 1)}
  OBVIOUS
<1>a. /\ item_fifo \in Seq(Numbers) /\ Len(item_fifo) \in Nat
      /\ Len(got) \in Nat /\ InHand \in {0, 1}
  BY LenProperties DEF TypeInv, TypeOK, InHand
<1>b. item # None => item \in Flits
  BY DEF TypeInv, TypeOK
<1>1. CASE UNCHANGED vars \/ ReleaseReset
  BY <1>1, OrderFrame DEF vars, tbVars, dutVars, ReleaseReset, InHand
<1>2. CASE Put
  <2>1. /\ pushed' = pushed + 1 /\ pushed + 1 \in Numbers
        /\ item_fifo' = Append(item_fifo, pushed + 1)
        /\ UNCHANGED <<item, flt, todo, rx, served, got>>
    BY <1>2 DEF Put, tbVars, dutVars
  <2>2. InHand' = InHand
    BY <2>1 DEF InHand
  <2>3. /\ Len(item_fifo') = Len(item_fifo) + 1
        /\ item_fifo'[Len(item_fifo) + 1] = pushed + 1
        /\ \A i \in 1 .. Len(item_fifo) : item_fifo'[i] = item_fifo[i]
    BY <1>a, <2>1, AppendProperties
  <2>4. \A i \in 1 .. Len(item_fifo') : item_fifo'[i] = Len(got) + InHand + i
    BY <1>a, <2>3 DEF OrderInv
  <2> QED
    BY <1>a, <2>1, <2>2, <2>3, <2>4 DEF OrderInv
<1>3. CASE drv_reset \/ drv_link_up
  <2>1. UNCHANGED <<pushed, item_fifo, item, rx, served, got, flt>> /\ item = None
    BY <1>3 DEF drv_reset, drv_link_up, dutVars, TypeInv, Position
  <2> QED
    BY <2>1, OrderFrame DEF InHand
<1>4. CASE get
  <2>1. /\ item_fifo # << >> /\ item_fifo' = Tail(item_fifo)
        /\ item' = [n |-> Head(item_fifo), dbid |-> None]
        /\ UNCHANGED <<pushed, flt, todo, rx, served, got>>
        /\ item = None /\ flt = None
    BY <1>4 DEF get, dutVars, TypeInv, Position
  <2>2. item' # None
    <3>1. item' \in Flits
      BY <2>1, TypeFacts DEF Flits
    <3> QED
      BY <3>1, TypeFacts
  <2>3. InHand = 0 /\ InHand' = 1
    BY <2>1, <2>2 DEF InHand
  <2>4. /\ Len(item_fifo') = Len(item_fifo) - 1 /\ item'.n = item_fifo[1]
        /\ \A i \in 1 .. Len(item_fifo) - 1 : item_fifo'[i] = item_fifo[i + 1]
        /\ Len(item_fifo) > 0
    BY <1>a, <2>1, TypeFacts, HeadTailProperties, EmptySeq
  <2>5. \A i \in 1 .. Len(item_fifo) - 1 : item_fifo[i + 1] = Len(got) + (i + 1)
    BY <1>a, <2>3 DEF OrderInv
  <2>6. \A i \in 1 .. Len(item_fifo') : item_fifo'[i] = Len(got) + 1 + i
    BY <1>a, <2>4, <2>5
  <2>7. /\ item_fifo[1] = Len(got) + 1
        /\ pushed = Len(got) + 1 + Len(item_fifo')
    BY <1>a, <2>3, <2>4 DEF OrderInv
  <2> QED
    BY <2>1, <2>3, <2>4, <2>6, <2>7 DEF OrderInv
<1>5. CASE wait_dbid
  <2>1. /\ UNCHANGED <<pushed, item_fifo, rx, served, got, flt>>
        /\ flt = None /\ item # None
    BY <1>5 DEF wait_dbid, dutVars, TypeInv, Position, InHandPcs
  <2>2. item'.n = item.n /\ item' # None
    <3>1. drv' \in {"dbid_wait", "credit"}
      BY <1>5 DEF wait_dbid
    <3>2. Position'
      BY TypeStep DEF TypeInv
    <3>3. item' # None
      BY <3>1, <3>2 DEF Position, InHandPcs
    <3>4. item \in Flits
      BY <1>b, <2>1
    <3>5. item' = item \/ \E d : item' = [item EXCEPT !.dbid = d]
      BY <1>5 DEF wait_dbid
    <3> QED
      BY <3>3, <3>4, <3>5 DEF Flits
  <2> QED
    BY <2>1, <2>2, OrderFrame DEF InHand
<1>6. CASE wait_credit
  <2>1. /\ UNCHANGED <<pushed, item_fifo, item, rx, served, got, todo>>
        /\ "drv" \notin todo
    BY <1>6 DEF wait_credit, dutVars, TypeInv, Position
  <2> QED
    BY <2>1, OrderFrame DEF InHand
<1>7. CASE drv_edge
  <2>1. CASE drv # "hold"
    <3>1. UNCHANGED <<pushed, item_fifo, item, flt, rx, served, got>> /\ flt = None
      BY <1>7, <2>1 DEF drv_edge, dutVars, TypeInv, Position
    <3> QED
      BY <3>1, OrderFrame DEF InHand
  <2>2. CASE drv = "hold"
    <3>1. /\ UNCHANGED <<pushed, item_fifo, rx, served, got>>
          /\ "drv" \in todo /\ item' = None /\ flt # None
      BY <1>7, <2>2 DEF drv_edge, Resumes, dutVars, TypeInv, Position, InHandPcs
    <3>2. InHand = 0 /\ InHand' = 0
      BY <3>1 DEF InHand
    <3> QED
      BY <3>1, <3>2 DEF OrderInv
  <2> QED
    BY <2>1, <2>2
<1>8. CASE link_activation_task \/ tx_credit_task \/ rx_credit_task \/ observe_tx
  <2>1. /\ UNCHANGED <<pushed, item_fifo, item, flt, rx, served, got>>
        /\ "drv" \in todo' <=> "drv" \in todo
    BY <1>8 DEF link_activation_task, tx_credit_task, rx_credit_task, observe_tx,
                Resumes, dutVars
  <2> QED
    BY <2>1, OrderFrame DEF InHand
<1>9. CASE RisingEdge
  BY <1>9, OrderEdge
<1> QED
  BY <1>1, <1>2, <1>3, <1>4, <1>5, <1>6, <1>7, <1>8, <1>9 DEF Next, Drive

(***************************************************************************)
(* The driver is a FIFO: get_next_item, _wait_credit and _send neither     *)
(* lose, repeat nor overtake a transaction on its way to the DUT.          *)
(***************************************************************************)
THEOREM SampledOnceInOrder == Spec => OnceInOrder
<1>1. Init => OrderInv
  BY EmptySeq DEF Init, OrderInv, InHand, Channels
<1>2. TypeInv /\ OrderInv /\ [Next]_vars => [got' \in {got, Append(got, Len(got) + 1)}]_vars
  BY OrderStep
<1> QED
  BY <1>1, <1>2, TypeInit, TypeStep, OrderStep, PTL DEF Spec, OnceInOrder

-------------------------------------------------------------------------------
(***************************************************************************)
(* DBIDs.  The write of a data transaction is the last one before it under *)
(* its wire id.                                                            *)
(***************************************************************************)
LEMMA WriteOfData ==
    ASSUME TypeInv, NEW n \in Numbers, script[n].ch = "dat"
    PROVE  /\ WriteOf(n) \in Numbers
           /\ WriteOf(n) < n
           /\ script[WriteOf(n)].ch = "write"
           /\ script[WriteOf(n)].wire = script[n].wire
           /\ \A k \in Numbers :
                /\ k < n /\ script[k].ch = "write"
                /\ script[k].wire = script[n].wire
                => k <= WriteOf(n)
<1>1. \E k \in Numbers : DataOf(script, n, k)
  BY ScriptAssumption DEF TypeInv, Numbers
<1>2. WriteOf(n) \in Numbers /\ DataOf(script, n, WriteOf(n))
  BY <1>1 DEF WriteOf
<1>3. Numbers \subseteq Nat
  BY TypeFacts
<1> QED
  BY <1>2, <1>3 DEF DataOf

\* Of two writes under one wire id, the data of the first come in between.
LEMMA DataBetween ==
    ASSUME TypeInv, NEW k \in Numbers, NEW m \in Numbers, k < m,
           script[k].ch = "write", script[m].ch = "write",
           script[k].wire = script[m].wire
    PROVE  \E n \in Numbers : n < m /\ script[n].ch = "dat" /\ WriteOf(n) = k
<1>1. PICK n \in k + 1 .. m - 1 : DataOf(script, n, k)
  BY ScriptAssumption DEF TypeInv, Numbers
<1>2. n \in Numbers /\ n < m /\ script[n].ch = "dat"
  BY <1>1, TypeFacts DEF DataOf
<1>3. /\ WriteOf(n) \in Numbers /\ WriteOf(n) < n /\ script[WriteOf(n)].ch = "write"
      /\ script[WriteOf(n)].wire = script[n].wire
      /\ k <= WriteOf(n)
  BY <1>1, <1>2, TypeFacts, WriteOfData DEF DataOf
<1>4. ~(WriteOf(n) \in k + 1 .. n - 1)
  BY <1>1, <1>3 DEF DataOf
<1>5. WriteOf(n) = k
  BY <1>2, <1>3, <1>4, TypeFacts
<1> QED
  BY <1>2, <1>5

\* Writes under one wire id are granted in order, because the data of the first
\* were put before the second was and waited for the grant.
LEMMA GrantedInOrder ==
    ASSUME TypeInv, OrderInv, DbidInv,
           NEW k \in Numbers, script[k].ch = "write", granted[k] = None
    PROVE  LastGranted(k)
<1> SUFFICES ASSUME NEW m \in Numbers, m > k, script[m].wire = script[k].wire,
                    granted[m] # None
             PROVE  FALSE
  BY DEF LastGranted
<1>1. m \in served /\ script[m].ch = "write"
  BY DEF DbidInv, GrantedServed
<1>2. m <= pushed /\ pushed \in Nat
  <2>1. m <= Len(got)
    BY <1>1 DEF OrderInv
  <2>2. Len(got) \in Nat /\ InHand \in Nat /\ Len(item_fifo) \in Nat
    BY LenProperties DEF TypeInv, TypeOK, InHand
  <2> QED
    BY <2>1, <2>2, TypeFacts DEF OrderInv
<1>3. PICK n \in Numbers : n < m /\ script[n].ch = "dat" /\ WriteOf(n) = k
  BY <1>1, DataBetween, TypeFacts
<1>4. n <= pushed
  BY <1>2, <1>3, TypeFacts
<1> QED
  BY <1>3, <1>4 DEF DbidInv, PutReady

\* While data n are on their way, no write after n under their wire id has
\* been granted: it would have been put after n was consumed.
LEMMA NoneGrantedBeyond ==
    ASSUME TypeInv, OrderInv, DbidInv,
           NEW n \in Numbers, Len(got) < n,
           NEW m \in Numbers, n < m, script[m].wire = script[n].wire
    PROVE  granted[m] = None
<1> SUFFICES ASSUME granted[m] # None PROVE FALSE
  OBVIOUS
<1>1. m \in served /\ script[m].ch = "write"
  BY DEF DbidInv, GrantedServed
<1>2. Len(got) \in Nat /\ InHand \in Nat /\ Len(item_fifo) \in Nat
  BY LenProperties DEF TypeInv, TypeOK, InHand
<1>3. m <= pushed
  BY <1>1, <1>2, TypeFacts DEF OrderInv
<1>4. n \in SameWire(m)
  BY DEF SameWire
<1>5. n \in served
  BY <1>1, <1>3, <1>4 DEF DbidInv, PutReady
<1>6. n <= Len(got)
  BY <1>5 DEF OrderInv
<1> QED
  BY <1>2, <1>6, TypeFacts

\* So the write of data on their way is the last one granted.
LEMMA WriteOfWaiting ==
    ASSUME TypeInv, OrderInv, DbidInv,
           NEW n \in Numbers, Len(got) < n, script[n].ch = "dat"
    PROVE  LastGranted(WriteOf(n))
<1> SUFFICES ASSUME NEW m \in Numbers, m > WriteOf(n),
                    script[m].wire = script[WriteOf(n)].wire, granted[m] # None
             PROVE  FALSE
  BY DEF LastGranted
<1>1. script[m].ch = "write"
  BY DEF DbidInv, GrantedServed
<1>2. CASE m < n
  BY <1>1, <1>2, WriteOfData, TypeFacts, SMTT(30)
<1>3. CASE n < m
  BY <1>3, WriteOfData, NoneGrantedBeyond
<1>4. CASE m = n
  BY <1>1, <1>4
<1> QED
  BY <1>2, <1>3, <1>4, TypeFacts

\* The parts of DbidInv about the DUT and the tables.
DbidTables == GrantedServed /\ PutReady /\ Recorded /\ OnTxrsp /\ DataWaiting

\* Steps that change neither the tables nor what is put or sampled.
LEMMA DbidFrame ==
    ASSUME DbidTables,
           UNCHANGED <<script, pushed, dbid_by_txn, txrsp, granted, served, got>>,
           "obs" \in todo' <=> "obs" \in todo
    PROVE  DbidTables'
<1>1. /\ Numbers' = Numbers
      /\ \A n : WriteOf(n)' = WriteOf(n) /\ SameWire(n)' = SameWire(n)
      /\ \A k : LastGranted(k)' <=> LastGranted(k)
  BY DEF Numbers, WriteOf, SameWire, LastGranted
<1>2. GrantedServed' /\ PutReady'
  BY <1>1 DEF DbidTables, GrantedServed, PutReady
<1>3. Recorded' /\ OnTxrsp'
  BY <1>1 DEF DbidTables, Recorded, OnTxrsp
<1>4. DataWaiting'
  BY <1>1 DEF DbidTables, DataWaiting
<1> QED
  BY <1>2, <1>3, <1>4 DEF DbidTables

\* The item keeps its DBID when grants are only added.
LEMMA ItemFrame ==
    ASSUME ItemDbid, script' = script, item' = item,
           drv' \in {"dbid", "dbid_wait"} => drv \in {"dbid", "dbid_wait"},
           \A k : granted[k] # None => granted'[k] = granted[k]
    PROVE  ItemDbid'
<1>1. \A n : WriteOf(n)' = WriteOf(n)
  BY DEF WriteOf, Numbers
<1> QED
  BY <1>1 DEF ItemDbid

\* Upstream puts data only when todo is empty, so their DBID is recorded.
LEMMA DbidPut ==
    ASSUME TypeInv, OrderInv, DbidInv, ~Prompt, Put
    PROVE  DbidInv'
<1> DEFINE n == pushed + 1
<1>1. /\ n \in Numbers /\ Ready(n) /\ pushed' = n
      /\ UNCHANGED <<script, drv, item, dbid_by_txn, txrsp, granted, served, got, todo>>
  BY DEF Put, tbVars, dutVars
<1>2. /\ Numbers' = Numbers
      /\ \A j : WriteOf(j)' = WriteOf(j) /\ SameWire(j)' = SameWire(j)
      /\ \A k : LastGranted(k)' <=> LastGranted(k)
  BY <1>1 DEF Numbers, WriteOf, SameWire, LastGranted
<1>3. GrantedServed' /\ Recorded' /\ OnTxrsp'
  BY <1>1, <1>2 DEF DbidInv, GrantedServed, Recorded, OnTxrsp
<1>4. \A j \in Numbers : j <= pushed' => j <= pushed \/ j = n
  <2>1. pushed \in Nat /\ Numbers \subseteq Nat
    BY TypeFacts DEF TypeInv, TypeOK
  <2> QED
    BY <1>1, <2>1
<1>5. PutReady'
  BY <1>1, <1>2, <1>4 DEF DbidInv, PutReady, Ready
<1>6. DataWaiting'
  <2> SUFFICES ASSUME n \in Numbers, script[n].ch = "dat", Len(got) < n
               PROVE  dbid_by_txn[script[n].wire] = granted[WriteOf(n)]
    BY <1>1, <1>2, <1>4 DEF DbidInv, DataWaiting
  <2>1. granted[WriteOf(n)] # None /\ todo = {}
    BY <1>1 DEF Ready
  <2>2. LastGranted(WriteOf(n)) /\ WriteOf(n) \in Numbers
        /\ script[WriteOf(n)].wire = script[n].wire
    BY WriteOfWaiting, WriteOfData
  <2> QED
    BY <2>1, <2>2 DEF DbidInv, Recorded
<1>7. ItemDbid'
  BY <1>1, ItemFrame DEF DbidInv
<1> QED
  BY <1>3, <1>5, <1>6, <1>7 DEF DbidInv

\* observe_tx records the last grant of its wire id.
LEMMA DbidObserved ==
    ASSUME TypeInv, OrderInv, DbidInv, observe_tx
    PROVE  DbidInv'
<1>1. /\ UNCHANGED <<script, pushed, drv, item, txrsp, granted, served, got>>
      /\ "obs" \in todo /\ todo' = todo \ {"obs"}
  BY DEF observe_tx, Resumes, dutVars
<1>2. /\ Numbers' = Numbers
      /\ \A j : WriteOf(j)' = WriteOf(j) /\ SameWire(j)' = SameWire(j)
      /\ \A k : LastGranted(k)' <=> LastGranted(k)
  BY <1>1 DEF Numbers, WriteOf, SameWire, LastGranted
<1>3. GrantedServed' /\ PutReady' /\ OnTxrsp'
  BY <1>1, <1>2 DEF DbidInv, GrantedServed, PutReady, OnTxrsp
<1>4. ItemDbid'
  BY <1>1, ItemFrame DEF DbidInv
<1>5. CASE txrsp = None
  <2>1. dbid_by_txn' = dbid_by_txn
    BY <1>5 DEF observe_tx
  <2>2. \A k \in Numbers : k # None
    BY TypeFacts
  <2>3. Recorded' /\ DataWaiting'
    BY <1>1, <1>2, <1>5, <2>1, <2>2 DEF DbidInv, Recorded, DataWaiting
  <2> QED
    BY <1>3, <1>4, <2>3 DEF DbidInv
<1>6. CASE txrsp # None
  <2> DEFINE w == script[txrsp].wire
  <2>1. /\ txrsp \in Numbers /\ granted[txrsp] # None /\ LastGranted(txrsp)
        /\ script[txrsp].ch = "write"
    BY <1>1, <1>6 DEF DbidInv, OnTxrsp, GrantedServed, TypeInv
  <2>2. dbid_by_txn' = [dbid_by_txn EXCEPT ![w] = granted[txrsp]]
    BY <1>6 DEF observe_tx, record_dbid
  <2>3. \A k \in Numbers : script[k].wire \in Wires
    BY DEF Wires
  <2>4. \A k \in Numbers :
          dbid_by_txn'[script[k].wire] =
            IF script[k].wire = w THEN granted[txrsp] ELSE dbid_by_txn[script[k].wire]
    BY <2>2, <2>3 DEF TypeInv
  <2>5. Recorded'
    <3> SUFFICES ASSUME NEW k \in Numbers, granted[k] # None, LastGranted(k)
                 PROVE  dbid_by_txn'[script[k].wire] = granted[k]
      BY <1>1, <1>2 DEF Recorded
    <3>1. CASE script[k].wire = w
      <4>1. k = txrsp
        BY <2>1, <3>1, TypeFacts DEF LastGranted
      <4> QED
        BY <2>4, <4>1
    <3>2. CASE script[k].wire # w
      BY <2>4, <3>2 DEF DbidInv, Recorded
    <3> QED
      BY <3>1, <3>2
  <2>6. DataWaiting'
    <3> SUFFICES ASSUME NEW n \in Numbers, script[n].ch = "dat", Len(got) < n, n <= pushed
                 PROVE  dbid_by_txn'[script[n].wire] = granted[WriteOf(n)]
      BY <1>1, <1>2 DEF DataWaiting
    <3>1. CASE script[n].wire = w
      <4>1. /\ LastGranted(WriteOf(n)) /\ WriteOf(n) \in Numbers
            /\ script[WriteOf(n)].wire = w /\ granted[WriteOf(n)] # None
        BY <3>1, WriteOfWaiting, WriteOfData DEF DbidInv, PutReady
      <4>2. WriteOf(n) = txrsp
        BY <2>1, <4>1, TypeFacts DEF LastGranted
      <4> QED
        BY <2>4, <3>1, <4>2
    <3>2. CASE script[n].wire # w
      BY <2>4, <3>2 DEF DbidInv, DataWaiting
    <3> QED
      BY <3>1, <3>2
  <2> QED
    BY <1>3, <1>4, <2>5, <2>6 DEF DbidInv
<1> QED
  BY <1>5, <1>6

\* The clock edge: the DUT may grant one more write.
LEMMA DbidEdge ==
    ASSUME TypeInv, OrderInv, DbidInv, RisingEdge
    PROVE  DbidInv'
<1>1. /\ todo = {} /\ todo' = EdgeTasks /\ served \subseteq served'
      /\ UNCHANGED <<script, pushed, drv, item, dbid_by_txn, act, txc>>
  BY DEF RisingEdge, tbVars
<1>2. /\ Numbers' = Numbers
      /\ \A j : WriteOf(j)' = WriteOf(j) /\ SameWire(j)' = SameWire(j)
  BY <1>1 DEF Numbers, WriteOf, SameWire
<1>3. Len(got) \in Nat /\ Len(got') \in Nat /\ Len(got) <= Len(got')
  <2>1. got \in Seq(Numbers) /\ Len(got) \in Nat
    BY LenProperties DEF TypeInv, TypeOK
  <2>2. got' = got \/ got' = Append(got, flt.n)
    BY DEF RisingEdge
  <2>3. flt # None => flt.n \in Numbers
    BY DEF TypeInv, TypeOK, Flits
  <2>4. got' = got \/ Len(got') = Len(got) + 1
    BY <2>1, <2>3, AppendProperties DEF RisingEdge
  <2> QED
    BY <2>1, <2>4
<1>4. \A n \in Numbers : Len(got') < n => Len(got) < n
  BY <1>3, TypeFacts
<1>5. CASE txrsp' = None /\ granted' = granted
  <2>1. \A k : LastGranted(k)' <=> LastGranted(k)
    BY <1>1, <1>2, <1>5 DEF LastGranted
  <2>2. GrantedServed' /\ PutReady'
    BY <1>1, <1>2, <1>5 DEF DbidInv, GrantedServed, PutReady
  <2>3. Recorded' /\ OnTxrsp'
    BY <1>1, <1>2, <1>5, <2>1 DEF DbidInv, Recorded, OnTxrsp
  <2>4. DataWaiting'
    BY <1>1, <1>2, <1>4, <1>5 DEF DbidInv, DataWaiting
  <2>5. ItemDbid'
    BY <1>1, <1>5, ItemFrame DEF DbidInv
  <2> QED
    BY <2>2, <2>3, <2>4, <2>5 DEF DbidInv
<1>6. ASSUME NEW n \in served, NEW d \in DBIDs,
             txc = "on", script[n].ch = "write", granted[n] = None,
             txrsp' = n, granted' = [granted EXCEPT ![n] = d]
      PROVE  DbidInv'
  <2>1. n \in Numbers /\ d # None /\ granted \in [Numbers -> DBIDs \cup {None}]
    BY TypeFacts DEF TypeInv
  <2>2. \A k \in Numbers : granted'[k] = IF k = n THEN d ELSE granted[k]
    BY <1>6, <2>1
  <2>3. LastGranted(n)
    BY <1>6, <2>1, GrantedInOrder
  <2>4. LastGranted(n)'
    BY <1>1, <1>2, <2>1, <2>2, <2>3, TypeFacts DEF LastGranted
  <2>5. \A k \in Numbers : LastGranted(k)' => LastGranted(k)
    BY <1>1, <1>2, <2>1, <2>2 DEF LastGranted
  <2>6. "obs" \in todo'
    BY <1>1, <1>6 DEF EdgeTasks, TypeInv, Position
  <2>7. GrantedServed'
    BY <1>1, <1>2, <1>6, <2>2 DEF DbidInv, GrantedServed
  <2>8. \A j \in Numbers : script[j].ch = "dat" => WriteOf(j) \in Numbers
    BY WriteOfData
  <2>9. PutReady'
    BY <1>1, <1>2, <2>1, <2>2, <2>8 DEF DbidInv, PutReady
  <2>10. Recorded'
    <3> SUFFICES ASSUME NEW k \in Numbers, granted'[k] # None, LastGranted(k)'
                 PROVE  \/ dbid_by_txn[script[k].wire] = granted'[k]
                        \/ k = n
      BY <1>1, <1>2, <1>6, <2>6 DEF Recorded
    <3> QED
      BY <1>1, <2>2, <2>5 DEF DbidInv, Recorded
  <2>11. OnTxrsp'
    BY <1>6, <2>1, <2>2, <2>4 DEF OnTxrsp
  <2>12. DataWaiting'
    <3> SUFFICES ASSUME NEW j \in Numbers, script[j].ch = "dat", Len(got) < j, j <= pushed
                 PROVE  dbid_by_txn[script[j].wire] = granted'[WriteOf(j)]
      BY <1>1, <1>2, <1>4 DEF DataWaiting
    <3>1. granted[WriteOf(j)] # None /\ dbid_by_txn[script[j].wire] = granted[WriteOf(j)]
      BY DEF DbidInv, PutReady, DataWaiting
    <3> QED
      BY <1>6, <2>2, <2>8, <3>1
  <2>13. ItemDbid'
    <3>1. \A j : WriteOf(j)' = WriteOf(j)
      BY <1>2
    <3>2. item # None => item.n \in Numbers
      BY DEF TypeInv, TypeOK, Flits
    <3>3. item # None /\ item.dbid # None => granted'[WriteOf(item.n)] = item.dbid
      BY <1>6, <2>2, <2>8, <3>2 DEF DbidInv, ItemDbid
    <3> QED
      BY <1>1, <3>1, <3>3 DEF DbidInv, ItemDbid
  <2> QED
    BY <2>7, <2>9, <2>10, <2>11, <2>12, <2>13 DEF DbidInv
<1> QED
  BY <1>5, <1>6 DEF RisingEdge, Grants

(***************************************************************************)
(* DbidInv is inductive when upstream waits for DBIDResp.                  *)
(***************************************************************************)
LEMMA DbidStep ==
    ~Prompt /\ TypeInv /\ OrderInv /\ DbidInv /\ [Next]_vars => DbidInv'
<1> SUFFICES ASSUME ~Prompt, TypeInv, OrderInv, DbidInv, [Next]_vars PROVE DbidInv'
  OBVIOUS
<1>a. DbidTables /\ ItemDbid
  BY DEF DbidInv, DbidTables
<1>b. DbidTables' /\ ItemDbid' => DbidInv'
  BY DEF DbidInv, DbidTables
<1>c. UNCHANGED <<script, pushed, dbid_by_txn, txrsp, granted, served, got>>
      /\ ("obs" \in todo' <=> "obs" \in todo) => DbidTables'
  BY <1>a, DbidFrame
<1>d. UNCHANGED <<script, item, granted>>
      /\ (drv' \in {"dbid", "dbid_wait"} => drv \in {"dbid", "dbid_wait"}) => ItemDbid'
  BY <1>a, ItemFrame
<1>1. CASE UNCHANGED vars \/ ReleaseReset
  BY <1>1, <1>b, <1>c, <1>d DEF vars, tbVars, dutVars, ReleaseReset
<1>2. CASE Put
  BY <1>2, DbidPut
<1>3. CASE drv_reset \/ drv_link_up
  <2>1. DbidTables'
    BY <1>3, <1>c DEF drv_reset, drv_link_up, Resumes, dutVars
  <2>2. ItemDbid'
    BY <1>3, <1>d DEF drv_reset, drv_link_up, dutVars
  <2> QED
    BY <1>b, <2>1, <2>2
<1>4. CASE get
  <2>1. DbidTables'
    BY <1>4, <1>c DEF get, dutVars
  <2>2. ItemDbid'
    BY <1>4 DEF get, ItemDbid
  <2> QED
    BY <1>b, <2>1, <2>2
<1>5. CASE wait_dbid
  <2>1. DbidTables'
    BY <1>5, <1>c DEF wait_dbid, dutVars
  <2>2. drv = "dbid" /\ drv' \in {"dbid_wait", "credit"} /\ UNCHANGED <<script, granted>>
    BY <1>5 DEF wait_dbid, dutVars
  <2>3. CASE item' = item
    BY <1>d, <1>b, <2>1, <2>2, <2>3
  <2>4. CASE item' = [item EXCEPT !.dbid = dbid_by_txn[script[item.n].wire]]
    <3>1. /\ item # None /\ item \in Flits /\ flt = None
          /\ item.n \in Numbers /\ script[item.n].ch = "dat"
      BY <1>a, <2>2 DEF TypeInv, TypeOK, Position, InHandPcs, ItemDbid, Flits
    <3>2. item'.n = item.n /\ item'.dbid = dbid_by_txn[script[item.n].wire]
      BY <2>4, <3>1 DEF Flits
    <3>3. Len(got) < item.n /\ item.n <= pushed
      <4>1. InHand = 1 /\ Len(got) \in Nat /\ Len(item_fifo) \in Nat
        BY <3>1, LenProperties DEF InHand, TypeInv, TypeOK
      <4> QED
        BY <3>1, <4>1 DEF OrderInv
    <3>4. dbid_by_txn[script[item.n].wire] = granted[WriteOf(item.n)]
      BY <1>a, <3>1, <3>3 DEF DbidTables, DataWaiting
    <3>5. \A n : WriteOf(n)' = WriteOf(n)
      BY <2>2 DEF WriteOf, Numbers
    <3>6. ItemDbid'
      BY <2>2, <3>1, <3>2, <3>4, <3>5 DEF ItemDbid
    <3> QED
      BY <1>b, <2>1, <3>6
  <2> QED
    BY <1>5, <2>3, <2>4 DEF wait_dbid
<1>6. CASE wait_credit
  <2>1. DbidTables'
    BY <1>6, <1>c DEF wait_credit, dutVars
  <2>2. ItemDbid'
    BY <1>6, <1>d DEF wait_credit, dutVars
  <2> QED
    BY <1>b, <2>1, <2>2
<1>7. CASE drv_edge
  <2>1. DbidTables'
    BY <1>7, <1>c DEF drv_edge, Resumes, dutVars
  <2>2. CASE drv # "hold"
    BY <1>7, <1>b, <1>d, <2>1, <2>2 DEF drv_edge, dutVars
  <2>3. CASE drv = "hold"
    <3>1. ItemDbid'
      BY <1>7, <2>3 DEF drv_edge, ItemDbid
    <3> QED
      BY <1>b, <2>1, <3>1
  <2> QED
    BY <2>2, <2>3
<1>8. CASE link_activation_task \/ tx_credit_task \/ rx_credit_task
  <2>1. DbidTables'
    BY <1>8, <1>c DEF link_activation_task, tx_credit_task, rx_credit_task, Resumes,
                      dutVars
  <2>2. ItemDbid'
    BY <1>8, <1>d DEF link_activation_task, tx_credit_task, rx_credit_task, dutVars
  <2> QED
    BY <1>b, <2>1, <2>2
<1>9. CASE observe_tx
  BY <1>9, DbidObserved
<1>10. CASE RisingEdge
  BY <1>10, DbidEdge
<1> QED
  BY <1>1, <1>2, <1>3, <1>4, <1>5, <1>6, <1>7, <1>8, <1>9, <1>10 DEF Next, Drive

(***************************************************************************)
(* When upstream waits for DBIDResp before it puts write data, as SnfAgent *)
(* does, a DBID that wait_dbid reads from dbid_by_txn is the one of the    *)
(* write the data belong to, although wire ids are used again and the      *)
(* table is never cleared.                                                 *)
(***************************************************************************)
THEOREM DataCarryOwnDbid == ~Prompt => (Spec => []OwnDbid)
<1> SUFFICES ASSUME ~Prompt PROVE Spec => []OwnDbid
  OBVIOUS
<1>1. Init => OrderInv
  BY EmptySeq DEF Init, OrderInv, InHand, Channels
<1>2. Init => DbidInv
  <2> SUFFICES ASSUME Init PROVE DbidInv
    OBVIOUS
  <2>1. \A n \in Numbers : granted[n] = None /\ ~(n <= pushed)
    BY TypeInit, TypeFacts DEF Init
  <2> QED
    BY <2>1 DEF Init, DbidInv, GrantedServed, PutReady, Recorded, OnTxrsp, DataWaiting,
                ItemDbid
<1>3. TypeInv /\ DbidInv => OwnDbid
  BY DEF TypeInv, Position, DbidInv, ItemDbid, OwnDbid
<1>4. TypeInv /\ OrderInv /\ DbidInv /\ [Next]_vars => DbidInv'
  BY DbidStep
<1> QED
  BY <1>1, <1>2, <1>3, <1>4, TypeInit, TypeStep, OrderStep, PTL DEF Spec
===============================================================================
