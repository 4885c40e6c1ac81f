------------------------------- MODULE SnfPort --------------------------------
(***************************************************************************)
(* What an SN-F promises the home node, as an abstract specification: each *)
(* request is answered once, by the flits its kind calls for, in order.    *)
(*                                                                         *)
(*   read :  Ask, then Beats(t) data beats; the last one completes it      *)
(*   write:  Ask, DBIDResp, the home node's data, Comp                     *)
(*                                                                         *)
(* Nothing here knows of wire ids, pool slots, retries or clock cycles.    *)
(***************************************************************************)
EXTENDS Naturals

CONSTANT Txns
VARIABLES
    kind,       \* kind[t]: "read", "write" or "other", fixed
    beats,      \* beats[t]: data beats a read asks for, fixed
    stage,      \* stage[t]: how far t has come
    got         \* got[t]: data beats t has received

portVars == <<kind, beats, stage, got>>

Init ==
    /\ kind \in [Txns -> {"read", "write", "other"}]
    /\ beats \in [Txns -> Nat]
    /\ stage = [t \in Txns |-> "idle"]
    /\ got = [t \in Txns |-> 0]

Move(t, from, to) ==
    /\ stage[t] = from
    /\ stage' = [stage EXCEPT ![t] = to]
    /\ UNCHANGED <<kind, beats>>

Ask(t) == Move(t, "idle", "asked") /\ UNCHANGED got

DBIDResp(t) == kind[t] = "write" /\ Move(t, "asked", "granted") /\ UNCHANGED got

WriteData(t) == Move(t, "granted", "sent") /\ UNCHANGED got

Comp(t) == Move(t, "sent", "done") /\ UNCHANGED got

CompData(t) ==
    /\ kind[t] = "read"
    /\ got' = [got EXCEPT ![t] = @ + 1]
    /\ Move(t, "asked", IF got[t] + 1 = beats[t] THEN "done" ELSE "asked")

Next == \E t \in Txns :
    Ask(t) \/ DBIDResp(t) \/ WriteData(t) \/ Comp(t) \/ CompData(t)

Spec == Init /\ [][Next]_portVars
===============================================================================
