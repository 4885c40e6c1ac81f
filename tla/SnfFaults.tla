------------------------------- MODULE SnfFaults ------------------------------
(***************************************************************************)
(* The SN-F path in front of the DUT as it is, whose allocator picks the   *)
(* lowest free slot, with retries and with read ids that wrap.  The agent  *)
(* takes three things for granted without looking (snf_agent.py):          *)
(*                                                                         *)
(*   SlotsAgree  the DUT admits a request into the slot that is its wire   *)
(*               id ("the agent models the allocator")                     *)
(*   ReadIdFree  next_read_id has no record when alloc inserts one         *)
(*   OneRecord   a write has one record when find_write looks for it       *)
(*                                                                         *)
(* None of the three holds in every behaviour; where the first fails, a    *)
(* write hangs for ever (README.md, known issue 1), and the last fails in  *)
(* run snf_stale_retry.  The history variable `sound` records whether all  *)
(* three have held so far; the properties say that nothing else goes       *)
(* wrong.                                                                  *)
(***************************************************************************)
EXTENDS SnfSystem

VARIABLE sound

Sound == SlotsAgree /\ ReadIdFree /\ OneRecord

FInit == Init /\ sound = Sound

FNext == Next /\ sound' = (sound /\ Sound')

FSpec == FInit /\ [][FNext]_<<vars, sound>>

FFairSpec == FSpec /\ Fairness
-------------------------------------------------------------------------------
(***************************************************************************)
(* As long as the three hold, no request is lost or doubled over rejects,  *)
(* replays, answers and the reuse of ids, every beat of write data reaches *)
(* the slot of its write, and gem5 raises no ContractError.                *)
(***************************************************************************)
NothingLostWhileSound == sound => OnePlace /\ WriteDataConserved /\ ~failed

(***************************************************************************)
(* Until then the agent, its mapper, the link and the DUT together are the *)
(* SN-F of SnfPort: each step up to the fault is one of its steps.         *)
(***************************************************************************)
PortWhileSound == Port!Init /\ [][Port!Next \/ ~sound']_(Port!portVars)

(***************************************************************************)
(* A supported request that is never answered has met one of the three:    *)
(* nothing else makes one hang.                                            *)
(***************************************************************************)
AnsweredWhileSound ==
    <>[](sound => \A t \in Txns :
            hnf[t].phase # "unsent" /\ Supported(req[t]) => hnf[t].completed > 0)

(***************************************************************************)
(* No wire id leaks: in the end every record of the mapper is released.    *)
(***************************************************************************)
ReleasedWhileSound == <>[](sound => \A w \in WireIds : records[w] = None)
===============================================================================
