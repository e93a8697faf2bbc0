---------------------------- MODULE AtomicStore ----------------------------
(***************************************************************************)
(* What a Firestore transaction promises its caller, with no versions,     *)
(* preconditions, retries or messages: a set of offers, each holding what  *)
(* a run of the block read and what it wants to write.  An offer takes     *)
(* effect in one step, and only while everything it read is still the      *)
(* content of the store.  A transaction reports success only after one of  *)
(* its offers took effect; an offer may also take effect after a failure   *)
(* was reported, and more than one offer of a transaction may.             *)
(***************************************************************************)
CONSTANTS Keys, TxIds, Docs, NoDoc, ApplyTo(_, _)

VARIABLES store, status, offers, applied

vars == <<store, status, offers, applied>>

Init ==
    /\ store \in [Keys -> Docs \cup {NoDoc}]
    /\ status = [t \in TxIds |-> "idle"]
    /\ offers = {}
    /\ applied = {}

Begin(t) ==
    /\ status[t] = "idle"
    /\ status' = [status EXCEPT ![t] = "running"]
    /\ UNCHANGED <<store, offers, applied>>

Offer(o) ==
    /\ status[o.tx] = "running"
    /\ offers' = offers \cup {o}
    /\ UNCHANGED <<store, status, applied>>

TakeEffect(o) ==
    /\ \A k \in DOMAIN o.reads : o.reads[k] = store[k]
    /\ store' = [k \in Keys |-> IF k \in DOMAIN o.mutations
                                THEN ApplyTo(o.mutations[k], store[k])
                                ELSE store[k]]
    /\ offers' = offers \ {o}
    /\ applied' = applied \cup {o.tx}
    /\ UNCHANGED status

Forget(o) ==
    /\ offers' = offers \ {o}
    /\ UNCHANGED <<store, status, applied>>

Succeed(t) ==
    /\ status[t] = "running"
    /\ t \in applied
    /\ status' = [status EXCEPT ![t] = "committed"]
    /\ UNCHANGED <<store, offers, applied>>

Fail(t) ==
    /\ status[t] = "running"
    /\ status' = [status EXCEPT ![t] = "failed"]
    /\ UNCHANGED <<store, offers, applied>>

\* The process dies and takes its running transactions with it.
Die ==
    /\ status' = [t \in TxIds |->
                    IF status[t] = "running" THEN "lost" ELSE status[t]]
    /\ UNCHANGED <<store, offers, applied>>

OtherWrite(k, d) ==
    /\ store' = [store EXCEPT ![k] = d]
    /\ UNCHANGED <<status, offers, applied>>

Next ==
    \/ \E t \in TxIds : Begin(t) \/ Succeed(t) \/ Fail(t)
    \/ \E o \in offers' : Offer(o)
    \/ \E o \in offers : TakeEffect(o) \/ Forget(o)
    \/ Die
    \/ \E k \in Keys, d \in Docs \cup {NoDoc} : OtherWrite(k, d)

Spec == Init /\ [][Next]_vars
=============================================================================
