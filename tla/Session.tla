------------------------------ MODULE Session ------------------------------
(***************************************************************************)
(* What the screens of a running app share: the asynchronous operations    *)
(* they have started, and the documents they keep under `users'.           *)
(*                                                                         *)
(* An operation occupies one slot of TxIds for good.  It has a kind, the   *)
(* HomeMain (or RecordScreen) whose callbacks it runs, the key of the      *)
(* document it is about, a stage, and the value its callbacks have         *)
(* captured.  Operations that run a transaction run it in the same slot.   *)
(***************************************************************************)
EXTENDS Account, Firestore

CONSTANTS
    Null, Yes, No,   \* null, true and false, as field values
    Kinds            \* the operations the user asks for (a bound)

ASSUME KeysAreUids == Keys = Users

VARIABLE job

NoJob == [kind |-> "none", owner |-> NoUser, key |-> NoUser, stage |-> "unused",
          data |-> Null]

JobInit == job = [t \in TxIds |-> NoJob]

\* An operation of the given kind begins in slot t.
Begin(t, kind, owner, key, stage) ==
    /\ kind \in Kinds
    /\ job[t].stage = "unused"
    /\ job' = [job EXCEPT ![t] = [kind |-> kind, owner |-> owner, key |-> key,
                                  stage |-> stage, data |-> Null]]

\* The same for an operation that starts with runTransaction.
BeginTransaction(t, kind, owner, key) ==
    /\ Begin(t, kind, owner, key, "transaction")
    /\ RunTransaction(t)

At(t, kind, stage) == job[t].kind = kind /\ job[t].stage = stage

GoTo(t, stage) == job' = [job EXCEPT ![t].stage = stage]

\* The block of every transaction of the app first awaits transaction.get(ref).
GetStep(t) ==
    /\ job[t].stage = "transaction"
    /\ Get(t, job[t].key)

\* The get rejects, so the block does.
GetFails(t) ==
    /\ job[t].stage = "transaction"
    /\ tx[t].phase = "running"
    /\ tx[t].reads = Empty
    /\ BlockFails(t)

\* The block of t has its document and continues.
BlockResumes(t, kind) ==
    /\ At(t, kind, "transaction")
    /\ tx[t].phase = "running"
    /\ job[t].key \in DOMAIN tx[t].reads

DocRead(t) == tx[t].reads[job[t].key]

\* Operations that a dying process takes with it: all but those already over.
RestartJobs ==
    job' = [t \in TxIds |->
              IF job[t].stage \in {"unused", "done", "acknowledged"} THEN job[t]
              ELSE [job[t] EXCEPT !.stage = "done", !.data = Null]]
=============================================================================
