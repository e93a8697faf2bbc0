----------------------------- MODULE Combiner -----------------------------
(***************************************************************************)
(* gRPC-Core's combiner, under which the RPCs of Firestore run: closures   *)
(* scheduled on a combiner run one at a time, on whichever thread has the  *)
(* combiner in its ExecCtx, and a busy thread hands it to the executor.    *)
(* There is no mutex: a count decides who runs the closures, and they wait *)
(* in a queue with many producers and one consumer (gpr_mpscq), each of    *)
(* whose atomic accesses is a step here.  Memory is taken to be            *)
(* sequentially consistent.                                                *)
(*                                                                         *)
(* A closure is its own queue node, a combiner stands for its stub.        *)
(***************************************************************************)
EXTENDS Integers, Sequences, FiniteSets, SequencesExt

CONSTANTS
    Threads,     \* threads with an ExecCtx of their own
    Executors,   \* threads of the executor
    Locks,       \* combiners
    Closures,
    Null,        \* the null pointer
    Refs,        \* references to each combiner
    MaxScheds    \* how often a closure may be scheduled (a bound)

AllThreads == Threads \cup Executors
Nodes == Closures \cup Locks

ASSUME NullAssumption == Null \notin Nodes \cup AllThreads
ASSUME RefsAssumption == Refs \in Nat \ {0}
ASSUME NodesAssumption == Closures \cap Locks = {} /\ IsFiniteSet(Closures)

VARIABLES
    state,       \* 2 * items + 1 while some reference is held
    refs,        \* how many
    head, tail,  \* gpr_mpscq
    next,        \* gpr_mpscq_node, for closures and stubs
    initiator,   \* initiating_exec_ctx_or_null
    finalNow,    \* time_to_execute_final_list
    finalList,   \* final_list
    destroyed,   \* combiners that have been freed
    active,      \* ExecCtx: the list from active_combiner to last_combiner
    offloads,    \* offload closures the executor has yet to run
    thread,      \* grpc_combiner_continue_exec_ctx of each thread
    call,        \* combiner_exec or grpc_combiner_unref of each thread
    closure,     \* where a closure is, and how often it was scheduled
    sent         \* history: what each thread has queued that has not begun

queueVars == <<head, tail, next>>
lockVars == <<state, refs, initiator, finalNow, finalList, destroyed>>
vars == <<lockVars, queueVars, active, offloads, thread, call, closure, sent>>

AtTop == [pc |-> "top", cb |-> Null, rest |-> <<>>, prev |-> Null]
NoCall == [pc |-> "none", closure |-> Null, lock |-> Null, prev |-> Null]
IdleClosure(n) == [status |-> "idle", lock |-> Null, times |-> n]

\* grpc_combiner_create and gpr_mpscq_init, and all references are handed out.
Init ==
    /\ state = [l \in Locks |-> 1]
    /\ refs = [l \in Locks |-> Refs]
    /\ head = [l \in Locks |-> l]
    /\ tail = [l \in Locks |-> l]
    /\ next = [n \in Nodes |-> Null]
    /\ initiator = [l \in Locks |-> Null]
    /\ finalNow = [l \in Locks |-> FALSE]
    /\ finalList = [l \in Locks |-> <<>>]
    /\ destroyed = {}
    /\ active = [t \in AllThreads |-> <<>>]
    /\ offloads = <<>>
    /\ thread = [t \in AllThreads |-> AtTop]
    /\ call = [t \in AllThreads |-> NoCall]
    /\ closure = [c \in Closures |-> IdleClosure(0)]
    /\ sent = [t \in AllThreads |-> <<>>]

Count(l) == state[l] \div 2

-----------------------------------------------------------------------------
(***************************************************************************)
(* Scheduling: from code at the top of a thread or from a closure it runs, *)
(* which needs a reference, its own or that of the closure's object.       *)
(***************************************************************************)
MayCall(t) ==
    /\ call[t].pc = "none"
    /\ thread[t].pc = "running" \/ (thread[t].pc = "top" /\ t \in Threads)

MaySchedule(c) == closure[c].status = "idle" /\ closure[c].times < MaxScheds

Scheduled(c, status, l) ==
    [closure EXCEPT ![c] = [status |-> status, lock |-> l, times |-> @.times + 1]]

\* (Mutant: also the second item makes its thread run the queue.)
CountedTwice(t, c, l, status) ==
    /\ state' = [state EXCEPT ![l] = @ + 2]
    /\ closure' = Scheduled(c, status, l)
    /\ sent' = [sent EXCEPT ![t] = Append(@, c)]
    /\ call' = [call EXCEPT ![t] = [pc |-> IF state[l] <= 3 THEN "first" ELSE "other",
                                    closure |-> c, lock |-> l, prev |-> Null]]
    /\ UNCHANGED <<refs, initiator, finalNow, finalList, destroyed, queueVars, active,
                   offloads, thread>>

\* combiner_exec: the count is raised, and its old value decides who runs the queue.
Counted(t, c, l, status) ==
    /\ state' = [state EXCEPT ![l] = @ + 2]
    /\ closure' = Scheduled(c, status, l)
    /\ sent' = [sent EXCEPT ![t] = Append(@, c)]
    /\ call' = [call EXCEPT ![t] = [pc |-> IF state[l] = 1 THEN "first" ELSE "other",
                                    closure |-> c, lock |-> l, prev |-> Null]]
    /\ UNCHANGED <<refs, initiator, finalNow, finalList, destroyed, queueVars, active,
                   offloads, thread>>

CombinerExec(t, c, l) ==
    /\ MayCall(t)
    /\ refs[l] > 0
    /\ MaySchedule(c)
    /\ Counted(t, c, l, "queued")

\* Unlocked until now: t has the combiner, at the end of its list.
ExecFirst(t) ==
    LET l == call[t].lock IN
    /\ call[t].pc = "first"
    /\ initiator' = [initiator EXCEPT ![l] = t]
    /\ active' = [active EXCEPT ![t] = Append(@, l)]
    /\ call' = [call EXCEPT ![t].pc = "swap"]
    /\ UNCHANGED <<state, refs, finalNow, finalList, destroyed, queueVars, offloads, thread,
                   closure, sent>>

\* Somebody has it already: it is contended unless that is t.
ExecOther(t) ==
    LET l == call[t].lock IN
    /\ call[t].pc = "other"
    /\ initiator' = [initiator EXCEPT ![l] = IF @ = t THEN t ELSE Null]
    /\ call' = [call EXCEPT ![t].pc = "swap"]
    /\ UNCHANGED <<state, refs, finalNow, finalList, destroyed, queueVars, active, offloads,
                   thread, closure, sent>>

\* (Mutant: the closure is linked to the node that is popped next.)
PushSwapAtTail(t) ==
    LET l == call[t].lock
        c == call[t].closure IN
    /\ call[t].pc = "swap"
    /\ next' = [next EXCEPT ![c] = Null]
    /\ head' = [head EXCEPT ![l] = c]
    /\ call' = [call EXCEPT ![t].pc = "link", ![t].prev = tail[l]]
    /\ UNCHANGED <<lockVars, tail, active, offloads, thread, closure, sent>>

\* gpr_mpscq_push, first half: the node becomes the head ...
PushSwap(t) ==
    LET l == call[t].lock
        c == call[t].closure IN
    /\ call[t].pc = "swap"
    /\ next' = [next EXCEPT ![c] = Null]
    /\ head' = [head EXCEPT ![l] = c]
    /\ call' = [call EXCEPT ![t].pc = "link", ![t].prev = head[l]]
    /\ UNCHANGED <<lockVars, tail, active, offloads, thread, closure, sent>>

\* ... and second half: the node before it points to it.
PushLink(t) ==
    /\ call[t].pc = "link"
    /\ next' = [next EXCEPT ![call[t].prev] = call[t].closure]
    /\ call' = [call EXCEPT ![t] = NoCall]
    /\ UNCHANGED <<lockVars, head, tail, active, offloads, thread, closure, sent>>

HasActive(t, l) == active[t] # <<>> /\ Head(active[t]) = l

\* (Mutant: every closure of the final list is counted.)
FinalAppendCounting(l, c) ==
    /\ state' = [state EXCEPT ![l] = @ + 2]
    /\ finalList' = [finalList EXCEPT ![l] = Append(@, c)]

\* The final list as a whole counts for one item.
FinalAppend(l, c) ==
    /\ state' = [state EXCEPT ![l] = IF finalList[l] = <<>> THEN @ + 2 ELSE @]
    /\ finalList' = [finalList EXCEPT ![l] = Append(@, c)]

\* combiner_finally_exec by a thread that has the combiner.
FinallyExec(t, c, l) ==
    /\ MayCall(t)
    /\ HasActive(t, l)
    /\ MaySchedule(c)
    /\ FinalAppend(l, c)
    /\ closure' = Scheduled(c, "final", l)
    /\ UNCHANGED <<refs, initiator, finalNow, destroyed, queueVars, active, offloads, thread,
                   call, sent>>

\* The same by any other thread: a closure that will call it is queued.
FinallyExecSlow(t, c, l) ==
    /\ MayCall(t)
    /\ refs[l] > 0
    /\ ~HasActive(t, l)
    /\ MaySchedule(c)
    /\ Counted(t, c, l, "wrapped")

\* grpc_combiner_unref; whoever drops the last reference goes on to start_destroy.
Unref(t, l) ==
    /\ MayCall(t)
    /\ refs[l] > 0
    /\ refs' = [refs EXCEPT ![l] = @ - 1]
    /\ call' = [call EXCEPT ![t] = IF refs[l] = 1 THEN [NoCall EXCEPT !.pc = "orphan", !.lock = l]
                                   ELSE @]
    /\ UNCHANGED <<state, initiator, finalNow, finalList, destroyed, queueVars, active,
                   offloads, thread, closure, sent>>

\* (Mutant: start_destroy overlooks the item that is being run.)
OrphanTooSoon(t) ==
    LET l == call[t].lock IN
    /\ call[t].pc = "orphan"
    /\ state' = [state EXCEPT ![l] = @ - 1]
    /\ destroyed' = IF state[l] \in {1, 3} THEN destroyed \cup {l} ELSE destroyed
    /\ call' = [call EXCEPT ![t] = NoCall]
    /\ UNCHANGED <<refs, initiator, finalNow, finalList, queueVars, active, offloads, thread,
                   closure, sent>>

\* start_destroy: frees the combiner if nothing is queued; otherwise the last item does.
Orphan(t) ==
    LET l == call[t].lock IN
    /\ call[t].pc = "orphan"
    /\ state' = [state EXCEPT ![l] = @ - 1]
    /\ destroyed' = IF state[l] = 1 THEN destroyed \cup {l} ELSE destroyed
    /\ call' = [call EXCEPT ![t] = NoCall]
    /\ UNCHANGED <<refs, initiator, finalNow, finalList, queueVars, active, offloads, thread,
                   closure, sent>>

-----------------------------------------------------------------------------
(***************************************************************************)
(* Running: ExecCtx::Flush calls grpc_combiner_continue_exec_ctx until the *)
(* thread has no combiner left.                                            *)
(***************************************************************************)
Mine(t) == Head(active[t])

At(t, pc) == call[t].pc = "none" /\ thread[t].pc = pc /\ active[t] # <<>>

\* queue_offload: move_next, and the offload closure goes to the executor.
QueueOffload(t) ==
    /\ active' = [active EXCEPT ![t] = Tail(@)]
    /\ offloads' = Append(offloads, Mine(t))
    /\ thread' = [thread EXCEPT ![t] = AtTop]

\* A contended combiner, and the thread would like to finish (an executor never does).
OffloadFinished(t) ==
    /\ At(t, "top")
    /\ t \in Threads
    /\ initiator[Mine(t)] = Null
    /\ QueueOffload(t)
    /\ UNCHANGED <<lockVars, queueVars, call, closure, sent>>

\* Something is queued, also if it is the final list's turn: gpr_mpscq_pop.
BeginPop(t) ==
    /\ At(t, "top")
    /\ ~finalNow[Mine(t)] \/ Count(Mine(t)) > 1
    /\ thread' = [thread EXCEPT ![t].pc = "pop"]
    /\ UNCHANGED <<lockVars, queueVars, active, offloads, call, closure, sent>>

Idled(c) == [closure EXCEPT ![c] = IdleClosure(@.times)]

\* The final list is taken, and its first closure runs.
BeginFinal(t) ==
    LET l == Mine(t) IN
    /\ At(t, "top")
    /\ finalNow[l] /\ Count(l) <= 1
    /\ thread' = [thread EXCEPT ![t] = [AtTop EXCEPT !.pc = "running", !.cb = Head(finalList[l]),
                                                     !.rest = Tail(finalList[l])]]
    /\ finalList' = [finalList EXCEPT ![l] = <<>>]
    /\ closure' = Idled(Head(finalList[l]))
    /\ UNCHANGED <<state, refs, initiator, finalNow, destroyed, queueVars, active, offloads,
                   call, sent>>

\* The popped node is run; enqueue_finally of a wrapped one puts it on the final list.
Run(t, c) ==
    LET l == Mine(t) IN
    /\ sent' = [s \in AllThreads |-> RemoveFirst(sent[s], c)]
    /\ \/ /\ closure[c].status = "queued"
          /\ thread' = [thread EXCEPT ![t] = [AtTop EXCEPT !.pc = "running", !.cb = c]]
          /\ closure' = Idled(c)
          /\ UNCHANGED <<state, finalList>>
       \/ /\ closure[c].status = "wrapped"
          /\ thread' = [thread EXCEPT ![t] = [AtTop EXCEPT !.pc = "finish"]]
          /\ closure' = [closure EXCEPT ![c].status = "final"]
          /\ FinalAppend(l, c)

\* gpr_mpscq_pop loads tail->next. Behind the stub there is nothing (linked) yet ...
PopNothing(t) ==
    LET l == Mine(t) IN
    /\ At(t, "pop")
    /\ tail[l] = l /\ next[l] = Null
    /\ QueueOffload(t)
    /\ UNCHANGED <<lockVars, queueVars, call, closure, sent>>

\* ... or there is, and the stub is left behind; tail->next is loaded again.
PopStub(t) ==
    LET l == Mine(t) IN
    /\ At(t, "pop")
    /\ tail[l] = l /\ next[l] # Null
    /\ tail' = [tail EXCEPT ![l] = next[l]]
    /\ UNCHANGED <<lockVars, head, next, active, offloads, thread, call, closure, sent>>

\* A closure with one behind it.
PopNext(t) ==
    LET l == Mine(t) IN
    /\ thread[t].pc \in {"pop", "popLast"}
    /\ At(t, thread[t].pc)
    /\ tail[l] # l /\ next[tail[l]] # Null
    /\ tail' = [tail EXCEPT ![l] = next[tail[l]]]
    /\ Run(t, tail[l])
    /\ UNCHANGED <<refs, initiator, finalNow, destroyed, head, next, active, offloads, call>>

\* None behind it: the head is looked at.
PopLone(t) ==
    LET l == Mine(t) IN
    /\ At(t, "pop")
    /\ tail[l] # l /\ next[tail[l]] = Null
    /\ thread' = [thread EXCEPT ![t].pc = "popHead"]
    /\ UNCHANGED <<lockVars, queueVars, active, offloads, call, closure, sent>>

\* A closure is being pushed: later. Else the stub is pushed behind the last one.
PopHead(t) ==
    /\ At(t, "popHead")
    /\ IF head[Mine(t)] # tail[Mine(t)] THEN QueueOffload(t)
       ELSE /\ thread' = [thread EXCEPT ![t].pc = "stubSwap"]
            /\ UNCHANGED <<active, offloads>>
    /\ UNCHANGED <<lockVars, queueVars, call, closure, sent>>

StubSwap(t) ==
    LET l == Mine(t) IN
    /\ At(t, "stubSwap")
    /\ next' = [next EXCEPT ![l] = Null]
    /\ head' = [head EXCEPT ![l] = l]
    /\ thread' = [thread EXCEPT ![t].pc = "stubLink", ![t].prev = head[l]]
    /\ UNCHANGED <<lockVars, tail, active, offloads, call, closure, sent>>

StubLink(t) ==
    /\ At(t, "stubLink")
    /\ next' = [next EXCEPT ![thread[t].prev] = Mine(t)]
    /\ thread' = [thread EXCEPT ![t].pc = "popLast"]
    /\ UNCHANGED <<lockVars, head, tail, active, offloads, call, closure, sent>>

\* Somebody was faster than the stub and has not linked its closure yet.
PopRetry(t) ==
    LET l == Mine(t) IN
    /\ At(t, "popLast")
    /\ next[tail[l]] = Null
    /\ QueueOffload(t)
    /\ UNCHANGED <<lockVars, queueVars, call, closure, sent>>

\* A closure returns; the rest of a final list follows.
CallbackEnds(t) ==
    LET rest == thread[t].rest IN
    /\ At(t, "running")
    /\ thread' = [thread EXCEPT ![t] =
                    IF rest = <<>> THEN [AtTop EXCEPT !.pc = "finish"]
                    ELSE [@ EXCEPT !.cb = Head(rest), !.rest = Tail(rest)]]
    /\ closure' = IF rest = <<>> THEN closure ELSE Idled(Head(rest))
    /\ UNCHANGED <<lockVars, queueVars, active, offloads, call, sent>>

\* (Mutant: the final list is never due.)
FinishForgettingFinal(t) ==
    LET l == Mine(t)
        left == Count(l) - 1 IN
    /\ At(t, "finish")
    /\ state' = [state EXCEPT ![l] = @ - 2]
    /\ finalNow' = [finalNow EXCEPT ![l] = FALSE]
    /\ active' = IF left = 0 THEN [active EXCEPT ![t] = Tail(@)] ELSE active
    /\ destroyed' = IF state[l] = 2 THEN destroyed \cup {l} ELSE destroyed
    /\ thread' = [thread EXCEPT ![t] = AtTop]
    /\ UNCHANGED <<refs, initiator, finalList, queueVars, offloads, call, closure, sent>>

\* (Mutant: the last item of an orphaned combiner does not free it.)
FinishOrphaned(t) ==
    LET l == Mine(t)
        left == Count(l) - 1 IN
    /\ At(t, "finish")
    /\ state' = [state EXCEPT ![l] = @ - 2]
    /\ finalNow' = [finalNow EXCEPT ![l] = left = 1 /\ finalList[l] # <<>>]
    /\ active' = IF left = 0 THEN [active EXCEPT ![t] = Tail(@)] ELSE active
    /\ thread' = [thread EXCEPT ![t] = AtTop]
    /\ UNCHANGED <<refs, initiator, finalList, destroyed, queueVars, offloads, call, closure, sent>>

\* An item is done. The old count decides: go on with the next item (first in the
\* list again), with the final list if that is all there is, or unlock, and free
\* the combiner if it is orphaned.
Finish(t) ==
    LET l == Mine(t)
        left == Count(l) - 1 IN
    /\ At(t, "finish")
    /\ state' = [state EXCEPT ![l] = @ - 2]
    /\ finalNow' = [finalNow EXCEPT ![l] = left = 1 /\ finalList[l] # <<>>]
    /\ active' = IF left = 0 THEN [active EXCEPT ![t] = Tail(@)] ELSE active
    /\ destroyed' = IF state[l] = 2 THEN destroyed \cup {l} ELSE destroyed
    /\ thread' = [thread EXCEPT ![t] = AtTop]
    /\ UNCHANGED <<refs, initiator, finalList, queueVars, offloads, call, closure, sent>>

\* The executor runs an offload closure: the combiner is in this ExecCtx now.
ExecutorRuns(t) ==
    /\ t \in Executors
    /\ call[t].pc = "none" /\ thread[t].pc = "top" /\ active[t] = <<>>
    /\ offloads # <<>>
    /\ active' = [active EXCEPT ![t] = <<Head(offloads)>>]
    /\ offloads' = Tail(offloads)
    /\ UNCHANGED <<lockVars, queueVars, thread, call, closure, sent>>

\* What a thread asks for.
Request(t) ==
    \E l \in Locks :
        \/ \E c \in Closures : CombinerExec(t, c, l) \/ FinallyExec(t, c, l) \/ FinallyExecSlow(t, c, l)
        \/ Unref(t, l)

\* What it does with what was asked for.
Work(t) ==
    \/ ExecFirst(t) \/ ExecOther(t) \/ PushSwap(t) \/ PushLink(t) \/ Orphan(t)
    \/ OffloadFinished(t) \/ BeginPop(t) \/ BeginFinal(t)
    \/ PopNothing(t) \/ PopStub(t) \/ PopNext(t) \/ PopLone(t) \/ PopHead(t)
    \/ StubSwap(t) \/ StubLink(t) \/ PopRetry(t)
    \/ CallbackEnds(t) \/ Finish(t) \/ ExecutorRuns(t)

Next == \E t \in AllThreads : Request(t) \/ Work(t)

Spec == Init /\ [][Next]_vars

\* Threads run, and closures return.
FairSpec == Spec /\ \A t \in AllThreads : WF_vars(Work(t))

-----------------------------------------------------------------------------
(***************************************************************************)
(* Properties.                                                             *)
(***************************************************************************)
\* "there will only every be one at a time" (combiner.h): a combiner with items is in
\* exactly one place, the list of one thread, the executor's queue, or the hands of
\* the thread whose item was the first, and an unlocked one in none. So no two of
\* its closures ever run at once.
OneOwner ==
    \A l \in Locks :
        LET Holding == {t \in AllThreads : l \in ToSet(active[t])}
            Taking == {t \in AllThreads : call[t].pc = "first" /\ call[t].lock = l}
            Handed == {i \in DOMAIN offloads : offloads[i] = l} IN
        Cardinality(Holding) + Cardinality(Taking) + Cardinality(Handed)
            = IF Count(l) > 0 THEN 1 ELSE 0

\* The count is what is waiting in the queue, pushed or about to be, plus the item
\* being run, plus one for the final list, whoever adds to it from where.
CountIsRight ==
    \A l \in Locks :
        LET Waiting == {c \in Closures : closure[c].lock = l /\ closure[c].status \in {"queued", "wrapped"}}
            Running == {t \in AllThreads : HasActive(t, l) /\ thread[t].pc \in {"running", "finish"}} IN
        Count(l) = Cardinality(Waiting) + Cardinality(Running)
                     + (IF finalList[l] = <<>> THEN 0 ELSE 1)

\* really_destroy and gpr_mpscq_destroy: when a combiner is freed nothing is queued,
\* its queue is back at its stub, and nobody can touch it any more.
DestroyedIsQuiet ==
    \A l \in destroyed :
        /\ state[l] = 0
        /\ head[l] = l /\ tail[l] = l
        /\ finalList[l] = <<>>
        /\ \A c \in Closures : closure[c].lock # l
        /\ \A t \in AllThreads :
            call[t].lock # l /\ call[t].prev # l /\ l \notin ToSet(active[t])
        /\ l \notin ToSet(offloads)

\* Closures that a thread schedules on a combiner begin in that order, whichever
\* thread runs them and whatever others push in between.
InThreadOrder ==
    [][\A t \in AllThreads : \A i, j \in DOMAIN sent[t] :
         /\ i < j
         /\ closure[sent[t][i]].lock = closure[sent[t][j]].lock
         /\ sent[t][j] \notin ToSet(sent'[t])
         => sent[t][i] \notin ToSet(sent'[t])]_vars

\* A scheduled closure is run: no handover between threads and executor, and no push
\* that is seen half done, leaves it behind.
EveryClosureRuns ==
    \A c \in Closures : closure[c].status # "idle" ~> closure[c].status = "idle"

\* A combiner nobody refers to is freed in the end.
OrphansAreFreed == \A l \in Locks : refs[l] = 0 ~> l \in destroyed
=============================================================================
