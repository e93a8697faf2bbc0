-------------------------- MODULE CombinerProofs --------------------------
(***************************************************************************)
(* Proofs about Combiner, for any threads, combiners and closures.         *)
(*                                                                         *)
(* The queue of a combiner is a list that nobody holds as such: nodes, the *)
(* links between them, and links that a push has yet to make.  The         *)
(* invariant says that there is a sequence that all of these agree with.   *)
(***************************************************************************)
EXTENDS Combiner, SequenceTheorems, FiniteSetTheorems, TLAPS

Pushing == {"first", "other", "swap"}
Popping == {"pop", "popHead", "stubSwap", "stubLink", "popLast"}
Executing == {"running", "finish"}

ThreadRecords ==
    [pc : {"top"} \cup Popping \cup Executing, cb : Closures \cup {Null}, rest : Seq(Closures),
     prev : Nodes \cup {Null}]

CallRecords ==
    [pc : {"none", "link", "orphan"} \cup Pushing, closure : Closures \cup {Null},
     lock : Locks \cup {Null}, prev : Nodes \cup {Null}]

ClosureRecords ==
    [status : {"idle", "queued", "wrapped", "final"}, lock : Locks \cup {Null}, times : Nat]

CombinerTypeOK ==
    /\ state \in [Locks -> Nat]
    /\ refs \in [Locks -> Nat]
    /\ head \in [Locks -> Nodes] /\ tail \in [Locks -> Nodes]
    /\ next \in [Nodes -> Nodes \cup {Null}]
    /\ initiator \in [Locks -> AllThreads \cup {Null}]
    /\ finalNow \in [Locks -> BOOLEAN]
    /\ finalList \in [Locks -> Seq(Closures)]
    /\ destroyed \subseteq Locks
    /\ active \in [AllThreads -> Seq(Locks)]
    /\ offloads \in Seq(Locks)
    /\ thread \in [AllThreads -> ThreadRecords]
    /\ call \in [AllThreads -> CallRecords]
    /\ closure \in [Closures -> ClosureRecords]
    /\ sent \in [AllThreads -> Seq(Closures)]

-----------------------------------------------------------------------------
(***************************************************************************)
(* Who has a combiner.                                                     *)
(***************************************************************************)
Lists(t, l) == l \in ToSet(active[t])
Takes(t, l) == call[t].pc = "first" /\ call[t].lock = l
Handed(l) == l \in ToSet(offloads)

\* A combiner is in at most one place.
AtMostOneOwner ==
    /\ \A t \in AllThreads : IsInjective(active[t])
    /\ IsInjective(offloads)
    /\ \A l \in Locks : \A t, u \in AllThreads :
        /\ Lists(t, l) /\ Lists(u, l) => t = u
        /\ Takes(t, l) /\ Takes(u, l) => t = u
        /\ ~(Lists(t, l) /\ Takes(u, l))
        /\ ~(Lists(t, l) /\ Handed(l))
        /\ ~(Takes(t, l) /\ Handed(l))

\* It is in one if and only if the count says that there is something to run.
OwnedIfCounted ==
    \A l \in Locks : Count(l) > 0 <=> \/ \E t \in AllThreads : Lists(t, l) \/ Takes(t, l)
                                      \/ Handed(l)

\* Who is past the top of grpc_combiner_continue_exec_ctx has a combiner.
BusyHasCombiner == \A t \in AllThreads : thread[t].pc # "top" => active[t] # <<>>

-----------------------------------------------------------------------------
(***************************************************************************)
(* Calls and closures.                                                     *)
(***************************************************************************)
WaitsFor(c, l) == closure[c].lock = l /\ closure[c].status \in {"queued", "wrapped"}

\* A closure that is being scheduled waits on that combiner, and by one thread only.
CallsPush ==
    /\ \A t \in AllThreads : call[t].pc \in Pushing \cup {"link"} =>
        /\ call[t].closure \in Closures /\ call[t].lock \in Locks
        /\ WaitsFor(call[t].closure, call[t].lock)
    /\ \A t, u \in AllThreads :
        /\ call[t].pc \in Pushing \cup {"link"} /\ call[u].pc \in Pushing \cup {"link"}
        /\ call[t].closure = call[u].closure
        => t = u
    /\ \A t \in AllThreads :
        /\ call[t].pc = "none" => call[t].lock = Null
        /\ call[t].pc # "link" => call[t].prev = Null

\* Idle closures belong to no combiner, others to one.
ClosuresPlaced ==
    \A c \in Closures : IF closure[c].status = "idle" THEN closure[c].lock = Null
                        ELSE closure[c].lock \in Locks

FinalOn(c, l) == closure[c].status = "final" /\ closure[c].lock = l

\* The final list holds closures that wait for it, each once,
FinalListed ==
    \A l \in Locks : IsInjective(finalList[l]) /\ \A c \in ToSet(finalList[l]) : FinalOn(c, l)

\* and so does the part of it that is being run.
RestListed ==
    \A t \in AllThreads :
        /\ IsInjective(thread[t].rest)
        /\ thread[t].rest # <<>> => thread[t].pc = "running"
        /\ \A c \in ToSet(thread[t].rest) : FinalOn(c, Mine(t))

\* They are on one of the two.
FinalsFound ==
    /\ \A l \in Locks, t \in AllThreads : ToSet(finalList[l]) \cap ToSet(thread[t].rest) = {}
    /\ \A c \in Closures, l \in Locks : FinalOn(c, l) =>
        \/ c \in ToSet(finalList[l])
        \/ \E t \in AllThreads : HasActive(t, l) /\ c \in ToSet(thread[t].rest)

\* What a thread has sent and has not begun waits, and what it is sending is the last.
SentWaits ==
    /\ \A t \in AllThreads : IsInjective(sent[t])
    /\ \A t \in AllThreads : \A c \in ToSet(sent[t]) : closure[c].status \in {"queued", "wrapped"}
    /\ \A t, u \in AllThreads : \A c \in ToSet(sent[t]) : c \in ToSet(sent[u]) => t = u
    /\ \A t \in AllThreads : call[t].pc \in Pushing =>
        sent[t] # <<>> /\ sent[t][Len(sent[t])] = call[t].closure

\* When the final list is due there is one, or it is being run.
FinalDue ==
    \A l \in Locks : finalNow[l] =>
        \/ finalList[l] # <<>>
        \/ \E t \in AllThreads : HasActive(t, l) /\ thread[t].pc \in Executing

-----------------------------------------------------------------------------
(***************************************************************************)
(* The count.                                                              *)
(***************************************************************************)
Orphans(t, l) == call[t].pc = "orphan" /\ call[t].lock = l

\* Some reference is held, or is just being given up.
Held(l) == refs[l] > 0 \/ \E t \in AllThreads : Orphans(t, l)

Waiting(l) == {c \in Closures : WaitsFor(c, l)}
Runs(t, l) == HasActive(t, l) /\ thread[t].pc \in Executing
Items(l) == Cardinality(Waiting(l))
              + (IF \E t \in AllThreads : Runs(t, l) THEN 1 ELSE 0)
              + (IF finalList[l] = <<>> THEN 0 ELSE 1)

StateIsItems ==
    \A l \in Locks : state[l] = 2 * Items(l) + (IF Held(l) THEN 1 ELSE 0)

\* The last reference is given up once, and the combiner freed when state gets to 0.
FreedAtZero ==
    /\ \A l \in Locks : l \in destroyed <=> state[l] = 0
    /\ \A l \in Locks : \A t, u \in AllThreads :
        Orphans(t, l) => refs[l] = 0 /\ (Orphans(u, l) => t = u)
    /\ \A t \in AllThreads : call[t].pc = "orphan" => call[t].lock \in Locks

-----------------------------------------------------------------------------
(***************************************************************************)
(* The queue.                                                              *)
(***************************************************************************)
Orders == Seq(Nodes)

Pushed(c) == \A t \in AllThreads : call[t].pc \in Pushing => call[t].closure # c

\* q is what waits in the queue of l, in order.
IsQueue(l, q) ==
    /\ q # <<>> /\ IsInjective(q)
    /\ ToSet(q) \subseteq Closures \cup {l}
    /\ q[1] = tail[l] /\ q[Len(q)] = head[l]
    /\ next[q[Len(q)]] = Null
    /\ \A i \in 1..(Len(q) - 1) : next[q[i]] \in {q[i + 1], Null}
    /\ \A c \in Closures : c \in ToSet(q) <=> WaitsFor(c, l) /\ Pushed(c)
    /\ \A t \in AllThreads : call[t].pc = "link" /\ call[t].lock = l =>
        \E i \in 1..(Len(q) - 1) : /\ call[t].prev = q[i] /\ call[t].closure = q[i + 1]
                                   /\ next[q[i]] = Null
\* The thread that pops from it knows where the stub is.
StubKnown(l, q) ==
    \A t \in AllThreads : HasActive(t, l) =>
        /\ thread[t].pc \in Popping \ {"pop"} => tail[l] # l
        /\ thread[t].pc = "stubSwap" => l \notin ToSet(q)
        /\ thread[t].pc = "stubLink" =>
            \E i \in 1..(Len(q) - 1) : /\ thread[t].prev = q[i] /\ l = q[i + 1]
                                       /\ next[q[i]] = Null

\* What a thread has sent to l is in the queue in that order.
KeepsOrder(l, q) ==
    \A t \in AllThreads : \A i, j \in DOMAIN sent[t] :
        /\ i < j
        /\ closure[sent[t][i]].lock = l
        /\ sent[t][j] \in ToSet(q)
        => \E a, b \in DOMAIN q : a < b /\ q[a] = sent[t][i] /\ q[b] = sent[t][j]

Queue(l, q) == IsQueue(l, q) /\ StubKnown(l, q) /\ KeepsOrder(l, q)

QueuesLinked == \A l \in Locks : \E q \in Orders : Queue(l, q)

CombinerIInv ==
    /\ CombinerTypeOK
    /\ AtMostOneOwner /\ OwnedIfCounted /\ BusyHasCombiner
    /\ CallsPush /\ ClosuresPlaced /\ SentWaits
    /\ FinalListed /\ RestListed /\ FinalsFound /\ FinalDue
    /\ StateIsItems /\ FreedAtZero
    /\ QueuesLinked

-----------------------------------------------------------------------------
(***************************************************************************)
(* Sequences without repetition.                                           *)
(***************************************************************************)
\* Taking the head away.
LEMMA TailFacts ==
    ASSUME NEW S, NEW s \in Seq(S), s # <<>>
    PROVE  /\ Head(s) \in S /\ Head(s) = s[1] /\ Tail(s) \in Seq(S)
           /\ Len(s) \in Nat \ {0} /\ Len(Tail(s)) = Len(s) - 1
           /\ \A i \in 1..(Len(s) - 1) : Tail(s)[i] = s[i + 1]
           /\ ToSet(s) = {Head(s)} \cup ToSet(Tail(s))
           /\ IsInjective(s) => IsInjective(Tail(s)) /\ Head(s) \notin ToSet(Tail(s))
  <1>1. /\ Head(s) \in S /\ Head(s) = s[1] /\ Tail(s) \in Seq(S)
        /\ Len(s) \in Nat \ {0} /\ Len(Tail(s)) = Len(s) - 1
        /\ \A i \in 1..(Len(s) - 1) : Tail(s)[i] = s[i + 1]
    BY HeadTailProperties, EmptySeq, LenProperties
  <1>2. DOMAIN s = 1..Len(s) /\ DOMAIN Tail(s) = 1..(Len(s) - 1)
    BY <1>1, LenProperties
  <1>3. ToSet(s) = {Head(s)} \cup ToSet(Tail(s))
    <2>1. ASSUME NEW i \in 1..Len(s) PROVE s[i] \in {Head(s)} \cup ToSet(Tail(s))
      <3>1. CASE i = 1
        BY <3>1, <1>1
      <3>2. CASE i # 1
        <4>1. i - 1 \in 1..(Len(s) - 1) /\ Tail(s)[i - 1] = s[i]
          BY <3>2, <1>1
        <4> QED
          BY <4>1, <1>2 DEF ToSet
      <3> QED
        BY <3>1, <3>2
    <2>2. ASSUME NEW i \in 1..(Len(s) - 1) PROVE Tail(s)[i] \in ToSet(s)
      BY <1>1, <1>2 DEF ToSet
    <2> QED
      BY <2>1, <2>2, <1>1, <1>2 DEF ToSet
  <1>4. IsInjective(s) => IsInjective(Tail(s)) /\ Head(s) \notin ToSet(Tail(s))
    BY <1>1, <1>2 DEF IsInjective, ToSet
  <1> QED
    BY <1>1, <1>3, <1>4

\* Appending an element.
LEMMA AppendFacts ==
    ASSUME NEW S, NEW s \in Seq(S), NEW x \in S
    PROVE  /\ Append(s, x) \in Seq(S) /\ Append(s, x) # <<>>
           /\ Len(s) \in Nat /\ Len(Append(s, x)) = Len(s) + 1
           /\ Append(s, x)[Len(s) + 1] = x
           /\ \A i \in 1..Len(s) : Append(s, x)[i] = s[i]
           /\ ToSet(Append(s, x)) = ToSet(s) \cup {x}
           /\ IsInjective(s) /\ x \notin ToSet(s) => IsInjective(Append(s, x))
           /\ s # <<>> => Head(Append(s, x)) = Head(s)
           /\ s = <<>> => Head(Append(s, x)) = x
  <1>1. /\ Append(s, x) \in Seq(S) /\ Append(s, x) # <<>>
        /\ Len(s) \in Nat /\ Len(Append(s, x)) = Len(s) + 1
        /\ Append(s, x)[Len(s) + 1] = x
        /\ \A i \in 1..Len(s) : Append(s, x)[i] = s[i]
    BY AppendProperties, LenProperties
  <1>2. DOMAIN s = 1..Len(s) /\ DOMAIN Append(s, x) = 1..(Len(s) + 1)
    BY <1>1, LenProperties
  <1>3. ToSet(Append(s, x)) = ToSet(s) \cup {x}
    <2>1. \A i \in DOMAIN Append(s, x) : Append(s, x)[i] \in ToSet(s) \cup {x}
      BY <1>1, <1>2 DEF ToSet
    <2>2. x \in ToSet(Append(s, x)) /\ \A i \in DOMAIN s : s[i] \in ToSet(Append(s, x))
      BY <1>1, <1>2 DEF ToSet
    <2> QED
      BY <2>1, <2>2 DEF ToSet
  <1>4. IsInjective(s) /\ x \notin ToSet(s) => IsInjective(Append(s, x))
    BY <1>1, <1>2 DEF ToSet, IsInjective
  <1>5. /\ s # <<>> => Head(Append(s, x)) = Head(s)
        /\ s = <<>> => Head(Append(s, x)) = x
    BY HeadTailAppend
  <1> QED
    BY <1>1, <1>3, <1>4, <1>5

\* What is in a sequence is of its element type.
LEMMA ToSetType ==
    ASSUME NEW S, NEW s \in Seq(S)
    PROVE  /\ ToSet(s) \subseteq S /\ DOMAIN s = 1..Len(s) /\ Len(s) \in Nat
           /\ \A i \in 1..Len(s) : s[i] \in S /\ s[i] \in ToSet(s)
           /\ s = <<>> <=> ToSet(s) = {}
           /\ s = <<>> <=> Len(s) = 0
  <1>1. DOMAIN s = 1..Len(s) /\ Len(s) \in Nat /\ \A i \in 1..Len(s) : s[i] \in S
    BY LenProperties, ElementOfSeq
  <1>2. s = <<>> <=> Len(s) = 0
    BY EmptySeq
  <1>3. Len(s) # 0 => s[1] \in ToSet(s)
    BY <1>1 DEF ToSet
  <1>4. Len(s) = 0 => ToSet(s) = {}
    BY <1>1 DEF ToSet
  <1>5. ToSet(s) \subseteq S /\ \A i \in 1..Len(s) : s[i] \in ToSet(s)
    BY <1>1 DEF ToSet
  <1> QED
    BY <1>1, <1>2, <1>3, <1>4, <1>5

\* Removing an element of a sequence without repetition keeps the order of the rest.
LEMMA RemoveFirstFacts ==
    ASSUME NEW S, NEW s \in Seq(S), NEW x, IsInjective(s)
    PROVE  /\ RemoveFirst(s, x) \in Seq(S)
           /\ IsInjective(RemoveFirst(s, x))
           /\ ToSet(RemoveFirst(s, x)) = ToSet(s) \ {x}
           /\ \A i, j \in DOMAIN RemoveFirst(s, x) : i < j =>
                \E a, b \in DOMAIN s : /\ a < b
                                       /\ s[a] = RemoveFirst(s, x)[i]
                                       /\ s[b] = RemoveFirst(s, x)[j]
           /\ s # <<>> /\ s[Len(s)] # x =>
                /\ RemoveFirst(s, x) # <<>>
                /\ RemoveFirst(s, x)[Len(RemoveFirst(s, x))] = s[Len(s)]
  <1> DEFINE r == RemoveFirst(s, x)
  <1>0. DOMAIN s = 1..Len(s) /\ Len(s) \in Nat
    BY LenProperties
  <1>1. CASE \A i \in 1..Len(s) : s[i] # x
    <2>1. r = s
      BY <1>1 DEF RemoveFirst
    <2>2. ToSet(s) = ToSet(s) \ {x}
      BY <1>0, <1>1 DEF ToSet
    <2> HIDE DEF r
    <2> QED
      BY <2>1, <2>2 DEF r
  <1>2. CASE \E i \in 1..Len(s) : s[i] = x
    <2>1. PICK k \in 1..Len(s) : s[k] = x
      BY <1>2
    <2>a. \A i \in 1..Len(s) : s[i] \in S
      BY ElementOfSeq
    <2>2. {i \in 1..Len(s) : s[i] = x} = {k}
      BY <2>1, <1>0 DEF IsInjective
    <2>3. Min({k}) = k
      BY DEF Min
    <2>4. r = SubSeq(s, 1, k - 1) \o SubSeq(s, k + 1, Len(s))
      BY <2>1, <2>2, <2>3 DEF RemoveFirst, RemoveAt, SelectInSeq
    <2>5. /\ SubSeq(s, 1, k - 1) \in Seq(S) /\ Len(SubSeq(s, 1, k - 1)) = k - 1
          /\ \A i \in 1..(k - 1) : SubSeq(s, 1, k - 1)[i] = s[i]
      <3>1. \A i \in 1..(k - 1) : s[i] \in S
        BY <2>a, <1>0
      <3> QED
        BY <3>1, SubSeqProperties, <1>0
    <2>6. /\ SubSeq(s, k + 1, Len(s)) \in Seq(S) /\ Len(SubSeq(s, k + 1, Len(s))) = Len(s) - k
          /\ \A i \in 1..(Len(s) - k) : SubSeq(s, k + 1, Len(s))[i] = s[k + i]
      <3>1. \A i \in (k + 1)..Len(s) : s[i] \in S
        BY <2>a, <1>0
      <3>2. k + 1 \in Int /\ Len(s) \in Int /\ Len(s) - (k + 1) + 1 = Len(s) - k
        BY <1>0
      <3> DEFINE u == SubSeq(s, k + 1, Len(s))
      <3>3. /\ u \in Seq(S) /\ Len(u) = IF k + 1 <= Len(s) THEN Len(s) - (k + 1) + 1 ELSE 0
            /\ \A i \in 1..(Len(s) - (k + 1) + 1) : u[i] = s[(k + 1) + i - 1]
        BY <3>1, <3>2, SubSeqProperties
      <3> HIDE DEF u
      <3>4. \A i \in 1..(Len(s) - k) : (k + 1) + i - 1 = k + i
        BY <1>0
      <3>5. u \in Seq(S) /\ Len(u) = Len(s) - k /\ \A i \in 1..(Len(s) - k) : u[i] = s[k + i]
        <4>1. Len(u) = Len(s) - k
          <5>1. Len(s) \in Nat /\ k \in Nat /\ k <= Len(s)
            BY <1>0
          <5>2. ~(k + 1 <= Len(s)) => Len(s) - k = 0
            BY <5>1
          <5>3. k + 1 <= Len(s) => Len(u) = Len(s) - k
            BY <3>2, <3>3
          <5>4. ~(k + 1 <= Len(s)) => Len(u) = 0
            BY <3>3
          <5> QED
            BY <5>2, <5>3, <5>4
        <4>2. ASSUME NEW i \in 1..(Len(s) - k) PROVE u[i] = s[k + i]
          BY <3>2, <3>3, <3>4
        <4> QED
          BY <3>3, <4>1, <4>2
      <3> QED
        BY <3>5 DEF u
    <2> HIDE DEF r
    <2>7. /\ r \in Seq(S) /\ Len(r) = Len(s) - 1
          /\ \A i \in 1..(Len(s) - 1) : r[i] = s[IF i < k THEN i ELSE i + 1]
      <3> DEFINE u == SubSeq(s, 1, k - 1)
                 v == SubSeq(s, k + 1, Len(s))
      <3>1. u \in Seq(S) /\ v \in Seq(S) /\ r = u \o v /\ Len(u) = k - 1 /\ Len(v) = Len(s) - k
        BY <2>4, <2>5, <2>6
      <3>2. (\A i \in 1..(k - 1) : u[i] = s[i]) /\ \A i \in 1..(Len(s) - k) : v[i] = s[k + i]
        BY <2>5, <2>6
      <3> HIDE DEF u, v
      <3>3. /\ r \in Seq(S) /\ Len(r) = Len(u) + Len(v)
            /\ \A i \in 1..(Len(u) + Len(v)) : r[i] = IF i <= Len(u) THEN u[i] ELSE v[i - Len(u)]
        BY <3>1, ConcatProperties
      <3>4. Len(u) + Len(v) = Len(s) - 1 /\ k \in Int /\ Len(s) \in Nat
        BY <3>1, <1>0
      <3>5. ASSUME NEW i \in 1..(Len(s) - 1) PROVE r[i] = s[IF i < k THEN i ELSE i + 1]
        <4>1. CASE i < k
          BY <4>1, <3>1, <3>2, <3>3, <3>4
        <4>2. CASE ~(i < k)
          <5>1. i - Len(u) \in 1..(Len(s) - k) /\ k + (i - Len(u)) = i + 1 /\ ~(i <= Len(u))
            BY <4>2, <3>1, <3>4
          <5>2. r[i] = v[i - Len(u)]
            BY <5>1, <3>3, <3>4
          <5>3. v[i - Len(u)] = s[k + (i - Len(u))]
            BY <5>1, <3>2
          <5> QED
            BY <4>2, <5>1, <5>2, <5>3
        <4> QED
          BY <4>1, <4>2
      <3> QED
        BY <3>3, <3>4, <3>5
    <2>8. DOMAIN r = 1..(Len(s) - 1)
      BY <2>7, LenProperties
    <2>9. IsInjective(r)
      <3> SUFFICES ASSUME NEW i \in DOMAIN r, NEW j \in DOMAIN r, r[i] = r[j] PROVE i = j
        BY DEF IsInjective
      <3> DEFINE a == IF i < k THEN i ELSE i + 1
                 b == IF j < k THEN j ELSE j + 1
      <3>1. a \in DOMAIN s /\ b \in DOMAIN s /\ (a = b => i = j)
        BY <2>8, <1>0
      <3>2. s[a] = s[b]
        BY <2>7, <2>8
      <3> QED
        BY <3>1, <3>2 DEF IsInjective
    <2>10. ToSet(r) = ToSet(s) \ {x}
      <3>1. ASSUME NEW i \in 1..(Len(s) - 1) PROVE r[i] \in ToSet(s) \ {x}
        BY <2>1, <2>7, <1>0, SMTT(40) DEF IsInjective, ToSet
      <3>2. ASSUME NEW i \in 1..Len(s), s[i] # x PROVE s[i] \in ToSet(r)
        <4> DEFINE j == IF i < k THEN i ELSE i - 1
        <4>1. j \in 1..(Len(s) - 1) /\ r[j] = s[i]
          BY <2>1, <2>7, <3>2, <1>0
        <4> QED
          BY <4>1, <2>8 DEF ToSet
      <3> QED
        BY <3>1, <3>2, <2>8, <1>0 DEF ToSet
    <2>11. ASSUME NEW i \in DOMAIN r, NEW j \in DOMAIN r, i < j
           PROVE  \E a, b \in DOMAIN s : a < b /\ s[a] = r[i] /\ s[b] = r[j]
      <3> DEFINE a == IF i < k THEN i ELSE i + 1
                 b == IF j < k THEN j ELSE j + 1
      <3>1. a \in DOMAIN s /\ b \in DOMAIN s /\ a < b
        BY <2>8, <2>11, <1>0
      <3>2. s[a] = r[i] /\ s[b] = r[j]
        BY <2>7, <2>8
      <3> QED
        BY <3>1, <3>2
    <2>12. ASSUME s[Len(s)] # x
           PROVE  r # <<>> /\ r[Len(r)] = s[Len(s)]
      <3>1. k < Len(s)
        BY <2>1, <2>12, <1>0
      <3>2. Len(r) \in 1..(Len(s) - 1) /\ ~(Len(r) < k)
        BY <3>1, <2>7, <1>0
      <3> QED
        BY <3>2, <2>7, EmptySeq
    <2> QED
      BY <2>7, <2>9, <2>10, <2>11, <2>12 DEF r
  <1> QED
    BY <1>1, <1>2

-----------------------------------------------------------------------------
(***************************************************************************)
(* The invariant holds at the start.                                       *)
(***************************************************************************)
\* All combiners are created unlocked, with their references handed out.
LEMMA InitCombinerIInv == Init => CombinerIInv
  <1> SUFFICES ASSUME Init PROVE CombinerIInv
    OBVIOUS
  <1> USE DEF Init, AtTop, NoCall, IdleClosure
  <1>1. CombinerTypeOK
    BY RefsAssumption DEF CombinerTypeOK, ThreadRecords, CallRecords, ClosureRecords,
                          Popping, Executing, Pushing, Nodes
  <1>2. \A t \in AllThreads : ToSet(active[t]) = {} /\ ToSet(sent[t]) = {}
    BY DEF ToSet
  <1>3. ToSet(offloads) = {}
    BY DEF ToSet
  <1>4. AtMostOneOwner
    BY <1>2, <1>3 DEF AtMostOneOwner, Lists, Takes, Handed, IsInjective
  <1>5. \A l \in Locks : Count(l) = 0
    BY DEF Count
  <1>6. OwnedIfCounted
    BY <1>2, <1>3, <1>5 DEF OwnedIfCounted, Lists, Takes, Handed
  <1>7. BusyHasCombiner /\ CallsPush /\ ClosuresPlaced /\ FinalDue
    BY DEF BusyHasCombiner, CallsPush, ClosuresPlaced, FinalDue, Pushing
  <1>8. FinalListed /\ RestListed /\ FinalsFound
    BY DEF FinalListed, RestListed, FinalsFound, FinalOn, IsInjective, ToSet
  <1>9. SentWaits
    BY <1>2 DEF SentWaits, IsInjective, Pushing
  <1>10. StateIsItems
    <2>1. \A l \in Locks : Waiting(l) = {}
      BY DEF Waiting, WaitsFor
    <2>2. \A l \in Locks : Items(l) = 0
      <3> SUFFICES ASSUME NEW l \in Locks PROVE Items(l) = 0
        OBVIOUS
      <3>1. Cardinality(Waiting(l)) = 0
        BY <2>1, FS_EmptySet
      <3>2. (\A t \in AllThreads : ~Runs(t, l)) /\ finalList[l] = <<>>
        BY DEF Runs, HasActive
      <3> QED
        BY <3>1, <3>2 DEF Items
    <2> QED
      BY <2>2, RefsAssumption DEF StateIsItems, Held
  <1>11. FreedAtZero
    BY DEF FreedAtZero, Orphans
  <1>12. ASSUME NEW l \in Locks PROVE \E q \in Orders : Queue(l, q)
    <2>1. <<l>> \in Orders /\ <<l>> # <<>> /\ Len(<<l>>) = 1 /\ <<l>>[1] = l /\ DOMAIN <<l>> = {1}
      BY DEF Orders, Nodes
    <2>2. ToSet(<<l>>) = {l} /\ IsInjective(<<l>>)
      BY <2>1 DEF ToSet, IsInjective
    <2>3. l \notin Closures /\ l \in Nodes
      BY NodesAssumption DEF Nodes
    <2>4. IsQueue(l, <<l>>)
      BY <2>1, <2>2, <2>3 DEF IsQueue, WaitsFor
    <2>5. KeepsOrder(l, <<l>>) /\ StubKnown(l, <<l>>)
      BY DEF KeepsOrder, StubKnown, HasActive
    <2> QED
      BY <2>1, <2>4, <2>5 DEF Queue
  <1> QED
    BY <1>1, <1>4, <1>6, <1>7, <1>8, <1>9, <1>10, <1>11, <1>12 DEF CombinerIInv, QueuesLinked

-----------------------------------------------------------------------------
(***************************************************************************)
(* What the steps have in common.                                          *)
(***************************************************************************)
\* The combiner a thread runs is one it lists.
LEMMA MineFacts ==
    ASSUME CombinerTypeOK, NEW t \in AllThreads, active[t] # <<>>
    PROVE  /\ Mine(t) \in Locks /\ Lists(t, Mine(t)) /\ HasActive(t, Mine(t))
           /\ \A l : HasActive(t, l) => l = Mine(t)
  <1>1. active[t] \in Seq(Locks)
    BY DEF CombinerTypeOK
  <1>2. Head(active[t]) \in Locks /\ Head(active[t]) \in ToSet(active[t])
    BY <1>1, TailFacts
  <1> QED
    BY <1>2 DEF Mine, Lists, HasActive

\* Nobody else runs it.
LEMMA OneRunner ==
    ASSUME CombinerTypeOK, AtMostOneOwner, NEW l \in Locks, NEW t \in AllThreads,
           NEW u \in AllThreads, HasActive(t, l), HasActive(u, l)
    PROVE  t = u
  BY MineFacts DEF AtMostOneOwner, HasActive

\* The items of a combiner that a step does not touch.
LEMMA ItemsFrame ==
    ASSUME NEW l \in Locks, Waiting(l)' = Waiting(l),
           (\E t \in AllThreads : Runs(t, l))' <=> (\E t \in AllThreads : Runs(t, l)),
           finalList'[l] = finalList[l]
    PROVE  Items(l)' = Items(l)
  BY DEF Items

\* The queue stays as it is if only threads move.
LEMMA QueueFrame ==
    ASSUME NEW l \in Locks, NEW q, IsQueue(l, q), KeepsOrder(l, q),
           UNCHANGED <<queueVars, call, closure, sent>>
    PROVE  IsQueue(l, q)' /\ KeepsOrder(l, q)'
  <1>1. KeepsOrder(l, q)'
    BY DEF KeepsOrder
  <1>2. \A c \in Closures : (WaitsFor(c, l) /\ Pushed(c))' <=> WaitsFor(c, l) /\ Pushed(c)
    BY DEF WaitsFor, Pushed
  <1>3. IsQueue(l, q)'
    BY <1>2 DEF IsQueue, queueVars
  <1> QED
    BY <1>1, <1>3

\* So does the place of the stub if whoever pops was popping.
LEMMA StubFrame ==
    ASSUME NEW l \in Locks, NEW q, StubKnown(l, q), UNCHANGED <<tail, next>>,
           \A u \in AllThreads : HasActive(u, l)' /\ thread'[u].pc \in Popping
                                 => HasActive(u, l) /\ thread'[u] = thread[u]
    PROVE  StubKnown(l, q)'
  <1>1. "stubSwap" \in Popping /\ "stubLink" \in Popping
    BY DEF Popping
  <1> QED
    BY <1>1 DEF StubKnown

\* What does not depend on the threads' own steps.
LEMMA CallFrame ==
    ASSUME CombinerIInv, UNCHANGED <<state, refs, destroyed, finalList, call, closure, sent>>
    PROVE  /\ CallsPush' /\ ClosuresPlaced' /\ SentWaits' /\ FreedAtZero' /\ FinalListed'
           /\ \A l \in Locks : Waiting(l)' = Waiting(l) /\ Held(l)' = Held(l) /\ Count(l)' = Count(l)
           /\ \A t \in AllThreads, l \in Locks : Takes(t, l)' = Takes(t, l)
  <1> USE DEF CombinerIInv
  <1>1. CallsPush' /\ ClosuresPlaced'
    BY DEF CallsPush, ClosuresPlaced, WaitsFor
  <1>2. SentWaits'
    BY DEF SentWaits
  <1>3. FreedAtZero'
    BY DEF FreedAtZero, Orphans
  <1>4. FinalListed'
    BY DEF FinalListed, FinalOn
  <1>5. \A l \in Locks : Waiting(l)' = Waiting(l)
    BY DEF Waiting, WaitsFor
  <1>6. \A l \in Locks : Held(l)' = Held(l) /\ Count(l)' = Count(l)
    BY DEF Held, Orphans, Count
  <1>7. \A t \in AllThreads, l \in Locks : Takes(t, l)' = Takes(t, l)
    BY DEF Takes
  <1> QED
    BY <1>1, <1>2, <1>3, <1>4, <1>5, <1>6, <1>7

\* A thread moves on within gpr_mpscq_pop, or begins it: all but the queue.
LEMMA PopStepFrame ==
    ASSUME CombinerIInv, NEW t \in AllThreads,
           active[t] # <<>>, thread[t].pc \in {"top"} \cup Popping,
           thread'[t].pc \in Popping, thread'[t].rest = thread[t].rest,
           \A u \in AllThreads \ {t} : thread'[u] = thread[u],
           UNCHANGED <<lockVars, active, offloads, call, closure, sent>>
    PROVE  /\ AtMostOneOwner' /\ OwnedIfCounted' /\ BusyHasCombiner'
           /\ CallsPush' /\ ClosuresPlaced' /\ SentWaits'
           /\ FinalListed' /\ RestListed' /\ FinalsFound' /\ FinalDue'
           /\ StateIsItems' /\ FreedAtZero'
  <1> USE DEF CombinerIInv, lockVars
  <1>1. AtMostOneOwner' /\ OwnedIfCounted'
    BY DEF AtMostOneOwner, OwnedIfCounted, Lists, Takes, Handed, Count
  <1>2. BusyHasCombiner'
    BY DEF BusyHasCombiner
  <1>3. CallsPush' /\ ClosuresPlaced' /\ SentWaits' /\ FreedAtZero' /\ FinalListed'
    BY CallFrame
  <1>4. RestListed' /\ FinalsFound'
    <2>1. \A u \in AllThreads : thread'[u].rest = thread[u].rest
      OBVIOUS
    <2>2. thread[t].rest = <<>>
      BY DEF RestListed, Popping
    <2>3. RestListed'
      BY <2>2 DEF RestListed, Mine, FinalOn
    <2>4. FinalsFound'
      BY <2>1 DEF FinalsFound, FinalOn, HasActive
    <2> QED
      BY <2>3, <2>4
  <1>5. \A u \in AllThreads : thread'[u].pc \in Executing <=> thread[u].pc \in Executing
    BY DEF Popping, Executing
  <1>6. FinalDue'
    BY <1>5 DEF FinalDue, HasActive
  <1>7. \A l \in Locks : Items(l)' = Items(l)
    BY <1>5, CallFrame, ItemsFrame DEF Runs, HasActive
  <1>8. StateIsItems'
    BY <1>7, CallFrame DEF StateIsItems
  <1> QED
    BY <1>1, <1>2, <1>3, <1>4, <1>6, <1>8

\* The same, with the queue, if no node is touched.
LEMMA ThreadMoves ==
    ASSUME CombinerIInv, NEW t \in AllThreads, NEW pc \in Popping \ {"stubLink"},
           active[t] # <<>>, thread[t].pc \in {"top"} \cup Popping,
           thread' = [thread EXCEPT ![t].pc = pc],
           pc # "pop" => tail[Mine(t)] # Mine(t),
           pc = "stubSwap" => \A q \in Orders : IsQueue(Mine(t), q) => Mine(t) \notin ToSet(q),
           UNCHANGED <<lockVars, queueVars, active, offloads, call, closure, sent>>
    PROVE  CombinerIInv'
  <1> USE DEF CombinerIInv, lockVars, queueVars
  <1>1. /\ \A u \in AllThreads \ {t} : thread'[u] = thread[u]
        /\ thread'[t].pc = pc /\ thread'[t].rest = thread[t].rest
    BY DEF CombinerTypeOK, ThreadRecords
  <1>2. CombinerTypeOK'
    <2>1. thread' \in [AllThreads -> ThreadRecords]
      BY ZenonT(60) DEF CombinerTypeOK, ThreadRecords
    <2> QED
      BY <2>1 DEF CombinerTypeOK
  <1>3. /\ AtMostOneOwner' /\ OwnedIfCounted' /\ BusyHasCombiner'
        /\ CallsPush' /\ ClosuresPlaced' /\ SentWaits'
        /\ FinalListed' /\ RestListed' /\ FinalsFound' /\ FinalDue'
        /\ StateIsItems' /\ FreedAtZero'
    BY <1>1, PopStepFrame
  <1>4. ASSUME NEW l \in Locks, NEW q \in Orders, Queue(l, q) PROVE Queue(l, q)'
    <2>1. ASSUME NEW u \in AllThreads, HasActive(u, l)
          PROVE  /\ thread'[u].pc \in Popping \ {"pop"} => tail[l] # l
                 /\ thread'[u].pc = "stubSwap" => l \notin ToSet(q)
                 /\ thread'[u].pc = "stubLink" =>
                    \E i \in 1..(Len(q) - 1) : /\ thread'[u].prev = q[i] /\ l = q[i + 1]
                                               /\ next[q[i]] = Null
      <3>1. CASE u = t
        BY <2>1, <3>1, <1>1, <1>4, MineFacts DEF Queue
      <3>2. CASE u # t
        BY <2>1, <3>2, <1>1, <1>4 DEF Queue, StubKnown
      <3> QED
        BY <3>1, <3>2
    <2>2. StubKnown(l, q)'
      BY <2>1 DEF StubKnown, HasActive
    <2> QED
      BY <2>2, <1>4, QueueFrame DEF Queue
  <1>5. QueuesLinked'
    BY <1>4 DEF QueuesLinked, Orders
  <1> QED
    BY <1>2, <1>3, <1>5

\* queue_offload hands the combiner to the executor.
LEMMA QueueOffloadIInv ==
    ASSUME CombinerIInv, NEW t \in AllThreads, active[t] # <<>>,
           thread[t].pc \in {"top"} \cup Popping, QueueOffload(t),
           UNCHANGED <<lockVars, queueVars, call, closure, sent>>
    PROVE  CombinerIInv'
  <1> USE DEF CombinerIInv, lockVars, queueVars
  <1> DEFINE m == Mine(t)
  <1>0. m \in Locks /\ Lists(t, m) /\ HasActive(t, m)
    BY MineFacts
  <1> HIDE DEF m
  <1>1. /\ active[t] \in Seq(Locks) /\ IsInjective(active[t])
        /\ offloads \in Seq(Locks) /\ IsInjective(offloads) /\ m \notin ToSet(offloads)
    BY <1>0 DEF CombinerTypeOK, AtMostOneOwner, Handed
  <1>2. /\ active' \in [AllThreads -> Seq(Locks)] /\ offloads' \in Seq(Locks)
        /\ IsInjective(active'[t]) /\ IsInjective(offloads')
        /\ ToSet(active'[t]) = ToSet(active[t]) \ {m}
        /\ ToSet(offloads') = ToSet(offloads) \cup {m}
        /\ \A u \in AllThreads \ {t} : active'[u] = active[u] /\ thread'[u] = thread[u]
        /\ thread'[t] = AtTop
    <2>1. /\ active'[t] = Tail(active[t]) /\ offloads' = Append(offloads, m) /\ thread'[t] = AtTop
          /\ \A u \in AllThreads \ {t} : active'[u] = active[u] /\ thread'[u] = thread[u]
          /\ m = Head(active[t])
      BY DEF QueueOffload, CombinerTypeOK, m, Mine
    <2>2. /\ Tail(active[t]) \in Seq(Locks) /\ IsInjective(Tail(active[t]))
          /\ ToSet(Tail(active[t])) = ToSet(active[t]) \ {m}
      BY <2>1, <1>1, TailFacts
    <2>3. active' \in [AllThreads -> Seq(Locks)]
      BY <2>2 DEF QueueOffload, CombinerTypeOK
    <2> QED
      BY <2>1, <2>2, <2>3, <1>0, <1>1, AppendFacts
  <1>3. CombinerTypeOK'
    <2>1. thread' \in [AllThreads -> ThreadRecords]
      BY DEF CombinerTypeOK, ThreadRecords, QueueOffload, AtTop
    <2> QED
      BY <2>1, <1>2 DEF CombinerTypeOK
  <1>4. /\ \A u \in AllThreads, l \in Locks : Lists(u, l)' <=> Lists(u, l) /\ ~(u = t /\ l = m)
        /\ \A l \in Locks : Handed(l)' <=> Handed(l) \/ l = m
        /\ \A u \in AllThreads, l \in Locks : Takes(u, l)' <=> Takes(u, l)
    BY <1>2 DEF Lists, Handed, Takes
  <1>5. AtMostOneOwner'
    BY <1>0, <1>2, <1>4 DEF AtMostOneOwner
  <1>6. OwnedIfCounted'
    BY <1>0, <1>4, CallFrame DEF OwnedIfCounted
  <1>7. CallsPush' /\ ClosuresPlaced' /\ SentWaits' /\ FreedAtZero' /\ FinalListed'
    BY CallFrame
  <1>8. /\ \A u \in AllThreads \ {t}, l \in Locks : HasActive(u, l)' <=> HasActive(u, l)
        /\ thread'[t].pc = "top" /\ thread'[t].rest = <<>> /\ thread[t].rest = <<>>
        /\ thread[t].pc \notin Executing
    BY <1>2 DEF HasActive, AtTop, RestListed, Popping, Executing
  <1>9. BusyHasCombiner' /\ RestListed'
    <2>1. \A u \in AllThreads \ {t} : Mine(u)' = Mine(u)
      BY <1>2 DEF Mine
    <2>2. IsInjective(thread'[t].rest) /\ ToSet(thread'[t].rest) = {}
      BY <1>8 DEF ToSet, IsInjective
    <2> QED
      BY <1>2, <1>8, <2>1, <2>2, SMTT(40) DEF BusyHasCombiner, RestListed, FinalOn
  <1>10. FinalsFound'
    <2>1. \A u \in AllThreads : ToSet(thread'[u].rest) = ToSet(thread[u].rest)
      BY <1>2, <1>8
    <2>2. ToSet(thread[t].rest) = {}
      BY <1>8 DEF ToSet
    <2> QED
      BY <2>1, <2>2, <1>8 DEF FinalsFound, FinalOn
  <1>11. \A u \in AllThreads, l \in Locks : Runs(u, l)' <=> Runs(u, l)
    BY <1>2, <1>8 DEF Runs, Executing
  <1>12. FinalDue'
    BY <1>11 DEF FinalDue, Runs
  <1>13. StateIsItems'
    BY <1>11, CallFrame, ItemsFrame DEF StateIsItems
  <1>14. ASSUME NEW l \in Locks, NEW q \in Orders, Queue(l, q) PROVE Queue(l, q)'
    <2>1. \A u \in AllThreads : HasActive(u, l)' /\ thread'[u].pc \in Popping
                                => HasActive(u, l) /\ thread'[u] = thread[u]
      BY <1>2, <1>8 DEF Popping
    <2> QED
      BY <2>1, <1>14, StubFrame, QueueFrame DEF Queue
  <1>15. QueuesLinked'
    BY <1>14 DEF QueuesLinked, Orders
  <1> QED
    BY <1>3, <1>5, <1>6, <1>7, <1>9, <1>10, <1>12, <1>13, <1>15

\* The executor puts a combiner that was handed over on its own list.
LEMMA ExecutorRunsIInv ==
    ASSUME CombinerIInv, NEW t \in AllThreads, ExecutorRuns(t)
    PROVE  CombinerIInv'
  <1> USE DEF CombinerIInv, lockVars, queueVars
  <1> DEFINE m == Head(offloads)
  <1>1. /\ active[t] = <<>> /\ thread[t].pc = "top" /\ offloads # <<>>
        /\ UNCHANGED <<lockVars, queueVars, thread, call, closure, sent>>
    BY DEF ExecutorRuns
  <1>2. /\ m \in Locks /\ Tail(offloads) \in Seq(Locks) /\ IsInjective(Tail(offloads))
        /\ ToSet(Tail(offloads)) = ToSet(offloads) \ {m} /\ m \in ToSet(offloads)
    BY <1>1, TailFacts, SMTT(40) DEF CombinerTypeOK, AtMostOneOwner
  <1> HIDE DEF m
  <1>3. /\ active'[t] = <<m>> /\ offloads' = Tail(offloads)
        /\ \A u \in AllThreads \ {t} : active'[u] = active[u]
        /\ active' \in [AllThreads -> Seq(Locks)]
    BY <1>2, SMTT(40) DEF ExecutorRuns, CombinerTypeOK, m
  <1>4. ToSet(active[t]) = {} /\ ToSet(<<m>>) = {m} /\ IsInjective(<<m>>) /\ Head(<<m>>) = m
    BY <1>1 DEF ToSet, IsInjective
  <1>5. CombinerTypeOK'
    BY <1>1, <1>2, <1>3 DEF CombinerTypeOK
  <1>6. /\ \A u \in AllThreads, l \in Locks : Lists(u, l)' <=> Lists(u, l) \/ (u = t /\ l = m)
        /\ \A l \in Locks : Handed(l)' <=> Handed(l) /\ l # m
        /\ \A u \in AllThreads, l \in Locks : Takes(u, l)' <=> Takes(u, l)
        /\ Handed(m)
    BY <1>1, <1>2, <1>3, <1>4 DEF Lists, Handed, Takes
  <1>7. AtMostOneOwner'
    BY <1>2, <1>3, <1>4, <1>6, ZenonT(60) DEF AtMostOneOwner
  <1>8. OwnedIfCounted'
    BY <1>1, <1>2, <1>6, CallFrame DEF OwnedIfCounted
  <1>9. CallsPush' /\ ClosuresPlaced' /\ SentWaits' /\ FreedAtZero' /\ FinalListed'
    BY <1>1, CallFrame
  <1>10. /\ \A u \in AllThreads \ {t}, l \in Locks : HasActive(u, l)' <=> HasActive(u, l)
         /\ \A l \in Locks : ~HasActive(t, l)
         /\ thread[t].rest = <<>> /\ thread[t].pc \notin Executing \cup Popping
    BY <1>1, <1>3 DEF HasActive, RestListed, Popping, Executing
  <1>11. BusyHasCombiner' /\ RestListed'
    <2>1. \A u \in AllThreads \ {t} : Mine(u)' = Mine(u)
      BY <1>3 DEF Mine
    <2>2. ToSet(thread'[t].rest) = {}
      BY <1>1, <1>10 DEF ToSet
    <2>3. BusyHasCombiner'
      BY <1>1, <1>3 DEF BusyHasCombiner
    <2> QED
      BY <1>1, <1>3, <2>1, <2>2, <2>3 DEF RestListed, FinalOn
  <1>12. FinalsFound'
    <2>1. \A c \in Closures, l \in Locks : FinalOn(c, l)' <=> FinalOn(c, l)
      BY <1>1 DEF FinalOn
    <2>2. \A u \in AllThreads, l \in Locks : HasActive(u, l) => HasActive(u, l)'
      BY <1>10
    <2> QED
      BY <2>1, <2>2, <1>1 DEF FinalsFound
  <1>13. \A u \in AllThreads, l \in Locks : Runs(u, l)' <=> Runs(u, l)
    BY <1>1, <1>10 DEF Runs
  <1>14. FinalDue'
    BY <1>1, <1>13 DEF FinalDue, Runs
  <1>15. StateIsItems'
    BY <1>1, <1>13, CallFrame, ItemsFrame DEF StateIsItems
  <1>16. ASSUME NEW l \in Locks, NEW q \in Orders, Queue(l, q) PROVE Queue(l, q)'
    <2>1. \A u \in AllThreads : HasActive(u, l)' /\ thread'[u].pc \in Popping
                                => HasActive(u, l) /\ thread'[u] = thread[u]
      BY <1>1, <1>10
    <2> QED
      BY <2>1, <1>1, <1>16, StubFrame, QueueFrame DEF Queue
  <1>17. QueuesLinked'
    BY <1>16 DEF QueuesLinked, Orders
  <1> QED
    BY <1>5, <1>7, <1>8, <1>9, <1>11, <1>12, <1>14, <1>15, <1>17

\* A closure of the final list begins: nothing that waits is touched.
LEMMA FinalRuns ==
    ASSUME CombinerIInv, NEW c \in Closures, closure[c].status = "final", closure' = Idled(c),
           UNCHANGED <<state, refs, destroyed, call, sent, queueVars>>
    PROVE  /\ closure' \in [Closures -> ClosureRecords]
           /\ \A d \in Closures \ {c} : closure'[d] = closure[d]
           /\ closure'[c].status = "idle"
           /\ CallsPush' /\ ClosuresPlaced' /\ SentWaits' /\ FreedAtZero'
           /\ \A l \in Locks : Waiting(l)' = Waiting(l) /\ Held(l)' = Held(l) /\ Count(l)' = Count(l)
           /\ \A l \in Locks, q \in Orders : IsQueue(l, q) => IsQueue(l, q)'
           /\ \A l \in Locks, q \in Orders : KeepsOrder(l, q) => KeepsOrder(l, q)'
  <1> USE DEF CombinerIInv, queueVars
  <1>1. /\ closure' \in [Closures -> ClosureRecords]
        /\ \A d \in Closures \ {c} : closure'[d] = closure[d]
        /\ closure'[c].status = "idle" /\ closure'[c].lock = Null
    BY DEF CombinerTypeOK, ClosureRecords, Idled, IdleClosure
  <1>2. \A d \in Closures : \A l : WaitsFor(d, l)' <=> WaitsFor(d, l)
    BY <1>1 DEF WaitsFor
  <1>3. CallsPush'
    BY <1>2 DEF CallsPush
  <1>4. ClosuresPlaced'
    BY <1>1 DEF ClosuresPlaced
  <1>5. \A t \in AllThreads : c \notin ToSet(sent[t]) /\ ToSet(sent[t]) \subseteq Closures
    BY ToSetType DEF SentWaits, CombinerTypeOK
  <1>6. SentWaits'
    BY <1>1, <1>5 DEF SentWaits
  <1>7. FreedAtZero'
    BY DEF FreedAtZero, Orphans
  <1>8. \A l \in Locks : Waiting(l)' = Waiting(l) /\ Held(l)' = Held(l) /\ Count(l)' = Count(l)
    BY <1>2 DEF Waiting, Held, Orphans, Count
  <1>9. ASSUME NEW l \in Locks, NEW q \in Orders, IsQueue(l, q) PROVE IsQueue(l, q)'
    <2>1. \A d \in Closures : (WaitsFor(d, l) /\ Pushed(d))' <=> WaitsFor(d, l) /\ Pushed(d)
      BY <1>2 DEF Pushed
    <2> QED
      BY <2>1, <1>9 DEF IsQueue
  <1>10. ASSUME NEW l \in Locks, NEW q \in Orders, KeepsOrder(l, q) PROVE KeepsOrder(l, q)'
    <2>1. \A t \in AllThreads : \A i \in DOMAIN sent[t] : closure'[sent[t][i]] = closure[sent[t][i]]
      BY <1>1, <1>5 DEF ToSet
    <2> QED
      BY <2>1, <1>10 DEF KeepsOrder
  <1> QED
    BY <1>1, <1>3, <1>4, <1>6, <1>7, <1>8, <1>9, <1>10

\* The count of a combiner is the number of its items.
LEMMA ItemsFacts ==
    ASSUME CombinerIInv, NEW l \in Locks
    PROVE  /\ Waiting(l) \subseteq Closures /\ IsFiniteSet(Waiting(l))
           /\ Cardinality(Waiting(l)) \in Nat
           /\ Items(l) \in Nat /\ Count(l) = Items(l)
           /\ state[l] \in Nat /\ state[l] = 2 * Items(l) + (IF Held(l) THEN 1 ELSE 0)
  <1>1. Waiting(l) \subseteq Closures /\ IsFiniteSet(Waiting(l))
    BY NodesAssumption, FS_Subset DEF Waiting
  <1>2. Cardinality(Waiting(l)) \in Nat
    BY <1>1, FS_CardinalityType
  <1>3. Items(l) \in Nat
    BY <1>2 DEF Items
  <1>4. state[l] \in Nat /\ state[l] = 2 * Items(l) + (IF Held(l) THEN 1 ELSE 0)
    BY DEF CombinerIInv, StateIsItems, CombinerTypeOK
  <1>5. Count(l) = Items(l)
    BY <1>3, <1>4 DEF Count
  <1> QED
    BY <1>1, <1>2, <1>3, <1>4, <1>5

\* A closure returns; the next one of the final list begins.
LEMMA CallbackEndsIInv ==
    ASSUME CombinerIInv, NEW t \in AllThreads, CallbackEnds(t)
    PROVE  CombinerIInv'
  <1> USE DEF CombinerIInv, lockVars, queueVars
  <1> DEFINE rest == thread[t].rest
  <1>1. /\ active[t] # <<>> /\ thread[t].pc = "running"
        /\ UNCHANGED <<lockVars, queueVars, active, offloads, call, sent>>
    BY DEF CallbackEnds, At
  <1>2. rest \in Seq(Closures) /\ IsInjective(rest)
    BY DEF CombinerTypeOK, ThreadRecords, RestListed
  <1>3. /\ \A u \in AllThreads, l \in Locks : /\ Lists(u, l)' <=> Lists(u, l)
                                              /\ Takes(u, l)' <=> Takes(u, l)
                                              /\ HasActive(u, l)' <=> HasActive(u, l)
        /\ \A l \in Locks : Handed(l)' <=> Handed(l)
        /\ \A u \in AllThreads : Mine(u)' = Mine(u)
    BY <1>1 DEF Lists, Takes, Handed, HasActive, Mine
  <1>4. AtMostOneOwner' /\ OwnedIfCounted'
    BY <1>1, <1>3 DEF AtMostOneOwner, OwnedIfCounted, Count
  <1>5. /\ \A u \in AllThreads \ {t} : thread'[u] = thread[u]
        /\ thread' \in [AllThreads -> ThreadRecords] /\ thread'[t].pc \in Executing
        /\ rest = <<>> => thread'[t].pc = "finish" /\ thread'[t].rest = <<>>
        /\ rest # <<>> => thread'[t].pc = "running" /\ thread'[t].rest = Tail(rest)
    <2>1. rest # <<>> => Head(rest) \in Closures /\ Tail(rest) \in Seq(Closures)
      BY <1>2, TailFacts
    <2>2. CASE rest = <<>>
      <3>1. thread' = [thread EXCEPT ![t] = [AtTop EXCEPT !.pc = "finish"]]
        BY <2>2 DEF CallbackEnds
      <3> QED
        BY <2>2, <3>1 DEF AtTop, CombinerTypeOK, ThreadRecords, Executing
    <2>3. CASE rest # <<>>
      <3>1. thread' = [thread EXCEPT ![t] = [@ EXCEPT !.cb = Head(rest), !.rest = Tail(rest)]]
        BY <2>3 DEF CallbackEnds
      <3> QED
        BY <1>1, <2>1, <2>3, <3>1 DEF CombinerTypeOK, ThreadRecords, Executing
    <2> QED
      BY <2>2, <2>3
  <1>6. BusyHasCombiner'
    BY <1>1, <1>5 DEF BusyHasCombiner
  <1>7. \A u \in AllThreads, l \in Locks : Runs(u, l)' <=> Runs(u, l)
    BY <1>1, <1>3, <1>5 DEF Runs, Executing
  <1>8. FinalDue'
    BY <1>1, <1>7 DEF FinalDue, Runs
  <1>9. ASSUME NEW l \in Locks, NEW q \in Orders, StubKnown(l, q) PROVE StubKnown(l, q)'
    <2>1. \A u \in AllThreads : HasActive(u, l)' /\ thread'[u].pc \in Popping
                                => HasActive(u, l) /\ thread'[u] = thread[u]
      BY <1>3, <1>5 DEF Popping, Executing
    <2> QED
      BY <2>1, <1>1, <1>9, StubFrame
  <1>10. CASE rest = <<>>
    <2>1. closure' = closure
      BY <1>10 DEF CallbackEnds
    <2>2. CombinerTypeOK'
      BY <2>1, <1>1, <1>5 DEF CombinerTypeOK
    <2>3. CallsPush' /\ ClosuresPlaced' /\ SentWaits' /\ FreedAtZero' /\ FinalListed'
      BY <2>1, <1>1, CallFrame
    <2>4. \A u \in AllThreads : thread'[u].rest = thread[u].rest
      BY <1>5, <1>10
    <2>5. RestListed' /\ FinalsFound'
      <3>1. RestListed'
        BY <2>1, <2>4, <1>3, <1>5, <1>10 DEF RestListed, FinalOn
      <3>2. FinalsFound'
        BY <2>1, <2>4, <1>1 DEF FinalsFound, FinalOn, HasActive
      <3> QED
        BY <3>1, <3>2
    <2>6. StateIsItems'
      BY <2>1, <1>1, <1>7, CallFrame, ItemsFrame DEF StateIsItems
    <2>7. QueuesLinked'
      BY <2>1, <1>1, <1>9, QueueFrame DEF QueuesLinked, Queue, Orders
    <2> QED
      BY <2>2, <2>3, <2>5, <2>6, <2>7, <1>4, <1>6, <1>8
  <1>11. CASE rest # <<>>
    <2> DEFINE c == Head(rest)
    <2>1. /\ c \in Closures /\ Tail(rest) \in Seq(Closures) /\ IsInjective(Tail(rest))
          /\ ToSet(Tail(rest)) = ToSet(rest) \ {c} /\ c \in ToSet(rest)
      BY <1>2, <1>11, TailFacts
    <2>2. closure' = Idled(c) /\ FinalOn(c, Mine(t))
      BY <1>11, <2>1 DEF CallbackEnds, RestListed
    <2> HIDE DEF c
    <2>3. closure[c].status = "final"
      BY <2>2 DEF FinalOn
    <2>4. /\ closure' \in [Closures -> ClosureRecords]
          /\ \A d \in Closures \ {c} : closure'[d] = closure[d]
          /\ closure'[c].status = "idle"
          /\ CallsPush' /\ ClosuresPlaced' /\ SentWaits' /\ FreedAtZero'
          /\ \A l \in Locks : Waiting(l)' = Waiting(l) /\ Held(l)' = Held(l)
          /\ \A l \in Locks, q \in Orders : IsQueue(l, q) => IsQueue(l, q)'
          /\ \A l \in Locks, q \in Orders : KeepsOrder(l, q) => KeepsOrder(l, q)'
      BY <2>1, <2>2, <2>3, <1>1, FinalRuns
    <2>5. CombinerTypeOK'
      BY <2>4, <1>1, <1>5 DEF CombinerTypeOK
    <2>6. /\ \A l \in Locks : c \notin ToSet(finalList[l]) /\ ToSet(finalList[l]) \subseteq Closures
          /\ \A u \in AllThreads : ToSet(thread[u].rest) \subseteq Closures
      BY <2>1, ToSetType DEF FinalsFound, CombinerTypeOK, ThreadRecords
    <2>7. FinalListed'
      BY <2>4, <2>6, <1>1 DEF FinalListed, FinalOn
    <2>8. /\ ToSet(thread'[t].rest) = ToSet(thread[t].rest) \ {c}
          /\ \A u \in AllThreads \ {t} : c \notin ToSet(thread[u].rest)
      <3>1. ASSUME NEW u \in AllThreads \ {t}, c \in ToSet(thread[u].rest) PROVE FALSE
        <4>1. Mine(u) = Mine(t)
          BY <3>1, <2>2 DEF RestListed, FinalOn
        <4>2. thread[u].rest \in Seq(Closures)
          BY DEF CombinerTypeOK, ThreadRecords
        <4>3. active[u] # <<>>
          BY <3>1, <4>2, ToSetType DEF RestListed, BusyHasCombiner
        <4> QED
          BY <4>1, <4>3, <1>1, MineFacts, OneRunner
      <3> QED
        BY <3>1, <2>1, <1>5, <1>11
    <2>9. RestListed'
      <3>1. ASSUME NEW u \in AllThreads \ {t}, NEW d \in ToSet(thread[u].rest)
            PROVE  FinalOn(d, Mine(u))'
        BY <2>4, <2>6, <2>8, <1>3 DEF RestListed, FinalOn
      <3>2. ASSUME NEW d \in ToSet(thread'[t].rest) PROVE FinalOn(d, Mine(t))'
        BY <2>4, <2>6, <2>8, <1>3 DEF RestListed, FinalOn
      <3> QED
        BY <3>1, <3>2, <2>1, <1>5, <1>11 DEF RestListed
    <2>10. FinalsFound'
      <3>1. \A l \in Locks, u \in AllThreads : ToSet(finalList'[l]) \cap ToSet(thread'[u].rest) = {}
        BY <2>8, <1>1, <1>5 DEF FinalsFound
      <3>2. ASSUME NEW d \in Closures, NEW l \in Locks, FinalOn(d, l)'
            PROVE  \/ d \in ToSet(finalList'[l])
                   \/ \E u \in AllThreads : HasActive(u, l)' /\ d \in ToSet(thread'[u].rest)
        <4>1. d # c /\ FinalOn(d, l)
          BY <3>2, <2>4 DEF FinalOn
        <4>2. ASSUME NEW u \in AllThreads, HasActive(u, l), d \in ToSet(thread[u].rest)
              PROVE  HasActive(u, l)' /\ d \in ToSet(thread'[u].rest)
          BY <4>1, <4>2, <1>3, <1>5, <2>8
        <4> QED
          BY <4>1, <4>2, <1>1 DEF FinalsFound
      <3> QED
        BY <3>1, <3>2 DEF FinalsFound
    <2>11. StateIsItems'
      BY <2>4, <1>1, <1>7, ItemsFrame DEF StateIsItems
    <2>12. QueuesLinked'
      BY <2>4, <1>9 DEF QueuesLinked, Queue, Orders
    <2> QED
      BY <2>4, <2>5, <2>7, <2>9, <2>10, <2>11, <2>12, <1>4, <1>6, <1>8
  <1> QED
    BY <1>10, <1>11

\* The final list is taken, and its first closure begins.
LEMMA BeginFinalIInv ==
    ASSUME CombinerIInv, NEW t \in AllThreads, BeginFinal(t)
    PROVE  CombinerIInv'
  <1> USE DEF CombinerIInv, lockVars, queueVars
  <1>a. active[t] # <<>>
    BY DEF BeginFinal, At
  <1>b. PICK m \in Locks : m = Mine(t)
    BY <1>a, MineFacts
  <1> DEFINE c == Head(finalList[m])
             rest == Tail(finalList[m])
  <1>1. /\ active[t] # <<>> /\ thread[t].pc = "top" /\ finalNow[m]
        /\ thread' = [thread EXCEPT ![t] = [AtTop EXCEPT !.pc = "running", !.cb = c, !.rest = rest]]
        /\ finalList' = [finalList EXCEPT ![m] = <<>>]
        /\ closure' = Idled(c)
        /\ UNCHANGED <<state, refs, initiator, finalNow, destroyed, queueVars, active, offloads,
                       call, sent>>
    BY <1>b DEF BeginFinal, At
  <1>2. m \in Locks /\ HasActive(t, m) /\ \A l : HasActive(t, l) => l = m
    BY <1>b, <1>1, MineFacts
  <1>3. \A u \in AllThreads : ~Runs(u, m)
    BY <1>1, <1>2, OneRunner DEF Runs, Executing
  <1>4. finalList[m] # <<>> /\ finalList[m] \in Seq(Closures) /\ IsInjective(finalList[m])
    BY <1>1, <1>2, <1>3 DEF FinalDue, Runs, CombinerTypeOK, FinalListed
  <1>5. /\ c \in Closures /\ rest \in Seq(Closures) /\ IsInjective(rest)
        /\ ToSet(rest) = ToSet(finalList[m]) \ {c} /\ c \in ToSet(finalList[m])
    BY <1>4, TailFacts
  <1>6. FinalOn(c, m) /\ closure[c].status = "final"
    BY <1>2, <1>5 DEF FinalListed, FinalOn
  <1> HIDE DEF c, rest
  <1>7. /\ closure' \in [Closures -> ClosureRecords]
        /\ \A d \in Closures \ {c} : closure'[d] = closure[d]
        /\ closure'[c].status = "idle"
        /\ CallsPush' /\ ClosuresPlaced' /\ SentWaits' /\ FreedAtZero'
        /\ \A l \in Locks : Waiting(l)' = Waiting(l) /\ Held(l)' = Held(l) /\ Count(l)' = Count(l)
        /\ \A l \in Locks, q \in Orders : IsQueue(l, q) => IsQueue(l, q)'
        /\ \A l \in Locks, q \in Orders : KeepsOrder(l, q) => KeepsOrder(l, q)'
    BY <1>1, <1>5, <1>6, FinalRuns
  <1>8. /\ thread' \in [AllThreads -> ThreadRecords]
        /\ \A u \in AllThreads \ {t} : thread'[u] = thread[u]
        /\ thread'[t].pc = "running" /\ thread'[t].rest = rest
    BY <1>1, <1>5 DEF CombinerTypeOK, ThreadRecords, AtTop, Executing
  <1>9. /\ finalList' \in [Locks -> Seq(Closures)] /\ finalList'[m] = <<>>
        /\ \A l \in Locks \ {m} : finalList'[l] = finalList[l]
    BY <1>1, <1>2 DEF CombinerTypeOK
  <1>10. CombinerTypeOK'
    BY <1>1, <1>7, <1>8, <1>9 DEF CombinerTypeOK
  <1>11. /\ \A u \in AllThreads, l \in Locks : /\ Lists(u, l)' <=> Lists(u, l)
                                               /\ Takes(u, l)' <=> Takes(u, l)
                                               /\ HasActive(u, l)' <=> HasActive(u, l)
         /\ \A l \in Locks : Handed(l)' <=> Handed(l)
         /\ \A u \in AllThreads : Mine(u)' = Mine(u)
    BY <1>1 DEF Lists, Takes, Handed, HasActive, Mine
  <1>12. AtMostOneOwner' /\ OwnedIfCounted' /\ BusyHasCombiner'
    BY <1>1, <1>7, <1>8, <1>11 DEF AtMostOneOwner, OwnedIfCounted, BusyHasCombiner
  <1>13. /\ \A u \in AllThreads, l \in Locks : Runs(u, l)' <=> Runs(u, l) \/ (u = t /\ l = m)
         /\ \A u \in AllThreads, l \in Locks \ {m} : Runs(u, l)' <=> Runs(u, l)
    BY <1>1, <1>2, <1>8, <1>11 DEF Runs, Executing
  <1>14. FinalDue'
    BY <1>1, <1>2, <1>9, <1>13 DEF FinalDue, Runs
  <1>15. StateIsItems'
    <2>1. ASSUME NEW l \in Locks \ {m} PROVE Items(l)' = Items(l)
      BY <1>7, <1>9, <1>13, ItemsFrame
    <2>2. Items(m)' = Items(m)
      BY <1>2, <1>3, <1>4, <1>7, <1>9, <1>13, ItemsFacts DEF Items
    <2> QED
      BY <2>1, <2>2, <1>1, <1>2, <1>7 DEF StateIsItems
  <1>16. /\ \A l \in Locks : ToSet(finalList[l]) \subseteq Closures
         /\ \A u \in AllThreads : ToSet(thread[u].rest) \subseteq Closures
         /\ \A u \in AllThreads : c \notin ToSet(thread[u].rest)
         /\ \A l \in Locks \ {m} : ToSet(finalList[l]) \cap ToSet(finalList[m]) = {}
         /\ ToSet(finalList'[m]) = {} /\ IsInjective(finalList'[m])
    <2>1. \A l \in Locks : ToSet(finalList[l]) \subseteq Closures
      BY ToSetType DEF CombinerTypeOK
    <2>2. \A u \in AllThreads : ToSet(thread[u].rest) \subseteq Closures
      BY ToSetType DEF CombinerTypeOK, ThreadRecords
    <2>3. \A u \in AllThreads : c \notin ToSet(thread[u].rest)
      BY <1>2, <1>5 DEF FinalsFound
    <2>4. \A l \in Locks \ {m} : ToSet(finalList[l]) \cap ToSet(finalList[m]) = {}
      BY <1>2 DEF FinalListed, FinalOn
    <2>5. ToSet(finalList'[m]) = {} /\ IsInjective(finalList'[m])
      BY <1>9 DEF ToSet, IsInjective
    <2> QED
      BY <2>1, <2>2, <2>3, <2>4, <2>5
  <1>17. \A d \in Closures \ {c} : \A l : FinalOn(d, l)' <=> FinalOn(d, l)
    BY <1>7 DEF FinalOn
  <1>18. FinalListed'
    <2>1. ASSUME NEW l \in Locks \ {m}, NEW d \in ToSet(finalList[l]) PROVE FinalOn(d, l)'
      BY <1>5, <1>16, <1>17 DEF FinalListed
    <2> QED
      BY <2>1, <1>9, <1>16 DEF FinalListed
  <1>19. RestListed'
    <2>1. ASSUME NEW u \in AllThreads \ {t}, NEW d \in ToSet(thread[u].rest)
          PROVE  FinalOn(d, Mine(u))'
      <3>1. d \in Closures \ {c} /\ FinalOn(d, Mine(u))
        BY <1>16 DEF RestListed
      <3> QED
        BY <3>1, <1>7, <1>11 DEF FinalOn
    <2>2. ASSUME NEW d \in ToSet(rest) PROVE FinalOn(d, Mine(t))'
      <3>1. d \in Closures \ {c} /\ FinalOn(d, m)
        BY <1>2, <1>5, <1>16 DEF FinalListed
      <3> QED
        BY <3>1, <1>b, <1>7, <1>11 DEF FinalOn
    <2> QED
      BY <2>1, <2>2, <1>5, <1>8 DEF RestListed
  <1>20. FinalsFound'
    <2>1. \A l \in Locks, u \in AllThreads : ToSet(finalList'[l]) \cap ToSet(thread'[u].rest) = {}
      <3> SUFFICES ASSUME NEW l \in Locks, NEW u \in AllThreads
                   PROVE  ToSet(finalList'[l]) \cap ToSet(thread'[u].rest) = {}
        OBVIOUS
      <3>1. CASE l = m
        BY <3>1, <1>16
      <3>2. CASE l # m /\ u = t
        <4>1. ToSet(finalList[l]) \cap ToSet(finalList[m]) = {} /\ finalList'[l] = finalList[l]
          BY <3>2, <1>9, <1>16
        <4>2. ToSet(thread'[u].rest) \subseteq ToSet(finalList[m])
          BY <3>2, <1>5, <1>8
        <4> QED
          BY <4>1, <4>2
      <3>3. CASE l # m /\ u # t
        BY <3>3, <1>8, <1>9 DEF FinalsFound
      <3> QED
        BY <3>1, <3>2, <3>3
    <2>2. ASSUME NEW d \in Closures, NEW l \in Locks, FinalOn(d, l)'
          PROVE  \/ d \in ToSet(finalList'[l])
                 \/ \E u \in AllThreads : HasActive(u, l)' /\ d \in ToSet(thread'[u].rest)
      <3>1. d # c /\ FinalOn(d, l)
        BY <2>2, <1>7 DEF FinalOn
      <3>2. thread[t].rest = <<>>
        BY <1>1 DEF RestListed
      <3>3. ToSet(thread[t].rest) = {}
        BY <3>2 DEF ToSet
      <3>4. CASE d \in ToSet(finalList[l])
        BY <3>1, <3>4, <1>2, <1>5, <1>8, <1>9, <1>11
      <3>5. ASSUME NEW u \in AllThreads, HasActive(u, l), d \in ToSet(thread[u].rest)
            PROVE  HasActive(u, l)' /\ d \in ToSet(thread'[u].rest)
        BY <3>3, <3>5, <1>8, <1>11
      <3> QED
        BY <3>1, <3>4, <3>5 DEF FinalsFound
    <2> QED
      BY <2>1, <2>2 DEF FinalsFound
  <1>21. ASSUME NEW l \in Locks, NEW q \in Orders, Queue(l, q) PROVE Queue(l, q)'
    <2>1. \A u \in AllThreads : HasActive(u, l)' /\ thread'[u].pc \in Popping
                                => HasActive(u, l) /\ thread'[u] = thread[u]
      BY <1>8, <1>11 DEF Popping
    <2>2. StubKnown(l, q)'
      BY <2>1, <1>1, <1>21, StubFrame DEF Queue
    <2> QED
      BY <2>2, <1>7, <1>21 DEF Queue
  <1>22. QueuesLinked'
    BY <1>21 DEF QueuesLinked, Orders
  <1> QED
    BY <1>7, <1>10, <1>12, <1>14, <1>15, <1>18, <1>19, <1>20, <1>22

\* An item is done: the combiner goes on, is unlocked, or is freed.
LEMMA FinishIInv ==
    ASSUME CombinerIInv, NEW t \in AllThreads, Finish(t)
    PROVE  CombinerIInv'
  <1> USE DEF CombinerIInv, lockVars, queueVars
  <1>a. active[t] # <<>>
    BY DEF Finish, At
  <1>b. PICK m \in Locks : m = Mine(t)
    BY <1>a, MineFacts
  <1>c. PICK left : left = Count(m) - 1
    OBVIOUS
  <1>1. /\ active[t] # <<>> /\ thread[t].pc = "finish"
        /\ state' = [state EXCEPT ![m] = @ - 2]
        /\ finalNow' = [finalNow EXCEPT ![m] = left = 1 /\ finalList[m] # <<>>]
        /\ active' = IF left = 0 THEN [active EXCEPT ![t] = Tail(@)] ELSE active
        /\ destroyed' = IF state[m] = 2 THEN destroyed \cup {m} ELSE destroyed
        /\ thread' = [thread EXCEPT ![t] = AtTop]
        /\ UNCHANGED <<refs, initiator, finalList, queueVars, offloads, call, closure, sent>>
    BY <1>b, <1>c DEF Finish, At
  <1>2. m \in Locks /\ HasActive(t, m) /\ Lists(t, m) /\ (\A l : HasActive(t, l) => l = m)
    BY <1>b, <1>1, MineFacts
  <1>3. Runs(t, m) /\ \A u \in AllThreads \ {t} : ~HasActive(u, m)
    BY <1>1, <1>2, OneRunner DEF Runs, Executing
  <1>4. \A l \in Locks : Items(l) \in Nat /\ Count(l) = Items(l) /\ state[l] \in Nat
                         /\ Cardinality(Waiting(l)) \in Nat
    BY ItemsFacts
  <1>5. Items(m) >= 1 /\ left = Items(m) - 1
    BY <1>c, <1>2, <1>3, <1>4 DEF Items
  <1>6. state[m] = 2 * Items(m) + (IF Held(m) THEN 1 ELSE 0) /\ state[m] >= 2
    BY <1>2, <1>4, <1>5 DEF StateIsItems
  <1>7. /\ active[t] \in Seq(Locks) /\ IsInjective(active[t])
        /\ Tail(active[t]) \in Seq(Locks) /\ IsInjective(Tail(active[t]))
        /\ ToSet(Tail(active[t])) = ToSet(active[t]) \ {m}
    <2>1. active[t] \in Seq(Locks) /\ IsInjective(active[t]) /\ m = Head(active[t])
      BY <1>b DEF CombinerTypeOK, AtMostOneOwner, Mine
    <2> QED
      BY <2>1, <1>1, TailFacts
  <1>8. /\ active' \in [AllThreads -> Seq(Locks)] /\ IsInjective(active'[t])
        /\ \A u \in AllThreads \ {t} : active'[u] = active[u]
        /\ ToSet(active'[t]) = IF left = 0 THEN ToSet(active[t]) \ {m} ELSE ToSet(active[t])
    BY <1>1, <1>7 DEF CombinerTypeOK
  <1>9. /\ thread' \in [AllThreads -> ThreadRecords]
        /\ \A u \in AllThreads \ {t} : thread'[u] = thread[u]
        /\ thread'[t].pc = "top" /\ thread'[t].rest = <<>> /\ thread[t].rest = <<>>
    BY <1>1 DEF CombinerTypeOK, ThreadRecords, AtTop, RestListed
  <1>10. /\ state' \in [Locks -> Nat] /\ state'[m] = state[m] - 2
         /\ \A l \in Locks \ {m} : state'[l] = state[l] /\ finalNow'[l] = finalNow[l]
         /\ finalNow' \in [Locks -> BOOLEAN] /\ (finalNow'[m] => finalList[m] # <<>>)
    <2>1. state \in [Locks -> Nat] /\ state[m] - 2 \in Nat
      BY <1>4, <1>6 DEF CombinerTypeOK
    <2>2. /\ state' \in [Locks -> Nat] /\ state'[m] = state[m] - 2
          /\ \A l \in Locks \ {m} : state'[l] = state[l]
      BY <2>1, <1>1
    <2>3. finalNow \in [Locks -> BOOLEAN]
      BY DEF CombinerTypeOK
    <2> DEFINE due == left = 1 /\ finalList[m] # <<>>
    <2>4. due \in BOOLEAN /\ finalNow' = [finalNow EXCEPT ![m] = due]
      BY <1>1
    <2>5. due => finalList[m] # <<>>
      OBVIOUS
    <2> HIDE DEF due
    <2>6. /\ finalNow' \in [Locks -> BOOLEAN] /\ finalNow'[m] = due
          /\ \A l \in Locks \ {m} : finalNow'[l] = finalNow[l]
      BY <2>3, <2>4
    <2> QED
      BY <2>2, <2>5, <2>6
  <1>11. CombinerTypeOK'
    BY <1>1, <1>2, <1>8, <1>9, <1>10 DEF CombinerTypeOK
  <1>12. /\ \A u \in AllThreads, l \in Locks :
               Lists(u, l)' <=> Lists(u, l) /\ ~(u = t /\ l = m /\ left = 0)
         /\ \A u \in AllThreads, l \in Locks : Takes(u, l)' <=> Takes(u, l)
         /\ \A l \in Locks : Handed(l)' <=> Handed(l)
         /\ \A u \in AllThreads \ {t}, l \in Locks : HasActive(u, l)' <=> HasActive(u, l)
         /\ \A u \in AllThreads \ {t} : Mine(u)' = Mine(u)
    BY <1>1, <1>8 DEF Lists, Takes, Handed, HasActive, Mine
  <1>13. AtMostOneOwner'
    BY <1>1, <1>8, <1>12 DEF AtMostOneOwner
  <1>14. /\ \A l \in Locks \ {m} : Count(l)' = Count(l)
         /\ Count(m)' = left
    <2>1. \A l \in Locks \ {m} : Count(l)' = Count(l)
      BY <1>10 DEF Count
    <2>2. (state[m] - 2) \div 2 = Items(m) - 1
      BY <1>2, <1>4, <1>5, <1>6
    <2> QED
      BY <2>1, <2>2, <1>5, <1>10 DEF Count
  <1>15. OwnedIfCounted'
    <2>1. ASSUME NEW l \in Locks \ {m}
          PROVE  (Count(l) > 0)' <=> \/ \E u \in AllThreads : Lists(u, l)' \/ Takes(u, l)'
                                     \/ Handed(l)'
      BY <1>12, <1>14 DEF OwnedIfCounted
    <2>2. (Count(m) > 0)' <=> \/ \E u \in AllThreads : Lists(u, m)' \/ Takes(u, m)'
                              \/ Handed(m)'
      <3>1. CASE left = 0
        BY <3>1, <1>2, <1>12, <1>14 DEF AtMostOneOwner
      <3>2. CASE left # 0
        <4>1. left > 0
          BY <3>2, <1>2, <1>4, <1>5
        <4> QED
          BY <3>2, <4>1, <1>2, <1>12, <1>14
      <3> QED
        BY <3>1, <3>2
    <2> QED
      BY <2>1, <2>2 DEF OwnedIfCounted
  <1>16. BusyHasCombiner' /\ RestListed'
    <2>1. IsInjective(thread'[t].rest) /\ ToSet(thread'[t].rest) = {}
      BY <1>9 DEF ToSet, IsInjective
    <2> QED
      BY <2>1, <1>1, <1>8, <1>9, <1>12 DEF BusyHasCombiner, RestListed, FinalOn
  <1>17. CallsPush' /\ ClosuresPlaced' /\ SentWaits' /\ FinalListed'
    <2>1. CallsPush' /\ ClosuresPlaced'
      BY <1>1 DEF CallsPush, ClosuresPlaced, WaitsFor
    <2>2. SentWaits'
      BY <1>1 DEF SentWaits
    <2>3. FinalListed'
      BY <1>1 DEF FinalListed, FinalOn
    <2> QED
      BY <2>1, <2>2, <2>3
  <1>18. FinalsFound'
    <2>1. \A u \in AllThreads : ToSet(thread'[u].rest) = ToSet(thread[u].rest)
      BY <1>9
    <2>2. ToSet(thread[t].rest) = {}
      BY <1>9 DEF ToSet
    <2>3. \A c \in Closures, l \in Locks : FinalOn(c, l)' <=> FinalOn(c, l)
      BY <1>1 DEF FinalOn
    <2> QED
      BY <2>1, <2>2, <2>3, <1>1, <1>12 DEF FinalsFound
  <1>19. /\ \A u \in AllThreads, l \in Locks \ {m} : Runs(u, l)' <=> Runs(u, l)
         /\ \A u \in AllThreads : ~Runs(u, m)'
    BY <1>2, <1>3, <1>9, <1>12 DEF Runs, Executing
  <1>20. FinalDue'
    BY <1>1, <1>2, <1>10, <1>19 DEF FinalDue, Runs
  <1>21. \A l \in Locks : Waiting(l)' = Waiting(l) /\ Held(l)' = Held(l)
    BY <1>1 DEF Waiting, WaitsFor, Held, Orphans
  <1>22. StateIsItems'
    <2>1. \A l \in Locks \ {m} : Items(l)' = Items(l)
      BY <1>1, <1>19, <1>21, ItemsFrame
    <2>2. Items(m)' = Items(m) - 1
      BY <1>1, <1>2, <1>3, <1>4, <1>19, <1>21 DEF Items
    <2>3. state'[m] = 2 * Items(m)' + (IF Held(m)' THEN 1 ELSE 0)
      BY <2>2, <1>2, <1>4, <1>6, <1>10, <1>21
    <2> QED
      BY <2>1, <2>3, <1>10, <1>21 DEF StateIsItems
  <1>23. FreedAtZero'
    BY <1>1, <1>2, <1>4, <1>6, <1>10 DEF FreedAtZero, Orphans
  <1>24. ASSUME NEW l \in Locks, NEW q \in Orders, Queue(l, q) PROVE Queue(l, q)'
    <2>1. \A u \in AllThreads : HasActive(u, l)' /\ thread'[u].pc \in Popping
                                => HasActive(u, l) /\ thread'[u] = thread[u]
      BY <1>9, <1>12 DEF Popping
    <2> QED
      BY <2>1, <1>1, <1>24, StubFrame, QueueFrame DEF Queue
  <1>25. QueuesLinked'
    BY <1>24 DEF QueuesLinked, Orders
  <1> QED
    BY <1>11, <1>13, <1>15, <1>16, <1>17, <1>18, <1>20, <1>22, <1>23, <1>25

\* What does not depend on calls and closures.
LEMMA ThreadFrame ==
    ASSUME CombinerIInv, UNCHANGED <<active, thread>>
    PROVE  /\ BusyHasCombiner'
           /\ \A u \in AllThreads : Mine(u)' = Mine(u)
           /\ \A u \in AllThreads, l \in Locks : /\ Lists(u, l)' <=> Lists(u, l)
                                                 /\ HasActive(u, l)' <=> HasActive(u, l)
                                                 /\ Runs(u, l)' <=> Runs(u, l)
  BY DEF CombinerIInv, BusyHasCombiner, Mine, Lists, HasActive, Runs

\* The elements of the lists are closures.
LEMMA ListTypes ==
    ASSUME CombinerTypeOK
    PROVE  /\ \A l \in Locks : ToSet(finalList[l]) \subseteq Closures
           /\ \A u \in AllThreads : ToSet(thread[u].rest) \subseteq Closures
           /\ \A u \in AllThreads : ToSet(sent[u]) \subseteq Closures
  <1>1. \A l \in Locks : ToSet(finalList[l]) \subseteq Closures
    BY ToSetType DEF CombinerTypeOK
  <1>2. \A u \in AllThreads : ToSet(thread[u].rest) \subseteq Closures
    BY ToSetType DEF CombinerTypeOK, ThreadRecords
  <1>3. \A u \in AllThreads : ToSet(sent[u]) \subseteq Closures
    BY ToSetType DEF CombinerTypeOK
  <1> QED
    BY <1>1, <1>2, <1>3

\* A closure that was idle begins to wait, and its thread takes the combiner if
\* nobody has it.
LEMMA CountedIInv ==
    ASSUME CombinerIInv, NEW t \in AllThreads, NEW c \in Closures, NEW l \in Locks,
           NEW status \in {"queued", "wrapped"},
           MayCall(t), refs[l] > 0, MaySchedule(c), Counted(t, c, l, status)
    PROVE  CombinerIInv'
  <1> USE DEF CombinerIInv, lockVars, queueVars
  <1>1. /\ call[t].pc = "none" /\ closure[c].status = "idle"
        /\ state' = [state EXCEPT ![l] = @ + 2]
        /\ sent' = [sent EXCEPT ![t] = Append(@, c)]
        /\ UNCHANGED <<refs, initiator, finalNow, finalList, destroyed, queueVars, active,
                       offloads, thread>>
    BY DEF MayCall, MaySchedule, Counted
  <1>2. /\ closure' \in [Closures -> ClosureRecords]
        /\ \A d \in Closures \ {c} : closure'[d] = closure[d]
        /\ closure'[c].status = status /\ closure'[c].lock = l
    BY DEF Counted, Scheduled, CombinerTypeOK, ClosureRecords
  <1>3. /\ call' \in [AllThreads -> CallRecords]
        /\ \A u \in AllThreads \ {t} : call'[u] = call[u]
        /\ call'[t].pc \in {"first", "other"} /\ (call'[t].pc = "first" <=> state[l] = 1)
        /\ call'[t].closure = c /\ call'[t].lock = l /\ call'[t].prev = Null
    BY DEF Counted, CombinerTypeOK, CallRecords, Pushing
  <1>4. /\ sent[t] \in Seq(Closures) /\ sent' \in [AllThreads -> Seq(Closures)]
        /\ sent'[t] = Append(sent[t], c) /\ \A u \in AllThreads \ {t} : sent'[u] = sent[u]
    BY <1>1, AppendFacts DEF CombinerTypeOK
  <1>5. /\ state' \in [Locks -> Nat] /\ state'[l] = state[l] + 2
        /\ \A k \in Locks \ {l} : state'[k] = state[k]
    BY <1>1 DEF CombinerTypeOK
  <1>6. CombinerTypeOK'
    BY <1>1, <1>2, <1>3, <1>4, <1>5 DEF CombinerTypeOK
  <1>7. /\ \A k \in Locks : Items(k) \in Nat /\ Count(k) = Items(k)
        /\ state[l] = 2 * Items(l) + 1 /\ Held(l)
    BY ItemsFacts DEF Held
  <1>8. /\ \A k \in Locks \ {l} : Count(k)' = Count(k)
        /\ Count(l)' = Items(l) + 1 /\ (state[l] = 1 <=> Count(l) = 0)
    <2>1. (state[l] + 2) \div 2 = Items(l) + 1
      BY <1>7
    <2>2. state[l] = 1 <=> Items(l) = 0
      BY <1>7
    <2> QED
      BY <2>1, <2>2, <1>5, <1>7 DEF Count
  <1>9. /\ \A u \in AllThreads, k \in Locks :
              Takes(u, k)' <=> Takes(u, k) \/ (u = t /\ k = l /\ Count(l) = 0)
        /\ \A k \in Locks : Handed(k)' <=> Handed(k)
    BY <1>1, <1>3, <1>8 DEF Takes, Handed
  <1>10. Count(l) = 0 => /\ \A u \in AllThreads : ~Lists(u, l) /\ ~Takes(u, l)
                         /\ ~Handed(l)
    BY DEF OwnedIfCounted
  <1>11. AtMostOneOwner'
    BY <1>1, <1>9, <1>10, ThreadFrame DEF AtMostOneOwner
  <1>12. OwnedIfCounted'
    <2>1. ASSUME NEW k \in Locks \ {l}
          PROVE  (Count(k) > 0)' <=> \/ \E u \in AllThreads : Lists(u, k)' \/ Takes(u, k)'
                                     \/ Handed(k)'
      BY <1>1, <1>8, <1>9, ThreadFrame DEF OwnedIfCounted
    <2>2. (Count(l) > 0)' /\ (\/ \E u \in AllThreads : Lists(u, l)' \/ Takes(u, l)'
                              \/ Handed(l)')
      <3>1. CASE Count(l) = 0
        BY <3>1, <1>7, <1>8, <1>9
      <3>2. CASE Count(l) # 0
        <4>1. Count(l) > 0
          BY <3>2, <1>7
        <4> QED
          BY <4>1, <1>1, <1>7, <1>8, <1>9, ThreadFrame DEF OwnedIfCounted
      <3> QED
        BY <3>1, <3>2
    <2> QED
      BY <2>1, <2>2 DEF OwnedIfCounted
  <1>13. \A d \in Closures, k \in Locks :
            /\ WaitsFor(d, k)' <=> WaitsFor(d, k) \/ (d = c /\ k = l)
            /\ FinalOn(d, k)' <=> FinalOn(d, k)
            /\ ~WaitsFor(c, k) /\ ~FinalOn(c, k)
    BY <1>1, <1>2 DEF WaitsFor, FinalOn
  <1>14. CallsPush'
    <2>1. ASSUME NEW u \in AllThreads, call[u].pc \in Pushing \cup {"link"}
          PROVE  call[u].closure # c /\ u # t
      BY <2>1, <1>1, <1>13 DEF CallsPush, Pushing
    <2>2. \A u \in AllThreads : call'[u].pc \in Pushing \cup {"link"} =>
            /\ call'[u].closure \in Closures /\ call'[u].lock \in Locks
            /\ closure'[call'[u].closure].lock = call'[u].lock
            /\ closure'[call'[u].closure].status \in {"queued", "wrapped"}
      <3> SUFFICES ASSUME NEW u \in AllThreads, call'[u].pc \in Pushing \cup {"link"}
                   PROVE  /\ call'[u].closure \in Closures /\ call'[u].lock \in Locks
                          /\ closure'[call'[u].closure].lock = call'[u].lock
                          /\ closure'[call'[u].closure].status \in {"queued", "wrapped"}
        OBVIOUS
      <3>1. CASE u = t
        BY <3>1, <1>2, <1>3
      <3>2. CASE u # t
        BY <3>2, <2>1, <1>2, <1>3 DEF CallsPush, WaitsFor
      <3> QED
        BY <3>1, <3>2
    <2>3. \A u, v \in AllThreads :
            /\ call'[u].pc \in Pushing \cup {"link"} /\ call'[v].pc \in Pushing \cup {"link"}
            /\ call'[u].closure = call'[v].closure
            => u = v
      BY <2>1, <1>3 DEF CallsPush
    <2>4. \A u \in AllThreads :
            /\ call'[u].pc = "none" => call'[u].lock = Null
            /\ call'[u].pc # "link" => call'[u].prev = Null
      BY <1>3 DEF CallsPush
    <2> QED
      BY <2>2, <2>3, <2>4 DEF CallsPush, WaitsFor
  <1>15. ClosuresPlaced'
    BY <1>2 DEF ClosuresPlaced
  <1>16. \A u \in AllThreads : c \notin ToSet(sent[u])
    BY <1>1 DEF SentWaits
  <1>17. SentWaits'
    <2>1. /\ ToSet(sent'[t]) = ToSet(sent[t]) \cup {c} /\ IsInjective(sent'[t])
          /\ sent'[t] # <<>> /\ sent'[t][Len(sent'[t])] = c
      BY <1>4, <1>16, AppendFacts DEF SentWaits
    <2>2. \A u \in AllThreads : \A d \in ToSet(sent'[u]) : closure'[d].status \in {"queued", "wrapped"}
      BY <2>1, <1>2, <1>4, ListTypes, ZenonT(60) DEF SentWaits
    <2>3. \A u, v \in AllThreads : \A d \in ToSet(sent'[u]) : d \in ToSet(sent'[v]) => u = v
      <3>1. \A u \in AllThreads : \A d \in ToSet(sent'[u]) : (d = c /\ u = t) \/ d \in ToSet(sent[u])
        BY <2>1, <1>4
      <3>2. \A u, v \in AllThreads : \A d \in ToSet(sent[u]) : d \in ToSet(sent[v]) => u = v
        BY DEF SentWaits
      <3> QED
        BY <3>1, <3>2, <1>16
    <2>4. \A u \in AllThreads : call'[u].pc \in Pushing =>
            sent'[u] # <<>> /\ sent'[u][Len(sent'[u])] = call'[u].closure
      BY <2>1, <1>3, <1>4 DEF SentWaits
    <2> QED
      BY <2>1, <2>2, <2>3, <2>4, <1>4 DEF SentWaits
  <1>18. FinalListed' /\ FinalsFound'
    BY <1>1, <1>13, ThreadFrame, ListTypes DEF FinalListed, FinalsFound
  <1>19. RestListed'
    <2>1. ASSUME NEW u \in AllThreads, NEW d \in ToSet(thread[u].rest)
          PROVE  FinalOn(d, Mine(u))'
      <3>1. d \in Closures /\ FinalOn(d, Mine(u))
        BY ListTypes DEF RestListed
      <3> QED
        BY <3>1, <1>1, <1>2, ThreadFrame DEF FinalOn
    <2> QED
      BY <2>1, <1>1 DEF RestListed
  <1>20. FinalDue'
    BY <1>1, ThreadFrame DEF FinalDue
  <1>21. \A k \in Locks : Held(k)' <=> Held(k)
    BY <1>1, <1>3 DEF Held, Orphans
  <1>22. StateIsItems'
    <2>1. ASSUME NEW k \in Locks \ {l} PROVE Items(k)' = Items(k)
      <3>1. Waiting(k)' = Waiting(k)
        BY <1>13 DEF Waiting
      <3> QED
        BY <3>1, <1>1, ThreadFrame, ItemsFrame
    <2>2. Items(l)' = Items(l) + 1
      <3>1. Waiting(l)' = Waiting(l) \cup {c} /\ c \notin Waiting(l)
        BY <1>13 DEF Waiting
      <3>2. Cardinality(Waiting(l)') = Cardinality(Waiting(l)) + 1
        BY <3>1, ItemsFacts, FS_AddElement
      <3> QED
        BY <3>2, <1>1, ThreadFrame, ItemsFacts DEF Items
    <2> QED
      BY <2>1, <2>2, <1>5, <1>7, <1>21 DEF StateIsItems
  <1>23. FreedAtZero'
    <2>1. \A u \in AllThreads, k \in Locks : Orphans(u, k)' <=> Orphans(u, k)
      BY <1>1, <1>3 DEF Orphans
    <2>2. \A k \in Locks : state'[k] = 0 <=> state[k] = 0
      BY <1>5, <1>7 DEF CombinerTypeOK
    <2>3. \A u \in AllThreads : call'[u].pc = "orphan" => call'[u].lock \in Locks
      BY <1>3 DEF FreedAtZero
    <2> QED
      BY <2>1, <2>2, <2>3, <1>1 DEF FreedAtZero
  <1>24. ASSUME NEW k \in Locks, NEW q \in Orders, Queue(k, q) PROVE Queue(k, q)'
    <2>1. IsQueue(k, q) /\ KeepsOrder(k, q) /\ StubKnown(k, q)
      BY <1>24 DEF Queue
    <2>2. c \notin ToSet(q)
      BY <2>1, <1>13 DEF IsQueue
    <2>3. \A d \in Closures \ {c} : Pushed(d)' <=> Pushed(d)
      BY <1>1, <1>3 DEF Pushed, Pushing
    <2>4. ~Pushed(c)'
      BY <1>3 DEF Pushed, Pushing
    <2>5. \A d \in Closures : (WaitsFor(d, k) /\ Pushed(d))' <=> WaitsFor(d, k) /\ Pushed(d)
      BY <2>3, <2>4, <1>13
    <2>6. \A u \in AllThreads : call'[u].pc = "link" => call'[u] = call[u]
      BY <1>3
    <2>7. IsQueue(k, q)'
      BY <2>1, <2>5, <2>6, <1>1 DEF IsQueue
    <2>8. KeepsOrder(k, q)'
      <3> SUFFICES ASSUME NEW u \in AllThreads, NEW i \in DOMAIN sent'[u], NEW j \in DOMAIN sent'[u],
                          i < j, closure'[sent'[u][i]].lock = k, sent'[u][j] \in ToSet(q)
                   PROVE  \E a, b \in DOMAIN q : a < b /\ q[a] = sent'[u][i] /\ q[b] = sent'[u][j]
        BY DEF KeepsOrder
      <3>1. /\ i \in DOMAIN sent[u] /\ j \in DOMAIN sent[u]
            /\ sent'[u][i] = sent[u][i] /\ sent'[u][j] = sent[u][j]
        <4>1. CASE u # t
          BY <4>1, <1>4
        <4>2. CASE u = t
          <5>1. /\ DOMAIN sent[t] = 1..Len(sent[t]) /\ DOMAIN sent'[t] = 1..(Len(sent[t]) + 1)
                /\ sent'[t][Len(sent[t]) + 1] = c /\ Len(sent[t]) \in Nat
                /\ \A n \in 1..Len(sent[t]) : sent'[t][n] = sent[t][n]
            BY <1>4, AppendFacts, LenProperties
          <5>2. j # Len(sent[t]) + 1
            BY <5>1, <4>2, <2>2
          <5> QED
            BY <5>1, <5>2, <4>2
        <4> QED
          BY <4>1, <4>2
      <3>2. sent[u][i] \in Closures \ {c}
        BY <3>1, <1>16, ListTypes DEF ToSet
      <3>3. closure[sent[u][i]].lock = k
        BY <3>1, <3>2, <1>2
      <3> QED
        BY <3>1, <3>3, <2>1 DEF KeepsOrder
    <2>9. StubKnown(k, q)'
      BY <2>1, <1>1, ThreadFrame DEF StubKnown
    <2> QED
      BY <2>7, <2>8, <2>9 DEF Queue
  <1>25. QueuesLinked'
    BY <1>24 DEF QueuesLinked, Orders
  <1> QED
    BY <1>1, <1>6, <1>11, <1>12, <1>14, <1>15, <1>17, <1>18, <1>19, <1>20, <1>22, <1>23, <1>25,
       ThreadFrame

\* A thread that has the combiner appends a closure to the final list.
LEMMA FinallyExecIInv ==
    ASSUME CombinerIInv, NEW t \in AllThreads, NEW c \in Closures, NEW l \in Locks,
           FinallyExec(t, c, l)
    PROVE  CombinerIInv'
  <1> USE DEF CombinerIInv, lockVars, queueVars
  <1>1. /\ HasActive(t, l) /\ closure[c].status = "idle"
        /\ state' = [state EXCEPT ![l] = IF finalList[l] = <<>> THEN @ + 2 ELSE @]
        /\ finalList' = [finalList EXCEPT ![l] = Append(@, c)]
        /\ UNCHANGED <<refs, initiator, finalNow, destroyed, queueVars, active, offloads, thread,
                       call, sent>>
    BY DEF FinallyExec, MaySchedule, FinalAppend
  <1>2. /\ closure' \in [Closures -> ClosureRecords]
        /\ \A d \in Closures \ {c} : closure'[d] = closure[d]
        /\ closure'[c].status = "final" /\ closure'[c].lock = l
    BY DEF FinallyExec, Scheduled, CombinerTypeOK, ClosureRecords
  <1>3. \A d \in Closures, k \in Locks :
            /\ WaitsFor(d, k)' <=> WaitsFor(d, k)
            /\ FinalOn(d, k)' <=> FinalOn(d, k) \/ (d = c /\ k = l)
            /\ ~WaitsFor(c, k) /\ ~FinalOn(c, k)
    BY <1>1, <1>2 DEF WaitsFor, FinalOn
  <1>4. /\ finalList[l] \in Seq(Closures) /\ IsInjective(finalList[l]) /\ c \notin ToSet(finalList[l])
    BY <1>3 DEF CombinerTypeOK, FinalListed
  <1>5. /\ finalList' \in [Locks -> Seq(Closures)] /\ finalList'[l] # <<>>
        /\ IsInjective(finalList'[l]) /\ ToSet(finalList'[l]) = ToSet(finalList[l]) \cup {c}
        /\ \A k \in Locks \ {l} : finalList'[k] = finalList[k]
    <2>1. /\ Append(finalList[l], c) \in Seq(Closures) /\ Append(finalList[l], c) # <<>>
          /\ IsInjective(Append(finalList[l], c))
          /\ ToSet(Append(finalList[l], c)) = ToSet(finalList[l]) \cup {c}
      BY <1>4, AppendFacts
    <2> QED
      BY <2>1, <1>1 DEF CombinerTypeOK
  <1>6. /\ state' \in [Locks -> Nat]
        /\ state'[l] = IF finalList[l] = <<>> THEN state[l] + 2 ELSE state[l]
        /\ \A k \in Locks \ {l} : state'[k] = state[k]
    BY <1>1 DEF CombinerTypeOK
  <1>7. CombinerTypeOK'
    BY <1>1, <1>2, <1>5, <1>6 DEF CombinerTypeOK
  <1>8. /\ \A k \in Locks : Items(k) \in Nat /\ Count(k) = Items(k) /\ state[k] \in Nat
        /\ state[l] = 2 * Items(l) + (IF Held(l) THEN 1 ELSE 0)
    BY ItemsFacts
  <1>9. active[t] # <<>> /\ Lists(t, l)
    BY <1>1, MineFacts DEF HasActive
  <1>10. Count(l) > 0 /\ Items(l) > 0
    BY <1>8, <1>9 DEF OwnedIfCounted
  <1>11. \A k \in Locks : Held(k)' = Held(k) /\ (Handed(k)' <=> Handed(k))
                          /\ \A u \in AllThreads : Takes(u, k)' <=> Takes(u, k)
    BY <1>1 DEF Held, Orphans, Handed, Takes
  <1>12. StateIsItems'
    <2>1. \A k \in Locks : Waiting(k)' = Waiting(k)
      BY <1>3 DEF Waiting
    <2>2. ASSUME NEW k \in Locks \ {l} PROVE Items(k)' = Items(k)
      BY <2>1, <1>1, <1>5, ThreadFrame, ItemsFrame
    <2>3. Items(l)' = IF finalList[l] = <<>> THEN Items(l) + 1 ELSE Items(l)
      BY <2>1, <1>1, <1>5, ThreadFrame, ItemsFacts DEF Items
    <2>4. state'[l] = 2 * Items(l)' + (IF Held(l)' THEN 1 ELSE 0)
      BY <2>3, <1>6, <1>8, <1>11
    <2> QED
      BY <2>2, <2>4, <1>6, <1>11 DEF StateIsItems
  <1>13. (\A k \in Locks \ {l} : Count(k)' = Count(k)) /\ Count(l)' > 0
    <2>1. state'[l] >= 2 /\ state'[l] \in Nat
      BY <1>6, <1>8, <1>10
    <2>2. state'[l] \div 2 > 0
      BY <2>1
    <2> QED
      BY <2>2, <1>6 DEF Count
  <1>14. AtMostOneOwner'
    BY <1>1, <1>11, ThreadFrame DEF AtMostOneOwner
  <1>15. OwnedIfCounted'
    BY <1>1, <1>9, <1>11, <1>13, ThreadFrame DEF OwnedIfCounted
  <1>16. CallsPush'
    BY <1>1, <1>3 DEF CallsPush
  <1>17. ClosuresPlaced'
    BY <1>2 DEF ClosuresPlaced
  <1>18. \A u \in AllThreads : c \notin ToSet(sent[u]) /\ c \notin ToSet(thread[u].rest)
    BY <1>1 DEF SentWaits, RestListed, FinalOn
  <1>19. SentWaits'
    BY <1>1, <1>2, <1>18, ListTypes DEF SentWaits
  <1>20. FinalListed'
    BY <1>3, <1>5, ListTypes DEF FinalListed
  <1>21. RestListed'
    <2>1. ASSUME NEW u \in AllThreads, NEW d \in ToSet(thread[u].rest)
          PROVE  FinalOn(d, Mine(u))'
      <3>1. d \in Closures \ {c} /\ FinalOn(d, Mine(u))
        BY <1>18, ListTypes DEF RestListed
      <3> QED
        BY <3>1, <1>1, <1>2, ThreadFrame DEF FinalOn
    <2> QED
      BY <2>1, <1>1 DEF RestListed
  <1>22. FinalsFound'
    <2>1. \A k \in Locks, u \in AllThreads : ToSet(finalList'[k]) \cap ToSet(thread'[u].rest) = {}
      BY <1>1, <1>5, <1>18 DEF FinalsFound
    <2>2. \A k \in Locks : ToSet(finalList[k]) \subseteq ToSet(finalList'[k])
      BY <1>5
    <2>3. c \in ToSet(finalList'[l])
      BY <1>5
    <2> QED
      BY <2>1, <2>2, <2>3, <1>1, <1>3, ThreadFrame DEF FinalsFound
  <1>23. FinalDue'
    BY <1>1, <1>5, ThreadFrame DEF FinalDue
  <1>24. FreedAtZero'
    <2>1. \A k \in Locks : state'[k] = 0 <=> state[k] = 0
      BY <1>6, <1>8, <1>10
    <2> QED
      BY <2>1, <1>1 DEF FreedAtZero, Orphans
  <1>25. ASSUME NEW k \in Locks, NEW q \in Orders, Queue(k, q) PROVE Queue(k, q)'
    <2>1. IsQueue(k, q) /\ KeepsOrder(k, q) /\ StubKnown(k, q)
      BY <1>25 DEF Queue
    <2>2. \A d \in Closures : (WaitsFor(d, k) /\ Pushed(d))' <=> WaitsFor(d, k) /\ Pushed(d)
      BY <1>1, <1>3 DEF Pushed
    <2>3. IsQueue(k, q)'
      BY <2>1, <2>2, <1>1 DEF IsQueue
    <2>4. \A u \in AllThreads : \A i \in DOMAIN sent[u] : closure'[sent[u][i]] = closure[sent[u][i]]
      BY <1>2, <1>18, ListTypes DEF ToSet
    <2>5. KeepsOrder(k, q)'
      BY <2>1, <2>4, <1>1 DEF KeepsOrder
    <2>6. StubKnown(k, q)'
      BY <2>1, <1>1, ThreadFrame DEF StubKnown
    <2> QED
      BY <2>3, <2>5, <2>6 DEF Queue
  <1>26. QueuesLinked'
    BY <1>25 DEF QueuesLinked, Orders
  <1> QED
    BY <1>1, <1>7, <1>12, <1>14, <1>15, <1>16, <1>17, <1>19, <1>20, <1>21, <1>22, <1>23, <1>24,
       <1>26, ThreadFrame

\* What does not depend on the calls.
LEMMA ClosureFrame ==
    ASSUME CombinerIInv,
           UNCHANGED <<finalNow, finalList, active, thread, closure, sent>>
    PROVE  /\ ClosuresPlaced' /\ FinalListed' /\ RestListed' /\ FinalsFound' /\ FinalDue'
           /\ \A l \in Locks : Items(l)' = Items(l)
  <1> USE DEF CombinerIInv
  <1>1. ClosuresPlaced' /\ FinalListed'
    BY DEF ClosuresPlaced, FinalListed, FinalOn
  <1>2. RestListed'
    BY DEF RestListed, FinalOn, Mine
  <1>3. FinalsFound'
    BY DEF FinalsFound, FinalOn, HasActive
  <1>4. FinalDue'
    BY DEF FinalDue, HasActive
  <1>5. \A l \in Locks : Waiting(l)' = Waiting(l)
    BY DEF Waiting, WaitsFor
  <1>6. \A l \in Locks : Items(l)' = Items(l)
    BY <1>5, ThreadFrame, ItemsFrame
  <1> QED
    BY <1>1, <1>2, <1>3, <1>4, <1>6

\* A call that is not a push begins or ends.
LEMMA CallMoves ==
    ASSUME CombinerIInv, NEW t \in AllThreads,
           call[t].pc \in {"none", "orphan"}, call'[t].pc \in {"none", "orphan"},
           call' \in [AllThreads -> CallRecords],
           call'[t].pc = "none" => call'[t].lock = Null,
           call'[t].prev = Null,
           \A u \in AllThreads \ {t} : call'[u] = call[u],
           UNCHANGED <<finalNow, finalList, initiator, queueVars, active, offloads, thread,
                       closure, sent>>,
           \A l \in Locks : Count(l)' = Count(l)
    PROVE  /\ AtMostOneOwner' /\ OwnedIfCounted' /\ BusyHasCombiner' /\ CallsPush' /\ SentWaits'
           /\ QueuesLinked'
  <1> USE DEF CombinerIInv, queueVars
  <1>1. \A u \in AllThreads, l \in Locks : Takes(u, l)' <=> Takes(u, l)
    BY DEF Takes
  <1>2. \A l \in Locks : Handed(l)' <=> Handed(l)
    BY DEF Handed
  <1>3. AtMostOneOwner' /\ OwnedIfCounted' /\ BusyHasCombiner'
    BY <1>1, <1>2, ThreadFrame DEF AtMostOneOwner, OwnedIfCounted
  <1>4. \A u \in AllThreads : call'[u].pc \in Pushing \cup {"link"} <=> u # t /\ call[u].pc \in Pushing \cup {"link"}
    BY DEF Pushing
  <1>5. \A u \in AllThreads : call'[u].pc \in Pushing \cup {"link"} => call'[u] = call[u]
    BY <1>4
  <1>6. CallsPush'
    BY <1>4, <1>5 DEF CallsPush, WaitsFor
  <1>7. SentWaits'
    BY <1>5 DEF SentWaits
  <1>8. ASSUME NEW l \in Locks, NEW q \in Orders, Queue(l, q) PROVE Queue(l, q)'
    <2>1. IsQueue(l, q) /\ KeepsOrder(l, q) /\ StubKnown(l, q)
      BY <1>8 DEF Queue
    <2>2. \A d \in Closures : Pushed(d)' <=> Pushed(d)
      BY DEF Pushed, Pushing
    <2>3. \A d \in Closures : (WaitsFor(d, l) /\ Pushed(d))' <=> WaitsFor(d, l) /\ Pushed(d)
      BY <2>2 DEF WaitsFor
    <2>4. IsQueue(l, q)'
      BY <2>1, <2>3, <1>5 DEF IsQueue
    <2>5. KeepsOrder(l, q)'
      BY <2>1 DEF KeepsOrder
    <2>6. StubKnown(l, q)'
      BY <2>1, ThreadFrame DEF StubKnown
    <2> QED
      BY <2>4, <2>5, <2>6 DEF Queue
  <1>9. QueuesLinked'
    BY <1>8 DEF QueuesLinked, Orders
  <1> QED
    BY <1>3, <1>6, <1>7, <1>9

\* A reference is given up; the last one by a thread that goes on to start_destroy.
LEMMA UnrefIInv ==
    ASSUME CombinerIInv, NEW t \in AllThreads, NEW l \in Locks, Unref(t, l)
    PROVE  CombinerIInv'
  <1> USE DEF CombinerIInv, lockVars, queueVars
  <1>1. /\ call[t].pc = "none" /\ refs[l] > 0
        /\ refs' = [refs EXCEPT ![l] = @ - 1]
        /\ UNCHANGED <<state, initiator, finalNow, finalList, destroyed, queueVars, active,
                       offloads, thread, closure, sent>>
    BY DEF Unref, MayCall
  <1>2. /\ refs' \in [Locks -> Nat] /\ refs'[l] = refs[l] - 1 /\ refs[l] \in Nat
        /\ \A k \in Locks \ {l} : refs'[k] = refs[k]
    BY <1>1 DEF CombinerTypeOK
  <1>3. /\ call' \in [AllThreads -> CallRecords]
        /\ \A u \in AllThreads \ {t} : call'[u] = call[u]
        /\ refs[l] = 1 => call'[t].pc = "orphan" /\ call'[t].lock = l
        /\ refs[l] # 1 => call'[t].pc = "none"
        /\ call'[t].pc = "none" => call'[t].lock = Null
        /\ call'[t].prev = Null
    <2>1. CASE refs[l] = 1
      <3>1. call' = [call EXCEPT ![t] = [NoCall EXCEPT !.pc = "orphan", !.lock = l]]
        BY <2>1 DEF Unref
      <3> QED
        BY <2>1, <3>1 DEF NoCall, CombinerTypeOK, CallRecords
    <2>2. CASE refs[l] # 1
      <3>1. call' = call
        BY <2>2 DEF Unref, CombinerTypeOK
      <3> QED
        BY <2>2, <3>1, <1>1 DEF CombinerTypeOK, CallsPush
    <2> QED
      BY <2>1, <2>2
  <1>4. CombinerTypeOK'
    BY <1>1, <1>2, <1>3 DEF CombinerTypeOK
  <1>5. \A u \in AllThreads : ~Orphans(u, l)
    BY <1>1, <1>2 DEF FreedAtZero
  <1>6. \A u \in AllThreads, k \in Locks :
          Orphans(u, k)' <=> Orphans(u, k) \/ (u = t /\ k = l /\ refs[l] = 1)
    BY <1>1, <1>3 DEF Orphans
  <1>7. \A k \in Locks : Held(k)' <=> Held(k)
    <2>1. \A k \in Locks \ {l} : Held(k)' <=> Held(k)
      BY <1>2, <1>6 DEF Held
    <2>2. Held(l) /\ Held(l)'
      <3>1. CASE refs[l] = 1
        BY <3>1, <1>1, <1>6 DEF Held
      <3>2. CASE refs[l] # 1
        BY <3>2, <1>1, <1>2 DEF Held
      <3> QED
        BY <3>1, <3>2
    <2> QED
      BY <2>1, <2>2
  <1>8. FreedAtZero'
    <2>1. \A k \in Locks : \A u, v \in AllThreads :
            Orphans(u, k)' => refs'[k] = 0 /\ (Orphans(v, k)' => u = v)
      BY <1>2, <1>5, <1>6 DEF FreedAtZero
    <2>2. \A u \in AllThreads : call'[u].pc = "orphan" => call'[u].lock \in Locks
      BY <1>3 DEF FreedAtZero
    <2> QED
      BY <2>1, <2>2, <1>1 DEF FreedAtZero
  <1>9. \A k \in Locks : Count(k)' = Count(k)
    BY <1>1 DEF Count
  <1>10. /\ AtMostOneOwner' /\ OwnedIfCounted' /\ BusyHasCombiner' /\ CallsPush' /\ SentWaits'
         /\ QueuesLinked'
    BY <1>1, <1>3, <1>9, CallMoves
  <1>11. /\ ClosuresPlaced' /\ FinalListed' /\ RestListed' /\ FinalsFound' /\ FinalDue'
         /\ \A k \in Locks : Items(k)' = Items(k)
    BY <1>1, ClosureFrame
  <1>12. StateIsItems'
    BY <1>1, <1>7, <1>11 DEF StateIsItems
  <1> QED
    BY <1>4, <1>8, <1>10, <1>11, <1>12

\* start_destroy takes the last reference's bit away, and frees the combiner if
\* nothing is left to run.
LEMMA OrphanIInv ==
    ASSUME CombinerIInv, NEW t \in AllThreads, Orphan(t)
    PROVE  CombinerIInv'
  <1> USE DEF CombinerIInv, lockVars, queueVars
  <1>1. call[t].pc = "orphan" /\ call[t].lock \in Locks
    BY DEF Orphan, FreedAtZero
  <1>2. PICK l \in Locks : l = call[t].lock
    BY <1>1
  <1>3. /\ state' = [state EXCEPT ![l] = @ - 1]
        /\ destroyed' = IF state[l] = 1 THEN destroyed \cup {l} ELSE destroyed
        /\ call' = [call EXCEPT ![t] = NoCall]
        /\ UNCHANGED <<refs, initiator, finalNow, finalList, queueVars, active, offloads, thread,
                       closure, sent>>
    BY <1>2 DEF Orphan
  <1>4. Orphans(t, l) /\ Held(l)
    BY <1>1, <1>2 DEF Orphans, Held
  <1>5. /\ \A k \in Locks : Items(k) \in Nat /\ Count(k) = Items(k) /\ state[k] \in Nat
        /\ state[l] = 2 * Items(l) + 1
    BY <1>4, ItemsFacts
  <1>6. /\ state' \in [Locks -> Nat] /\ state'[l] = state[l] - 1 /\ state'[l] = 2 * Items(l)
        /\ \A k \in Locks \ {l} : state'[k] = state[k]
    <2>1. state[l] - 1 \in Nat /\ state[l] - 1 = 2 * Items(l)
      BY <1>5
    <2> QED
      BY <2>1, <1>3 DEF CombinerTypeOK
  <1>7. /\ call' \in [AllThreads -> CallRecords]
        /\ \A u \in AllThreads \ {t} : call'[u] = call[u]
        /\ call'[t] = NoCall /\ call'[t].pc = "none" /\ call'[t].lock = Null /\ call'[t].prev = Null
    BY <1>3 DEF CombinerTypeOK, CallRecords, NoCall
  <1>8. CombinerTypeOK'
    BY <1>3, <1>6, <1>7 DEF CombinerTypeOK
  <1>9. \A u \in AllThreads, k \in Locks : Orphans(u, k)' <=> Orphans(u, k) /\ u # t
    BY <1>7 DEF Orphans
  <1>10. /\ \A k \in Locks \ {l} : Held(k)' <=> Held(k)
         /\ ~Held(l)'
    <2>1. \A k \in Locks \ {l} : Orphans(t, k) = FALSE
      BY <1>2 DEF Orphans
    <2>2. refs[l] = 0 /\ \A u \in AllThreads : Orphans(u, l) => u = t
      BY <1>4 DEF FreedAtZero
    <2> QED
      BY <2>1, <2>2, <1>3, <1>9 DEF Held
  <1>11. \A k \in Locks : Count(k)' = Count(k)
    <2>1. (2 * Items(l)) \div 2 = Items(l)
      BY <1>5
    <2> QED
      BY <2>1, <1>5, <1>6 DEF Count
  <1>12. /\ AtMostOneOwner' /\ OwnedIfCounted' /\ BusyHasCombiner' /\ CallsPush' /\ SentWaits'
         /\ QueuesLinked'
    BY <1>1, <1>3, <1>7, <1>11, CallMoves
  <1>13. /\ ClosuresPlaced' /\ FinalListed' /\ RestListed' /\ FinalsFound' /\ FinalDue'
         /\ \A k \in Locks : Items(k)' = Items(k)
    BY <1>3, ClosureFrame
  <1>14. StateIsItems'
    BY <1>5, <1>6, <1>10, <1>13 DEF StateIsItems
  <1>15. FreedAtZero'
    <2>1. \A k \in Locks : k \in destroyed' <=> state'[k] = 0
      <3>1. \A k \in Locks : k \in destroyed <=> state[k] = 0
        BY DEF FreedAtZero
      <3>2. l \notin destroyed /\ (state'[l] = 0 <=> state[l] = 1)
        BY <3>1, <1>5, <1>6
      <3>3. \A k \in Locks \ {l} : k \in destroyed' <=> k \in destroyed
        BY <1>3
      <3>4. l \in destroyed' <=> state[l] = 1
        BY <3>2, <1>3
      <3> QED
        BY <3>1, <3>2, <3>3, <3>4, <1>6
    <2>2. \A k \in Locks : \A u, v \in AllThreads :
            Orphans(u, k)' => refs'[k] = 0 /\ (Orphans(v, k)' => u = v)
      BY <1>3, <1>9 DEF FreedAtZero
    <2>3. \A u \in AllThreads : call'[u].pc = "orphan" => call'[u].lock \in Locks
      BY <1>7 DEF FreedAtZero
    <2> QED
      BY <2>1, <2>2, <2>3 DEF FreedAtZero
  <1> QED
    BY <1>8, <1>12, <1>13, <1>14, <1>15

\* combiner_exec, before the push: the first one puts the combiner on its list.
LEMMA ExecStepIInv ==
    ASSUME CombinerIInv, NEW t \in AllThreads, ExecFirst(t) \/ ExecOther(t)
    PROVE  CombinerIInv'
  <1> USE DEF CombinerIInv, lockVars, queueVars
  <1>1. /\ call[t].pc \in {"first", "other"}
        /\ call' = [call EXCEPT ![t].pc = "swap"]
        /\ UNCHANGED <<state, refs, finalNow, finalList, destroyed, queueVars, offloads, thread,
                       closure, sent>>
    BY DEF ExecFirst, ExecOther
  <1>2. PICK l \in Locks : l = call[t].lock
    BY <1>1 DEF CallsPush, Pushing
  <1>3. /\ call' \in [AllThreads -> CallRecords]
        /\ \A u \in AllThreads \ {t} : call'[u] = call[u]
        /\ call'[t].pc = "swap" /\ call'[t].closure = call[t].closure
        /\ call'[t].lock = l /\ call'[t].prev = call[t].prev
    BY <1>1, <1>2 DEF CombinerTypeOK, CallRecords, Pushing
  <1>4. initiator' \in [Locks -> AllThreads \cup {Null}]
    BY <1>2 DEF ExecFirst, ExecOther, CombinerTypeOK
  <1>5. /\ active' \in [AllThreads -> Seq(Locks)] /\ IsInjective(active'[t])
        /\ \A u \in AllThreads \ {t} : active'[u] = active[u]
        /\ ToSet(active'[t]) = IF call[t].pc = "first" THEN ToSet(active[t]) \cup {l} ELSE ToSet(active[t])
        /\ active'[t] # <<>> /\ active[t] # <<>> => Head(active'[t]) = Head(active[t])
        /\ active[t] # <<>> => active'[t] # <<>>
    <2>1. active[t] \in Seq(Locks) /\ IsInjective(active[t])
      BY DEF CombinerTypeOK, AtMostOneOwner
    <2>2. CASE ExecFirst(t)
      <3>1. call[t].pc = "first" /\ active' = [active EXCEPT ![t] = Append(@, l)]
        BY <2>2, <1>2 DEF ExecFirst
      <3>2. l \notin ToSet(active[t])
        BY <3>1, <1>2 DEF AtMostOneOwner, Takes, Lists
      <3>3. /\ Append(active[t], l) \in Seq(Locks) /\ Append(active[t], l) # <<>>
            /\ IsInjective(Append(active[t], l))
            /\ ToSet(Append(active[t], l)) = ToSet(active[t]) \cup {l}
            /\ active[t] # <<>> => Head(Append(active[t], l)) = Head(active[t])
        BY <2>1, <3>2, AppendFacts
      <3> QED
        BY <3>1, <3>3 DEF CombinerTypeOK
    <2>3. CASE ExecOther(t)
      <3>1. call[t].pc = "other" /\ active' = active
        BY <2>3 DEF ExecOther
      <3> QED
        BY <3>1, <2>1 DEF CombinerTypeOK
    <2> QED
      BY <2>2, <2>3
  <1>6. CombinerTypeOK'
    BY <1>1, <1>3, <1>4, <1>5 DEF CombinerTypeOK
  <1>7. /\ \A u \in AllThreads, k \in Locks :
              Lists(u, k)' <=> Lists(u, k) \/ (u = t /\ k = l /\ Takes(t, l))
        /\ \A u \in AllThreads, k \in Locks : Takes(u, k)' <=> Takes(u, k) /\ u # t
        /\ \A k \in Locks : Takes(t, k) => k = l
        /\ \A k \in Locks : (Handed(k)' <=> Handed(k)) /\ Count(k)' = Count(k)
    BY <1>1, <1>2, <1>3, <1>5 DEF Lists, Takes, Handed, Count
  <1>8. AtMostOneOwner'
    BY <1>1, <1>5, <1>7 DEF AtMostOneOwner
  <1>9. OwnedIfCounted'
    BY <1>7 DEF OwnedIfCounted
  <1>10. BusyHasCombiner'
    BY <1>1, <1>5 DEF BusyHasCombiner
  <1>11. \A u \in AllThreads : thread[u].pc # "top" =>
            Mine(u)' = Mine(u) /\ \A k \in Locks : HasActive(u, k)' <=> HasActive(u, k)
    <2>1. \A u \in AllThreads : thread[u].pc # "top" => active[u] # <<>> /\ active'[u] # <<>>
      BY <1>10, <1>1 DEF BusyHasCombiner
    <2> QED
      BY <2>1, <1>5 DEF Mine, HasActive
  <1>12. \A u \in AllThreads, k \in Locks : Runs(u, k)' <=> Runs(u, k)
    BY <1>1, <1>11 DEF Runs, Executing
  <1>13. CallsPush'
    <2>1. \A u \in AllThreads :
            /\ call'[u].pc \in Pushing \cup {"link"} <=> call[u].pc \in Pushing \cup {"link"}
            /\ call'[u].closure = call[u].closure /\ call'[u].lock = call[u].lock
            /\ call'[u].prev = call[u].prev
            /\ call'[u].pc = "none" <=> call[u].pc = "none"
            /\ call'[u].pc = "link" <=> call[u].pc = "link"
      BY <1>1, <1>2, <1>3 DEF Pushing
    <2> QED
      BY <2>1, <1>1 DEF CallsPush, WaitsFor
  <1>14. /\ \A u \in AllThreads : call'[u].pc \in Pushing <=> call[u].pc \in Pushing
         /\ \A u \in AllThreads : call'[u].closure = call[u].closure
         /\ \A u \in AllThreads, k \in Locks : Orphans(u, k)' <=> Orphans(u, k)
    BY <1>1, <1>2, <1>3 DEF Pushing, Orphans
  <1>15. ClosuresPlaced' /\ FinalListed'
    BY <1>1 DEF ClosuresPlaced, FinalListed, FinalOn
  <1>16. SentWaits'
    BY <1>1, <1>14 DEF SentWaits
  <1>17. FreedAtZero'
    <2>1. \A u \in AllThreads : call'[u].pc = "orphan" => call'[u].lock \in Locks
      BY <1>3 DEF FreedAtZero
    <2> QED
      BY <2>1, <1>1, <1>14 DEF FreedAtZero
  <1>18. RestListed'
    <2>1. \A u \in AllThreads : thread[u].rest # <<>> => Mine(u)' = Mine(u)
      BY <1>11 DEF RestListed
    <2>2. \A u \in AllThreads : thread[u].rest = <<>> => ToSet(thread[u].rest) = {}
      BY DEF ToSet
    <2> QED
      BY <2>1, <2>2, <1>1 DEF RestListed, FinalOn
  <1>19. FinalsFound'
    <2>1. \A c \in Closures, k \in Locks : FinalOn(c, k)' <=> FinalOn(c, k)
      BY <1>1 DEF FinalOn
    <2>2. \A u \in AllThreads : ToSet(thread[u].rest) # {} => thread[u].pc # "top"
      BY DEF RestListed, ToSet
    <2> QED
      BY <2>1, <2>2, <1>1, <1>11 DEF FinalsFound
  <1>20. FinalDue'
    BY <1>1, <1>12 DEF FinalDue, Runs
  <1>21. \A k \in Locks : Waiting(k)' = Waiting(k) /\ Held(k)' = Held(k)
    BY <1>1, <1>14 DEF Waiting, WaitsFor, Held
  <1>22. StateIsItems'
    BY <1>1, <1>12, <1>21, ItemsFrame DEF StateIsItems
  <1>23. ASSUME NEW k \in Locks, NEW q \in Orders, Queue(k, q) PROVE Queue(k, q)'
    <2>1. IsQueue(k, q) /\ KeepsOrder(k, q) /\ StubKnown(k, q)
      BY <1>23 DEF Queue
    <2>2. \A d \in Closures : (WaitsFor(d, k) /\ Pushed(d))' <=> WaitsFor(d, k) /\ Pushed(d)
      BY <1>1, <1>14 DEF WaitsFor, Pushed
    <2>3. \A u \in AllThreads : call'[u].pc = "link" => call'[u] = call[u]
      BY <1>3
    <2>4. IsQueue(k, q)'
      BY <2>1, <2>2, <2>3, <1>1 DEF IsQueue
    <2>5. KeepsOrder(k, q)'
      BY <2>1, <1>1 DEF KeepsOrder
    <2>6. \A u \in AllThreads : HasActive(u, k)' /\ thread'[u].pc \in Popping
                                => HasActive(u, k) /\ thread'[u] = thread[u]
      BY <1>1, <1>11 DEF Popping
    <2>7. StubKnown(k, q)'
      BY <2>1, <2>6, <1>1, StubFrame
    <2> QED
      BY <2>4, <2>5, <2>7 DEF Queue
  <1>24. QueuesLinked'
    BY <1>23 DEF QueuesLinked, Orders
  <1> QED
    BY <1>6, <1>8, <1>9, <1>10, <1>13, <1>15, <1>16, <1>17, <1>18, <1>19, <1>20, <1>22, <1>24

-----------------------------------------------------------------------------
(***************************************************************************)
(* Pushing and popping.                                                    *)
(***************************************************************************)
\* No node is in two queues.
LEMMA QueuesDisjoint ==
    ASSUME NEW k \in Locks, NEW l \in Locks, k # l, NEW p, NEW q, IsQueue(k, p), IsQueue(l, q),
           NEW n, n \in ToSet(p)
    PROVE  n \notin ToSet(q)
  <1>1. n \in Closures \cup {k} /\ k \notin Closures
    BY NodesAssumption DEF IsQueue
  <1>2. CASE n = k
    BY <1>1, <1>2 DEF IsQueue
  <1>3. CASE n \in Closures
    BY <1>3 DEF IsQueue, WaitsFor
  <1> QED
    BY <1>1, <1>2, <1>3

\* A queue that a step does not touch.
LEMMA QueueKept ==
    ASSUME NEW k \in Locks, NEW q, q \in Orders, IsQueue(k, q), StubKnown(k, q),
           tail'[k] = tail[k], head'[k] = head[k],
           \A n \in ToSet(q) : next'[n] = next[n],
           \A c \in Closures : (WaitsFor(c, k) /\ Pushed(c))' <=> WaitsFor(c, k) /\ Pushed(c),
           \A u \in AllThreads : call'[u].pc = "link" /\ call'[u].lock = k => call'[u] = call[u],
           \A u \in AllThreads : HasActive(u, k)' /\ thread'[u].pc \in Popping
                                 => HasActive(u, k) /\ thread'[u] = thread[u]
    PROVE  IsQueue(k, q)' /\ StubKnown(k, q)'
  <1>1. /\ Len(q) \in Nat /\ DOMAIN q = 1..Len(q) /\ \A i \in 1..Len(q) : q[i] \in ToSet(q)
        /\ q # <<>> => Len(q) # 0
    BY ToSetType DEF Orders
  <1>2. \A i \in 1..Len(q) : next'[q[i]] = next[q[i]]
    BY <1>1
  <1>3. Len(q) \in 1..Len(q) /\ \A i \in 1..(Len(q) - 1) : i \in 1..Len(q) /\ i + 1 \in 1..Len(q)
    BY <1>1 DEF IsQueue
  <1>4. /\ next'[q[Len(q)]] = next[q[Len(q)]]
        /\ \A i \in 1..(Len(q) - 1) : next'[q[i]] = next[q[i]]
    BY <1>2, <1>3
  <1>5. ASSUME NEW u \in AllThreads, call'[u].pc = "link", call'[u].lock = k
        PROVE  \E i \in 1..(Len(q) - 1) : /\ call'[u].prev = q[i] /\ call'[u].closure = q[i + 1]
                                          /\ next'[q[i]] = Null
    <2>1. call[u].pc = "link" /\ call[u].lock = k /\ call'[u] = call[u]
      BY <1>5
    <2>2. PICK i \in 1..(Len(q) - 1) : /\ call[u].prev = q[i] /\ call[u].closure = q[i + 1]
                                       /\ next[q[i]] = Null
      BY <2>1 DEF IsQueue
    <2> QED
      BY <2>1, <2>2, <1>4
  <1>6. IsQueue(k, q)'
    BY <1>4, <1>5 DEF IsQueue
  <1>7. "stubSwap" \in Popping /\ "stubLink" \in Popping
    BY DEF Popping
  <1>8. ASSUME NEW u \in AllThreads, HasActive(u, k)', thread'[u].pc = "stubLink"
        PROVE  \E i \in 1..(Len(q) - 1) : /\ thread'[u].prev = q[i] /\ k = q[i + 1]
                                          /\ next'[q[i]] = Null
    <2>1. HasActive(u, k) /\ thread'[u] = thread[u] /\ thread[u].pc = "stubLink"
      BY <1>7, <1>8
    <2>2. PICK i \in 1..(Len(q) - 1) : /\ thread[u].prev = q[i] /\ k = q[i + 1]
                                       /\ next[q[i]] = Null
      BY <2>1 DEF StubKnown
    <2> QED
      BY <2>1, <2>2, <1>4
  <1>9. StubKnown(k, q)'
    BY <1>7, <1>8 DEF StubKnown
  <1> QED
    BY <1>6, <1>9

\* All but the queues when a call pushes its node.
LEMMA PushFrame ==
    ASSUME CombinerIInv, NEW t \in AllThreads, call[t].pc \in {"swap", "link"},
           \/ /\ call'[t].pc = "link" /\ call'[t].closure = call[t].closure
              /\ call'[t].lock = call[t].lock
           \/ call'[t] = NoCall,
           \A u \in AllThreads \ {t} : call'[u] = call[u],
           UNCHANGED <<lockVars, active, offloads, thread, closure, sent>>
    PROVE  /\ AtMostOneOwner' /\ OwnedIfCounted' /\ BusyHasCombiner'
           /\ CallsPush' /\ ClosuresPlaced' /\ SentWaits'
           /\ FinalListed' /\ RestListed' /\ FinalsFound' /\ FinalDue'
           /\ StateIsItems' /\ FreedAtZero'
  <1> USE DEF CombinerIInv, lockVars
  <1>1. call'[t].pc \in {"none", "link"} /\ (call'[t].pc = "none" => call'[t] = NoCall)
    BY DEF NoCall
  <1>2. \A u \in AllThreads, l \in Locks :
            (Takes(u, l)' <=> Takes(u, l)) /\ (Orphans(u, l)' <=> Orphans(u, l))
    BY <1>1 DEF Takes, Orphans
  <1>3. \A l \in Locks : (Handed(l)' <=> Handed(l)) /\ Count(l)' = Count(l)
    BY DEF Handed, Count
  <1>4. AtMostOneOwner' /\ OwnedIfCounted' /\ BusyHasCombiner'
    BY <1>2, <1>3, ThreadFrame DEF AtMostOneOwner, OwnedIfCounted
  <1>5. \A u \in AllThreads : call'[u].pc \in Pushing => call'[u] = call[u]
    BY <1>1 DEF Pushing
  <1>6. CallsPush'
    <2>1. \A u \in AllThreads : call'[u].pc \in Pushing \cup {"link"} =>
            /\ call[u].pc \in Pushing \cup {"link"}
            /\ call'[u].closure = call[u].closure /\ call'[u].lock = call[u].lock
      BY <1>1 DEF Pushing, NoCall
    <2>2. \A u \in AllThreads : /\ call'[u].pc = "none" => call'[u].lock = Null
                                /\ call'[u].pc # "link" => call'[u].prev = Null
      BY <1>1 DEF CallsPush, NoCall
    <2> QED
      BY <2>1, <2>2 DEF CallsPush, WaitsFor
  <1>7. SentWaits'
    BY <1>5 DEF SentWaits
  <1>8. /\ ClosuresPlaced' /\ FinalListed' /\ RestListed' /\ FinalsFound' /\ FinalDue'
        /\ \A l \in Locks : Items(l)' = Items(l)
    BY ClosureFrame
  <1>9. \A l \in Locks : Held(l)' <=> Held(l)
    BY <1>2 DEF Held
  <1>10. StateIsItems'
    BY <1>8, <1>9 DEF StateIsItems
  <1>11. FreedAtZero'
    <2>1. \A u \in AllThreads : call'[u].pc = "orphan" => call'[u].lock \in Locks
      BY <1>1 DEF FreedAtZero
    <2> QED
      BY <2>1, <1>2 DEF FreedAtZero
  <1> QED
    BY <1>4, <1>6, <1>7, <1>8, <1>10, <1>11

\* What the first half of a push does to the queue.
HeadBecomes(l, n) ==
    /\ next'[n] = Null /\ \A m \in Nodes \ {n} : next'[m] = next[m]
    /\ head'[l] = n /\ tail'[l] = tail[l]
    /\ \A c \in Closures : (WaitsFor(c, l) /\ Pushed(c))' <=> (WaitsFor(c, l) /\ Pushed(c)) \/ c = n
    /\ \A u \in AllThreads : call'[u].pc = "link" /\ call'[u].lock = l =>
        \/ call'[u] = call[u]
        \/ call'[u].prev = head[l] /\ call'[u].closure = n

\* p is q with n at its end, and its nodes are as they were.
Extended(l, q, n, p) ==
    /\ p \in Orders /\ Len(q) \in Nat \ {0} /\ Len(p) = Len(q) + 1
    /\ \A i \in 1..Len(q) : p[i] = q[i] /\ next'[q[i]] = next[q[i]]
    /\ p[Len(q) + 1] = n /\ q[Len(q)] = head[l] /\ next'[head[l]] = Null
    /\ ToSet(p) = ToSet(q) \cup {n}
    /\ DOMAIN q = 1..Len(q) /\ DOMAIN p = 1..(Len(q) + 1)

\* A node becomes the head of a queue: it is the last of the longer one.
LEMMA QueueExtended ==
    ASSUME NEW l \in Locks, NEW q \in Orders, NEW n \in Closures \cup {l}, NEW p,
           p = Append(q, n), n \notin ToSet(q), IsQueue(l, q), HeadBecomes(l, n)
    PROVE  IsQueue(l, p)' /\ Extended(l, q, n, p)
  <1> USE DEF HeadBecomes
  <1>1. q \in Seq(Nodes) /\ n \in Nodes /\ q # <<>> /\ IsInjective(q)
    BY DEF Orders, Nodes, IsQueue
  <1>2. /\ p \in Seq(Nodes) /\ p # <<>> /\ Len(q) \in Nat /\ Len(p) = Len(q) + 1
        /\ p[Len(q) + 1] = n /\ (\A i \in 1..Len(q) : p[i] = q[i])
        /\ ToSet(p) = ToSet(q) \cup {n} /\ IsInjective(p)
    BY <1>1, AppendFacts
  <1>3. /\ DOMAIN q = 1..Len(q) /\ \A i \in 1..Len(q) : q[i] \in Nodes /\ q[i] \in ToSet(q)
        /\ Len(q) # 0
    BY <1>1, ToSetType
  <1>4. DOMAIN p = 1..(Len(q) + 1)
    BY <1>2, LenProperties
  <1>5. next'[n] = Null /\ \A i \in 1..Len(q) : next'[q[i]] = next[q[i]]
    BY <1>1, <1>3
  <1>6. /\ q[1] = tail[l] /\ q[Len(q)] = head[l] /\ next[q[Len(q)]] = Null
        /\ \A i \in 1..(Len(q) - 1) : next[q[i]] \in {q[i + 1], Null}
    BY DEF IsQueue
  <1>7. 1 \in 1..Len(q) /\ Len(q) \in 1..Len(q)
    BY <1>2, <1>3
  <1>8. next'[head[l]] = Null
    BY <1>5, <1>6, <1>7
  <1>9. /\ p[1] = tail'[l] /\ p[Len(p)] = head'[l] /\ next'[p[Len(p)]] = Null
    BY <1>2, <1>5, <1>6, <1>7
  <1>10. ASSUME NEW i \in 1..(Len(p) - 1) PROVE next'[p[i]] \in {p[i + 1], Null}
    <2>1. i \in 1..Len(q) /\ p[i] = q[i]
      BY <1>2
    <2>2. CASE i = Len(q)
      BY <2>1, <2>2, <1>6, <1>8
    <2>3. CASE i # Len(q)
      <3>1. i \in 1..(Len(q) - 1) /\ i + 1 \in 1..Len(q)
        BY <2>1, <2>3, <1>2
      <3>2. p[i + 1] = q[i + 1]
        BY <3>1, <1>2
      <3> QED
        BY <3>1, <3>2, <2>1, <1>5, <1>6
    <2> QED
      BY <2>2, <2>3
  <1>11. ASSUME NEW u \in AllThreads, call'[u].pc = "link", call'[u].lock = l
         PROVE  \E i \in 1..(Len(p) - 1) : /\ call'[u].prev = p[i] /\ call'[u].closure = p[i + 1]
                                           /\ next'[p[i]] = Null
    <2>1. CASE call'[u] = call[u]
      <3>1. PICK i \in 1..(Len(q) - 1) : /\ call[u].prev = q[i] /\ call[u].closure = q[i + 1]
                                         /\ next[q[i]] = Null
        BY <2>1, <1>11 DEF IsQueue
      <3>2. i \in 1..Len(q) /\ i + 1 \in 1..Len(q) /\ i \in 1..(Len(p) - 1)
        BY <1>2
      <3>3. p[i] = q[i] /\ p[i + 1] = q[i + 1] /\ next'[q[i]] = next[q[i]]
        BY <3>2, <1>2, <1>5
      <3> QED
        BY <3>1, <3>2, <3>3, <2>1
    <2>2. CASE call'[u].prev = head[l] /\ call'[u].closure = n
      <3>1. Len(q) \in 1..(Len(p) - 1) /\ p[Len(q)] = head[l] /\ p[Len(q) + 1] = n
        BY <1>2, <1>6, <1>7
      <3> QED
        BY <3>1, <2>2, <1>8
    <2> QED
      BY <2>1, <2>2, <1>11
  <1>12. /\ ToSet(p) \subseteq Closures \cup {l}
         /\ \A c \in Closures : c \in ToSet(p) <=> (WaitsFor(c, l) /\ Pushed(c))'
    BY <1>2 DEF IsQueue
  <1>13. IsQueue(l, p)'
    BY <1>2, <1>9, <1>10, <1>11, <1>12 DEF IsQueue
  <1> QED
    BY <1>2, <1>3, <1>4, <1>5, <1>6, <1>8, <1>13 DEF Orders, Extended

\* gpr_mpscq_push, first half.
LEMMA PushSwapIInv ==
    ASSUME CombinerIInv, NEW t \in AllThreads, PushSwap(t)
    PROVE  CombinerIInv'
  <1> USE DEF CombinerIInv, lockVars, queueVars
  <1>1. /\ call[t].pc = "swap" /\ call[t].pc \in Pushing
        /\ UNCHANGED <<lockVars, tail, active, offloads, thread, closure, sent>>
    BY DEF PushSwap, Pushing
  <1>2. PICK l \in Locks : l = call[t].lock
    BY <1>1 DEF CallsPush
  <1>3. PICK c \in Closures : c = call[t].closure
    BY <1>1 DEF CallsPush
  <1>4. /\ next' = [next EXCEPT ![c] = Null] /\ head' = [head EXCEPT ![l] = c]
        /\ call' = [call EXCEPT ![t].pc = "link", ![t].prev = head[l]]
    BY <1>2, <1>3 DEF PushSwap
  <1>5. /\ call' \in [AllThreads -> CallRecords]
        /\ \A u \in AllThreads \ {t} : call'[u] = call[u]
        /\ call'[t].pc = "link" /\ call'[t].closure = c
        /\ call'[t].lock = l /\ call'[t].prev = head[l]
    BY <1>2, <1>3, <1>4 DEF CombinerTypeOK, CallRecords
  <1>6. CombinerTypeOK'
    <2>1. head' \in [Locks -> Nodes] /\ next' \in [Nodes -> Nodes \cup {Null}]
      BY <1>4 DEF CombinerTypeOK, Nodes
    <2> QED
      BY <2>1, <1>1, <1>5 DEF CombinerTypeOK
  <1>7. /\ AtMostOneOwner' /\ OwnedIfCounted' /\ BusyHasCombiner'
        /\ CallsPush' /\ ClosuresPlaced' /\ SentWaits'
        /\ FinalListed' /\ RestListed' /\ FinalsFound' /\ FinalDue'
        /\ StateIsItems' /\ FreedAtZero'
    BY <1>1, <1>2, <1>3, <1>5, PushFrame
  <1>8. ~Pushed(c) /\ Pushed(c)' /\ \A d \in Closures \ {c} : Pushed(d)' <=> Pushed(d)
    <2>1. \A u \in AllThreads \ {t} : call[u].pc \in Pushing => call[u].closure # c
      BY <1>1, <1>3 DEF CallsPush
    <2>2. \A u \in AllThreads : call'[u].pc \in Pushing => u # t /\ call[u].pc \in Pushing /\ call'[u] = call[u]
      BY <1>5 DEF Pushing
    <2>3. Pushed(c)' /\ ~Pushed(c)
      BY <2>1, <2>2, <1>1, <1>3 DEF Pushed
    <2>4. ASSUME NEW d \in Closures \ {c} PROVE Pushed(d)' <=> Pushed(d)
      BY <2>2, <1>3, <1>5 DEF Pushed
    <2> QED
      BY <2>3, <2>4
  <1>9. WaitsFor(c, l) /\ \A d \in Closures : \A k : WaitsFor(d, k)' <=> WaitsFor(d, k)
    BY <1>1, <1>2, <1>3 DEF CallsPush, WaitsFor
  <1>10. \A k \in Locks \ {l} : ~WaitsFor(c, k)
    BY <1>9 DEF WaitsFor
  <1>11. \A k \in Locks, q \in Orders : IsQueue(k, q) => c \notin ToSet(q)
    BY <1>8 DEF IsQueue
  <1>12. ASSUME NEW k \in Locks \ {l} PROVE \E q \in Orders : Queue(k, q)'
    <2>1. PICK q \in Orders : Queue(k, q)
      BY DEF QueuesLinked
    <2>2. IsQueue(k, q) /\ StubKnown(k, q) /\ KeepsOrder(k, q) /\ c \notin ToSet(q)
      BY <2>1, <1>11 DEF Queue
    <2>3. tail'[k] = tail[k] /\ head'[k] = head[k] /\ \A n \in ToSet(q) : next'[n] = next[n]
      <3>1. ToSet(q) \subseteq Nodes
        BY ToSetType DEF Orders
      <3> QED
        BY <3>1, <2>2, <1>1, <1>4 DEF CombinerTypeOK
    <2>4. \A d \in Closures : (WaitsFor(d, k) /\ Pushed(d))' <=> WaitsFor(d, k) /\ Pushed(d)
      BY <1>8, <1>9, <1>10
    <2>5. \A u \in AllThreads : call'[u].pc = "link" /\ call'[u].lock = k => call'[u] = call[u]
      BY <1>5
    <2>6. \A u \in AllThreads : HasActive(u, k)' /\ thread'[u].pc \in Popping
                                 => HasActive(u, k) /\ thread'[u] = thread[u]
      BY <1>1, ThreadFrame
    <2>7. IsQueue(k, q)' /\ StubKnown(k, q)'
      BY <2>2, <2>3, <2>4, <2>5, <2>6, QueueKept
    <2>8. KeepsOrder(k, q)'
      BY <2>2, <1>1 DEF KeepsOrder
    <2> QED
      BY <2>7, <2>8 DEF Queue
  <1>13. \E q \in Orders : Queue(l, q)'
    <2>1. PICK q \in Orders : Queue(l, q)
      BY DEF QueuesLinked
    <2>2. IsQueue(l, q) /\ StubKnown(l, q) /\ KeepsOrder(l, q) /\ c \notin ToSet(q)
      BY <2>1, <1>11 DEF Queue
    <2>3. PICK p : p = Append(q, c)
      OBVIOUS
    <2>4. \A d \in Closures : (WaitsFor(d, l) /\ Pushed(d))' <=> (WaitsFor(d, l) /\ Pushed(d)) \/ d = c
      BY <1>8, <1>9
    <2>5. \A u \in AllThreads : call'[u].pc = "link" /\ call'[u].lock = l =>
                \/ call'[u] = call[u]
                \/ call'[u].prev = head[l] /\ call'[u].closure = c
      BY <1>5
    <2>6. /\ IsQueue(l, p)'
          /\ p \in Orders /\ Len(q) \in Nat \ {0} /\ Len(p) = Len(q) + 1
          /\ \A i \in 1..Len(q) : p[i] = q[i] /\ next'[q[i]] = next[q[i]]
          /\ p[Len(q) + 1] = c /\ ToSet(p) = ToSet(q) \cup {c}
          /\ DOMAIN q = 1..Len(q) /\ DOMAIN p = 1..(Len(q) + 1)
      <3>1. HeadBecomes(l, c)
        BY <2>4, <2>5, <1>1, <1>4 DEF CombinerTypeOK, Nodes, HeadBecomes
      <3>2. c \in Closures \cup {l}
        OBVIOUS
      <3> HIDE DEF CombinerIInv
      <3>3. IsQueue(l, p)' /\ Extended(l, q, c, p)
        BY <3>1, <3>2, <2>2, <2>3, QueueExtended
      <3> QED
        BY <3>3 DEF Extended
    <2>7. ASSUME NEW u \in AllThreads, HasActive(u, l), thread[u].pc = "stubLink"
          PROVE  \E i \in 1..(Len(p) - 1) : /\ thread[u].prev = p[i] /\ l = p[i + 1]
                                            /\ next'[p[i]] = Null
      <3>1. PICK i \in 1..(Len(q) - 1) : /\ thread[u].prev = q[i] /\ l = q[i + 1]
                                         /\ next[q[i]] = Null
        BY <2>2, <2>7 DEF StubKnown
      <3>2. i \in 1..Len(q) /\ i + 1 \in 1..Len(q) /\ i \in 1..(Len(p) - 1)
        BY <2>6
      <3>3. p[i] = q[i] /\ p[i + 1] = q[i + 1] /\ next'[q[i]] = next[q[i]]
        BY <3>2, <2>6
      <3> QED
        BY <3>1, <3>2, <3>3
    <2>8. StubKnown(l, p)'
      <3>1. l # c
        BY NodesAssumption
      <3>2. thread' = thread /\ tail' = tail /\ \A u \in AllThreads : HasActive(u, l)' <=> HasActive(u, l)
        BY <1>1, ThreadFrame
      <3>3. \A u \in AllThreads : HasActive(u, l) /\ thread[u].pc = "stubSwap" => l \notin ToSet(p)
        BY <3>1, <2>2, <2>6 DEF StubKnown
      <3> QED
        BY <2>2, <2>7, <3>2, <3>3 DEF StubKnown
    <2>9. ASSUME NEW u \in AllThreads, NEW i \in DOMAIN sent[u], NEW j \in DOMAIN sent[u],
                 i < j, closure[sent[u][i]].lock = l, sent[u][j] \in ToSet(p)
          PROVE  \E a, b \in DOMAIN p : a < b /\ p[a] = sent[u][i] /\ p[b] = sent[u][j]
      <3>1. CASE sent[u][j] \in ToSet(q)
        <4>1. PICK a \in DOMAIN q, b \in DOMAIN q : a < b /\ q[a] = sent[u][i] /\ q[b] = sent[u][j]
          BY <2>2, <2>9, <3>1 DEF KeepsOrder
        <4>2. a \in DOMAIN p /\ b \in DOMAIN p /\ p[a] = q[a] /\ p[b] = q[b]
          BY <2>6
        <4> QED
          BY <4>1, <4>2
      <3>2. CASE sent[u][j] = c
        <4>1. /\ sent[u] \in Seq(Closures) /\ sent[t] \in Seq(Closures)
              /\ DOMAIN sent[u] = 1..Len(sent[u]) /\ sent[u][i] \in Closures
              /\ sent[u][i] \in ToSet(sent[u]) /\ sent[u][j] \in ToSet(sent[u])
          BY ToSetType DEF CombinerTypeOK
        <4>2. \A v \in AllThreads : call[v].pc \in Pushing => call[v].closure \in ToSet(sent[v])
          <5> SUFFICES ASSUME NEW v \in AllThreads, call[v].pc \in Pushing
                       PROVE  call[v].closure \in ToSet(sent[v])
            OBVIOUS
          <5>1. sent[v] \in Seq(Closures) /\ sent[v] # <<>> /\ sent[v][Len(sent[v])] = call[v].closure
            BY DEF SentWaits, CombinerTypeOK
          <5>2. Len(sent[v]) \in 1..Len(sent[v])
            BY <5>1, ToSetType
          <5> QED
            BY <5>1, <5>2, ToSetType
        <4>3. u = t
          BY <3>2, <4>1, <4>2, <1>1, <1>3 DEF SentWaits
        <4>4. sent[u][i] # c
          BY <3>2, <2>9, <4>1 DEF SentWaits, IsInjective
        <4>5. Pushed(sent[u][i])
          <5> SUFFICES ASSUME NEW v \in AllThreads, call[v].pc \in Pushing,
                              call[v].closure = sent[u][i]
                       PROVE  FALSE
            BY DEF Pushed
          <5>1. v = u
            BY <4>1, <4>2 DEF SentWaits
          <5> QED
            BY <5>1, <4>3, <4>4, <1>3
        <4>6. sent[u][i] \in ToSet(q)
          BY <4>1, <4>5, <2>2, <2>9 DEF IsQueue, SentWaits, WaitsFor
        <4>7. PICK a \in DOMAIN q : q[a] = sent[u][i]
          BY <4>6 DEF ToSet
        <4>8. a \in DOMAIN p /\ p[a] = q[a] /\ Len(q) + 1 \in DOMAIN p /\ a < Len(q) + 1
          BY <2>6
        <4> QED
          BY <4>7, <4>8, <3>2, <2>6
      <3> QED
        BY <3>1, <3>2, <2>6, <2>9
    <2>10. KeepsOrder(l, p)'
      BY <2>9, <1>1 DEF KeepsOrder
    <2> QED
      BY <2>6, <2>8, <2>10 DEF Queue
  <1>14. QueuesLinked'
    BY <1>12, <1>13 DEF QueuesLinked, Orders
  <1> QED
    BY <1>6, <1>7, <1>14

\* What the second half of a push does to the queue.
LinkMade(l, n, x) ==
    /\ next'[n] = x /\ \A m \in Nodes \ {n} : next'[m] = next[m]
    /\ head'[l] = head[l] /\ tail'[l] = tail[l]
    /\ \A c \in Closures : (WaitsFor(c, l) /\ Pushed(c))' <=> WaitsFor(c, l) /\ Pushed(c)
    /\ \A u \in AllThreads : call'[u].pc = "link" /\ call'[u].lock = l =>
        call'[u] = call[u] /\ call[u].closure # x

\* Only the link at position i of the queue differs.
OtherLinksKept(q, i) ==
    /\ \A j \in 1..(Len(q) - 1) : j # i => next'[q[j]] = next[q[j]]
    /\ DOMAIN q = 1..Len(q) /\ Len(q) \in Nat

\* A link that was missing is made: the queue is the same.
LEMMA QueueRelinked ==
    ASSUME NEW l \in Locks, NEW q \in Orders, IsQueue(l, q), NEW i \in 1..(Len(q) - 1),
           NEW n, NEW x, n = q[i], x = q[i + 1], LinkMade(l, n, x)
    PROVE  IsQueue(l, q)' /\ OtherLinksKept(q, i)
  <1>1. /\ q \in Seq(Nodes) /\ IsInjective(q) /\ DOMAIN q = 1..Len(q) /\ Len(q) \in Nat
        /\ \A j \in 1..Len(q) : q[j] \in Nodes
        /\ q # <<>> => Len(q) # 0
    BY ToSetType DEF IsQueue, Orders
  <1>2. i \in 1..Len(q) /\ Len(q) \in 1..Len(q) /\ i # Len(q)
    <2>1. PICK k \in Nat : k = Len(q)
      BY <1>1
    <2>2. i \in 1..k /\ k \in 1..k /\ i # k
      BY <2>1
    <2> QED
      BY <2>1, <2>2
  <1>3. ASSUME NEW j \in 1..Len(q), j # i PROVE next'[q[j]] = next[q[j]]
    <2>1. q[j] # n /\ q[j] \in Nodes
      BY <1>1, <1>2, <1>3 DEF IsInjective
    <2> QED
      BY <2>1, SMTT(40) DEF LinkMade
  <1>4. \A j \in 1..(Len(q) - 1) : j \in 1..Len(q)
    BY <1>1
  <1>5. next'[q[Len(q)]] = Null
    BY <1>2, <1>3 DEF IsQueue
  <1>6. ASSUME NEW j \in 1..(Len(q) - 1) PROVE next'[q[j]] \in {q[j + 1], Null}
    <2>1. CASE j = i
      BY <2>1 DEF LinkMade
    <2>2. CASE j # i
      BY <2>2, <1>3, <1>4 DEF IsQueue
    <2> QED
      BY <2>1, <2>2
  <1>7. ASSUME NEW u \in AllThreads, call'[u].pc = "link", call'[u].lock = l
        PROVE  \E j \in 1..(Len(q) - 1) : /\ call'[u].prev = q[j] /\ call'[u].closure = q[j + 1]
                                          /\ next'[q[j]] = Null
    <2>1. call'[u] = call[u] /\ call[u].closure # x
      BY <1>7 DEF LinkMade
    <2>2. PICK j \in 1..(Len(q) - 1) : /\ call[u].prev = q[j] /\ call[u].closure = q[j + 1]
                                       /\ next[q[j]] = Null
      BY <2>1, <1>7 DEF IsQueue
    <2>3. j # i /\ j \in 1..Len(q)
      BY <2>1, <2>2, <1>4
    <2> QED
      BY <2>1, <2>2, <2>3, <1>3
  <1>8. /\ q # <<>> /\ IsInjective(q) /\ ToSet(q) \subseteq Closures \cup {l}
        /\ q[1] = tail'[l] /\ q[Len(q)] = head'[l]
        /\ \A c \in Closures : c \in ToSet(q) <=> (WaitsFor(c, l) /\ Pushed(c))'
    BY DEF IsQueue, LinkMade
  <1>9. IsQueue(l, q)'
    BY <1>5, <1>6, <1>7, <1>8 DEF IsQueue
  <1> QED
    BY <1>1, <1>3, <1>4, <1>9 DEF OtherLinksKept

\* gpr_mpscq_push, second half.
LEMMA PushLinkIInv ==
    ASSUME CombinerIInv, NEW t \in AllThreads, PushLink(t)
    PROVE  CombinerIInv'
  <1> USE DEF CombinerIInv, lockVars, queueVars
  <1>1. /\ call[t].pc = "link"
        /\ call' = [call EXCEPT ![t] = NoCall]
        /\ UNCHANGED <<lockVars, head, tail, active, offloads, thread, closure, sent>>
    BY DEF PushLink
  <1>2. PICK l \in Locks : l = call[t].lock
    BY <1>1 DEF CallsPush
  <1>3. PICK c \in Closures : c = call[t].closure
    BY <1>1 DEF CallsPush
  <1>4. PICK q \in Orders : Queue(l, q)
    BY DEF QueuesLinked
  <1>5. IsQueue(l, q) /\ StubKnown(l, q) /\ KeepsOrder(l, q)
    BY <1>4 DEF Queue
  <1>6. PICK i \in 1..(Len(q) - 1) : /\ call[t].prev = q[i] /\ c = q[i + 1] /\ next[q[i]] = Null
    BY <1>1, <1>2, <1>3, <1>5 DEF IsQueue
  <1>7. PICK n \in Nodes : n = q[i] /\ n = call[t].prev /\ n \in ToSet(q)
    <2>1. q[i] \in Nodes /\ q[i] \in ToSet(q)
      BY ToSetType DEF Orders
    <2> QED
      BY <2>1, <1>6
  <1>8. /\ next' \in [Nodes -> Nodes \cup {Null}] /\ next'[n] = c
        /\ \A m \in Nodes \ {n} : next'[m] = next[m]
    BY <1>3, <1>7 DEF PushLink, CombinerTypeOK, Nodes
  <1>9. /\ call' \in [AllThreads -> CallRecords] /\ call'[t] = NoCall /\ call'[t].pc = "none"
        /\ \A u \in AllThreads \ {t} : call'[u] = call[u]
    BY <1>1 DEF CombinerTypeOK, CallRecords, NoCall
  <1>10. CombinerTypeOK'
    BY <1>1, <1>8, <1>9 DEF CombinerTypeOK
  <1>11. /\ AtMostOneOwner' /\ OwnedIfCounted' /\ BusyHasCombiner'
         /\ CallsPush' /\ ClosuresPlaced' /\ SentWaits'
         /\ FinalListed' /\ RestListed' /\ FinalsFound' /\ FinalDue'
         /\ StateIsItems' /\ FreedAtZero'
    BY <1>1, <1>9, PushFrame
  <1>12. \A d \in Closures, k \in Locks : (WaitsFor(d, k) /\ Pushed(d))' <=> WaitsFor(d, k) /\ Pushed(d)
    <2>1. \A u \in AllThreads : call'[u].pc \in Pushing <=> call[u].pc \in Pushing
      BY <1>1, <1>9 DEF Pushing
    <2>2. \A u \in AllThreads : call'[u].pc \in Pushing => call'[u] = call[u]
      BY <1>9 DEF Pushing
    <2>3. \A d \in Closures : Pushed(d)' <=> Pushed(d)
      BY <2>1, <2>2 DEF Pushed
    <2> QED
      BY <2>3, <1>1 DEF WaitsFor
  <1>13. \A u \in AllThreads : call'[u].pc = "link" => u # t /\ call'[u] = call[u]
    BY <1>9
  <1>14. Queue(l, q)'
    <2>1. \A u \in AllThreads : call'[u].pc = "link" => call[u].closure # c
      BY <1>1, <1>3, <1>13 DEF CallsPush
    <2>2. LinkMade(l, n, c)
      BY <2>1, <1>1, <1>8, <1>12, <1>13 DEF LinkMade
    <2>3. IsQueue(l, q)' /\ OtherLinksKept(q, i)
      BY <2>2, <1>5, <1>6, <1>7, QueueRelinked
    <2>4. ASSUME NEW u \in AllThreads, HasActive(u, l), thread[u].pc = "stubLink"
          PROVE  \E j \in 1..(Len(q) - 1) : /\ thread[u].prev = q[j] /\ l = q[j + 1]
                                            /\ next'[q[j]] = Null
      <3>1. PICK j \in 1..(Len(q) - 1) : /\ thread[u].prev = q[j] /\ l = q[j + 1]
                                         /\ next[q[j]] = Null
        BY <2>4, <1>5 DEF StubKnown
      <3>2. j # i
        BY <3>1, <1>6, NodesAssumption
      <3> QED
        BY <3>1, <3>2, <2>3 DEF OtherLinksKept
    <2>5. thread' = thread /\ tail' = tail /\ \A u \in AllThreads : HasActive(u, l)' <=> HasActive(u, l)
      BY <1>1, ThreadFrame
    <2>6. StubKnown(l, q)'
      BY <2>4, <2>5, <1>5 DEF StubKnown
    <2>7. KeepsOrder(l, q)'
      BY <1>1, <1>5 DEF KeepsOrder
    <2> QED
      BY <2>3, <2>6, <2>7 DEF Queue
  <1>15. ASSUME NEW k \in Locks \ {l} PROVE \E p \in Orders : Queue(k, p)'
    <2>1. PICK p \in Orders : Queue(k, p)
      BY DEF QueuesLinked
    <2>2. IsQueue(k, p) /\ StubKnown(k, p) /\ KeepsOrder(k, p)
      BY <2>1 DEF Queue
    <2>3. n \notin ToSet(p)
      BY <2>2, <1>5, <1>7, QueuesDisjoint
    <2>4. tail'[k] = tail[k] /\ head'[k] = head[k] /\ \A m \in ToSet(p) : next'[m] = next[m]
      <3>1. ToSet(p) \subseteq Nodes
        BY ToSetType DEF Orders
      <3> QED
        BY <3>1, <2>3, <1>1, <1>8
    <2>5. \A u \in AllThreads : HasActive(u, k)' /\ thread'[u].pc \in Popping
                                 => HasActive(u, k) /\ thread'[u] = thread[u]
      BY <1>1, ThreadFrame
    <2>6. IsQueue(k, p)' /\ StubKnown(k, p)'
      BY <2>2, <2>4, <2>5, <1>12, <1>13, QueueKept
    <2>7. KeepsOrder(k, p)'
      BY <2>2, <1>1 DEF KeepsOrder
    <2> QED
      BY <2>6, <2>7 DEF Queue
  <1>16. QueuesLinked'
    BY <1>14, <1>15 DEF QueuesLinked, Orders
  <1> QED
    BY <1>10, <1>11, <1>16

\* The thread that pops pushes the stub, first half.
LEMMA StubSwapIInv ==
    ASSUME CombinerIInv, NEW t \in AllThreads, StubSwap(t)
    PROVE  CombinerIInv'
  <1> USE DEF CombinerIInv, lockVars, queueVars
  <1>1. /\ active[t] # <<>> /\ thread[t].pc = "stubSwap" /\ thread[t].pc \in Popping
        /\ UNCHANGED <<lockVars, tail, active, offloads, call, closure, sent>>
    BY DEF StubSwap, At, Popping
  <1>2. PICK l \in Locks : l = Mine(t)
    BY <1>1, MineFacts
  <1>3. HasActive(t, l) /\ \A k : HasActive(t, k) => k = l
    BY <1>1, <1>2, MineFacts
  <1>4. /\ next' = [next EXCEPT ![l] = Null] /\ head' = [head EXCEPT ![l] = l]
        /\ thread' = [thread EXCEPT ![t].pc = "stubLink", ![t].prev = head[l]]
    BY <1>2 DEF StubSwap
  <1>5. /\ thread' \in [AllThreads -> ThreadRecords]
        /\ \A u \in AllThreads \ {t} : thread'[u] = thread[u]
        /\ thread'[t].pc = "stubLink" /\ thread'[t].pc \in Popping
        /\ thread'[t].rest = thread[t].rest /\ thread'[t].prev = head[l]
    BY <1>4, ZenonT(60) DEF CombinerTypeOK, ThreadRecords, Popping
  <1>6. CombinerTypeOK'
    <2>1. head' \in [Locks -> Nodes] /\ next' \in [Nodes -> Nodes \cup {Null}]
      BY <1>4 DEF CombinerTypeOK, Nodes
    <2> QED
      BY <2>1, <1>1, <1>5 DEF CombinerTypeOK
  <1>7. /\ AtMostOneOwner' /\ OwnedIfCounted' /\ BusyHasCombiner'
        /\ CallsPush' /\ ClosuresPlaced' /\ SentWaits'
        /\ FinalListed' /\ RestListed' /\ FinalsFound' /\ FinalDue'
        /\ StateIsItems' /\ FreedAtZero'
    BY <1>1, <1>5, PopStepFrame
  <1>8. /\ \A u \in AllThreads, k \in Locks : HasActive(u, k)' <=> HasActive(u, k)
        /\ \A d \in Closures, k \in Locks : (WaitsFor(d, k) /\ Pushed(d))' <=> WaitsFor(d, k) /\ Pushed(d)
    BY <1>1 DEF HasActive, WaitsFor, Pushed
  <1>9. l \notin Closures /\ l \in Nodes
    BY NodesAssumption DEF Nodes
  <1>10. ASSUME NEW k \in Locks \ {l} PROVE \E q \in Orders : Queue(k, q)'
    <2>1. PICK q \in Orders : Queue(k, q)
      BY DEF QueuesLinked
    <2>2. IsQueue(k, q) /\ StubKnown(k, q) /\ KeepsOrder(k, q)
      BY <2>1 DEF Queue
    <2>3. l \notin ToSet(q) /\ ToSet(q) \subseteq Nodes
      BY <2>2, <1>9 DEF IsQueue, Nodes
    <2>4. tail'[k] = tail[k] /\ head'[k] = head[k] /\ \A n \in ToSet(q) : next'[n] = next[n]
      BY <2>3, <1>1, <1>4 DEF CombinerTypeOK
    <2>5. \A u \in AllThreads : HasActive(u, k)' /\ thread'[u].pc \in Popping
                                 => HasActive(u, k) /\ thread'[u] = thread[u]
      BY <1>3, <1>5, <1>8
    <2>6. \A u \in AllThreads : call'[u].pc = "link" /\ call'[u].lock = k => call'[u] = call[u]
      BY <1>1
    <2>7. IsQueue(k, q)' /\ StubKnown(k, q)'
      BY <2>2, <2>4, <2>5, <2>6, <1>8, QueueKept
    <2>8. KeepsOrder(k, q)'
      BY <2>2, <1>1 DEF KeepsOrder
    <2> QED
      BY <2>7, <2>8 DEF Queue
  <1>11. \E q \in Orders : Queue(l, q)'
    <2>1. PICK q \in Orders : Queue(l, q)
      BY DEF QueuesLinked
    <2>2. IsQueue(l, q) /\ StubKnown(l, q) /\ KeepsOrder(l, q)
      BY <2>1 DEF Queue
    <2>3. l \notin ToSet(q) /\ tail[l] # l
      BY <2>2, <1>1, <1>3 DEF StubKnown, Popping
    <2>4. PICK p : p = Append(q, l)
      OBVIOUS
    <2>5. HeadBecomes(l, l)
      BY <1>1, <1>4, <1>8, <1>9 DEF CombinerTypeOK, HeadBecomes
    <2>6. IsQueue(l, p)' /\ Extended(l, q, l, p)
      <3>1. l \in Closures \cup {l}
        OBVIOUS
      <3> HIDE DEF CombinerIInv
      <3> QED
        BY <3>1, <2>2, <2>3, <2>4, <2>5, QueueExtended
    <2>7. /\ p \in Orders /\ Len(q) \in Nat \ {0} /\ Len(p) = Len(q) + 1
          /\ \A i \in 1..Len(q) : p[i] = q[i]
          /\ p[Len(q) + 1] = l /\ q[Len(q)] = head[l] /\ next'[head[l]] = Null
          /\ ToSet(p) = ToSet(q) \cup {l}
          /\ DOMAIN q = 1..Len(q) /\ DOMAIN p = 1..(Len(q) + 1)
      BY <2>6 DEF Extended
    <2>8. \E i \in 1..(Len(p) - 1) : /\ thread'[t].prev = p[i] /\ l = p[i + 1]
                                     /\ next'[p[i]] = Null
      <3>1. Len(q) \in 1..(Len(p) - 1) /\ p[Len(q)] = head[l] /\ p[Len(q) + 1] = l
        BY <2>7
      <3> QED
        BY <3>1, <2>7, <1>5
    <2>9. \A u \in AllThreads : HasActive(u, l)' => u = t
      BY <1>3, <1>8, OneRunner
    <2>10. StubKnown(l, p)'
      BY <2>3, <2>8, <2>9, <1>1, <1>5 DEF StubKnown
    <2>11. ASSUME NEW u \in AllThreads, NEW i \in DOMAIN sent[u], NEW j \in DOMAIN sent[u],
                  i < j, closure[sent[u][i]].lock = l, sent[u][j] \in ToSet(p)
           PROVE  \E a, b \in DOMAIN p : a < b /\ p[a] = sent[u][i] /\ p[b] = sent[u][j]
      <3>1. sent[u][j] \in ToSet(q)
        <4>1. sent[u][j] \in Closures
          BY ToSetType DEF CombinerTypeOK
        <4> QED
          BY <4>1, <2>7, <2>11, <1>9
      <3>2. PICK a \in DOMAIN q, b \in DOMAIN q : a < b /\ q[a] = sent[u][i] /\ q[b] = sent[u][j]
        BY <2>2, <2>11, <3>1 DEF KeepsOrder
      <3>3. a \in DOMAIN p /\ b \in DOMAIN p /\ p[a] = q[a] /\ p[b] = q[b]
        BY <2>7
      <3> QED
        BY <3>2, <3>3
    <2>12. KeepsOrder(l, p)'
      BY <2>11, <1>1 DEF KeepsOrder
    <2> QED
      BY <2>6, <2>7, <2>10, <2>12 DEF Queue
  <1>12. QueuesLinked'
    BY <1>10, <1>11 DEF QueuesLinked, Orders
  <1> QED
    BY <1>6, <1>7, <1>12

\* The thread that pops pushes the stub, second half.
LEMMA StubLinkIInv ==
    ASSUME CombinerIInv, NEW t \in AllThreads, StubLink(t)
    PROVE  CombinerIInv'
  <1> USE DEF CombinerIInv, lockVars, queueVars
  <1>1. /\ active[t] # <<>> /\ thread[t].pc = "stubLink" /\ thread[t].pc \in Popping
        /\ thread' = [thread EXCEPT ![t].pc = "popLast"]
        /\ UNCHANGED <<lockVars, head, tail, active, offloads, call, closure, sent>>
    BY DEF StubLink, At, Popping
  <1>2. PICK l \in Locks : l = Mine(t)
    BY <1>1, MineFacts
  <1>3. HasActive(t, l) /\ \A k : HasActive(t, k) => k = l
    BY <1>1, <1>2, MineFacts
  <1>4. PICK q \in Orders : Queue(l, q)
    BY DEF QueuesLinked
  <1>5. IsQueue(l, q) /\ StubKnown(l, q) /\ KeepsOrder(l, q)
    BY <1>4 DEF Queue
  <1>6. PICK i \in 1..(Len(q) - 1) : /\ thread[t].prev = q[i] /\ l = q[i + 1] /\ next[q[i]] = Null
    BY <1>1, <1>3, <1>5 DEF StubKnown
  <1>7. PICK n \in Nodes : n = q[i] /\ n = thread[t].prev /\ n \in ToSet(q)
    <2>1. q[i] \in Nodes /\ q[i] \in ToSet(q)
      BY ToSetType DEF Orders
    <2> QED
      BY <2>1, <1>6
  <1>8. /\ next' \in [Nodes -> Nodes \cup {Null}] /\ next'[n] = l
        /\ \A m \in Nodes \ {n} : next'[m] = next[m]
    BY <1>2, <1>7 DEF StubLink, CombinerTypeOK, Nodes
  <1>9. /\ thread' \in [AllThreads -> ThreadRecords]
        /\ \A u \in AllThreads \ {t} : thread'[u] = thread[u]
        /\ thread'[t].pc = "popLast" /\ thread'[t].pc \in Popping
        /\ thread'[t].rest = thread[t].rest
    BY <1>1 DEF CombinerTypeOK, ThreadRecords, Popping
  <1>10. CombinerTypeOK'
    BY <1>1, <1>8, <1>9 DEF CombinerTypeOK
  <1>11. /\ AtMostOneOwner' /\ OwnedIfCounted' /\ BusyHasCombiner'
         /\ CallsPush' /\ ClosuresPlaced' /\ SentWaits'
         /\ FinalListed' /\ RestListed' /\ FinalsFound' /\ FinalDue'
         /\ StateIsItems' /\ FreedAtZero'
    BY <1>1, <1>9, PopStepFrame
  <1>12. /\ \A u \in AllThreads, k \in Locks : HasActive(u, k)' <=> HasActive(u, k)
         /\ \A d \in Closures, k \in Locks : (WaitsFor(d, k) /\ Pushed(d))' <=> WaitsFor(d, k) /\ Pushed(d)
    BY <1>1 DEF HasActive, WaitsFor, Pushed
  <1>13. Queue(l, q)'
    <2>1. \A u \in AllThreads : call'[u].pc = "link" => call'[u] = call[u] /\ call[u].closure # l
      BY <1>1, NodesAssumption DEF CallsPush
    <2>2. LinkMade(l, n, l)
      BY <2>1, <1>1, <1>8, <1>12 DEF LinkMade
    <2>3. IsQueue(l, q)'
      BY <2>2, <1>5, <1>6, <1>7, QueueRelinked
    <2>4. tail'[l] # l
      BY <1>1, <1>3, <1>5 DEF StubKnown, Popping
    <2>5. \A u \in AllThreads : HasActive(u, l)' => u = t
      BY <1>3, <1>12, OneRunner
    <2>6. StubKnown(l, q)'
      BY <2>4, <2>5, <1>9 DEF StubKnown
    <2>7. KeepsOrder(l, q)'
      BY <1>1, <1>5 DEF KeepsOrder
    <2> QED
      BY <2>3, <2>6, <2>7 DEF Queue
  <1>14. ASSUME NEW k \in Locks \ {l} PROVE \E p \in Orders : Queue(k, p)'
    <2>1. PICK p \in Orders : Queue(k, p)
      BY DEF QueuesLinked
    <2>2. IsQueue(k, p) /\ StubKnown(k, p) /\ KeepsOrder(k, p)
      BY <2>1 DEF Queue
    <2>3. n \notin ToSet(p)
      BY <2>2, <1>5, <1>7, QueuesDisjoint
    <2>4. tail'[k] = tail[k] /\ head'[k] = head[k] /\ \A m \in ToSet(p) : next'[m] = next[m]
      <3>1. ToSet(p) \subseteq Nodes
        BY ToSetType DEF Orders
      <3> QED
        BY <3>1, <2>3, <1>1, <1>8
    <2>5. \A u \in AllThreads : HasActive(u, k)' /\ thread'[u].pc \in Popping
                                 => HasActive(u, k) /\ thread'[u] = thread[u]
      BY <1>3, <1>9, <1>12
    <2>6. \A u \in AllThreads : call'[u].pc = "link" /\ call'[u].lock = k => call'[u] = call[u]
      BY <1>1
    <2>7. IsQueue(k, p)' /\ StubKnown(k, p)'
      BY <2>2, <2>4, <2>5, <2>6, <1>12, QueueKept
    <2>8. KeepsOrder(k, p)'
      BY <2>2, <1>1 DEF KeepsOrder
    <2> QED
      BY <2>7, <2>8 DEF Queue
  <1>15. QueuesLinked'
    BY <1>13, <1>14 DEF QueuesLinked, Orders
  <1> QED
    BY <1>10, <1>11, <1>15

\* What popping the first node does to the queue.
TailMoves(l) ==
    /\ tail'[l] = next[tail[l]] /\ head'[l] = head[l] /\ next' = next
    /\ \A c \in Closures : (WaitsFor(c, l) /\ Pushed(c))' <=> WaitsFor(c, l) /\ Pushed(c) /\ c # tail[l]
    /\ \A u \in AllThreads : call'[u].pc = "link" /\ call'[u].lock = l => call'[u] = call[u]

\* p is q without its first node.
Shortened(l, q, p) ==
    /\ p \in Orders /\ Len(q) \in Nat /\ Len(p) = Len(q) - 1 /\ q[1] = tail[l]
    /\ \A i \in 1..(Len(q) - 1) : p[i] = q[i + 1]
    /\ ToSet(p) = ToSet(q) \ {tail[l]}
    /\ DOMAIN q = 1..Len(q) /\ DOMAIN p = 1..(Len(q) - 1)

\* The first node is popped: the queue is its tail.
LEMMA QueueShortened ==
    ASSUME NEW l \in Locks, NEW q \in Orders, NEW p, p = Tail(q), IsQueue(l, q),
           next[tail[l]] # Null, TailMoves(l)
    PROVE  IsQueue(l, p)' /\ Shortened(l, q, p)
  <1> USE DEF TailMoves
  <1>1. q \in Seq(Nodes) /\ q # <<>> /\ IsInjective(q)
    BY DEF Orders, IsQueue
  <1>2. /\ p \in Seq(Nodes) /\ Len(q) \in Nat \ {0} /\ Len(p) = Len(q) - 1
        /\ (\A i \in 1..(Len(q) - 1) : p[i] = q[i + 1])
        /\ Head(q) = q[1] /\ ToSet(q) = {Head(q)} \cup ToSet(p)
        /\ IsInjective(p) /\ Head(q) \notin ToSet(p)
    BY <1>1, TailFacts
  <1>3. /\ q[1] = tail[l] /\ q[Len(q)] = head[l] /\ next[q[Len(q)]] = Null
        /\ \A i \in 1..(Len(q) - 1) : next[q[i]] \in {q[i + 1], Null}
    BY DEF IsQueue
  <1>4. PICK k \in Nat \ {0} : k = Len(q)
    BY <1>2
  <1>5. k # 1
    BY <1>3, <1>4
  <1>6. 1 \in 1..(k - 1) /\ k - 1 \in 1..(k - 1) /\ (k - 1) + 1 = k /\ 1 + 1 = 2
    BY <1>5
  <1>7. next[q[1]] = q[2] /\ p[1] = q[2] /\ p[k - 1] = q[k] /\ Len(p) = k - 1
    <2>1. next[q[1]] = q[1 + 1]
      BY <1>3, <1>4, <1>6
    <2>2. p[1] = q[1 + 1] /\ p[k - 1] = q[(k - 1) + 1]
      BY <1>2, <1>4, <1>6
    <2> QED
      BY <2>1, <2>2, <1>2, <1>4, <1>6
  <1>8. p[1] = tail'[l] /\ p[Len(p)] = head'[l] /\ next'[p[Len(p)]] = Null /\ p # <<>>
    <2>1. p # <<>>
      <3>1. Len(p) # 0
        BY <1>5, <1>7
      <3> QED
        BY <3>1, <1>2, ToSetType
    <2> QED
      BY <2>1, <1>3, <1>4, <1>7
  <1>9. ASSUME NEW i \in 1..(Len(p) - 1) PROVE next'[p[i]] \in {p[i + 1], Null}
    <2>a. i \in 1..((k - 1) - 1)
      BY <1>7
    <2>1. i \in 1..(k - 1) /\ i + 1 \in 1..(k - 1)
      BY <2>a
    <2>2. p[i] = q[i + 1] /\ p[i + 1] = q[(i + 1) + 1]
      BY <2>1, <1>2, <1>4
    <2> QED
      BY <2>1, <2>2, <1>3, <1>4
  <1>10. ASSUME NEW u \in AllThreads, call'[u].pc = "link", call'[u].lock = l
         PROVE  \E i \in 1..(Len(p) - 1) : /\ call'[u].prev = p[i] /\ call'[u].closure = p[i + 1]
                                           /\ next'[p[i]] = Null
    <2>1. PICK i \in 1..(k - 1) : /\ call[u].prev = q[i] /\ call[u].closure = q[i + 1]
                                  /\ next[q[i]] = Null
      BY <1>4, <1>10 DEF IsQueue
    <2>2. i # 1
      BY <2>1, <1>3
    <2>3. PICK j \in 1..(k - 2) : j = i - 1
      BY <2>2
    <2>4. j \in 1..(k - 1) /\ j + 1 \in 1..(k - 1) /\ j + 1 = i /\ j \in 1..((k - 1) - 1)
      BY <2>3
    <2>5. p[j] = q[j + 1] /\ p[j + 1] = q[(j + 1) + 1]
      BY <2>4, <1>2, <1>4
    <2>6. p[j] = q[i] /\ p[j + 1] = q[i + 1] /\ j \in 1..(Len(p) - 1)
      BY <2>4, <2>5, <1>7
    <2> QED
      BY <2>1, <2>6, <1>10
  <1>11. ToSet(p) = ToSet(q) \ {tail[l]}
    BY <1>2, <1>3
  <1>12. /\ ToSet(p) \subseteq Closures \cup {l}
         /\ \A c \in Closures : c \in ToSet(p) <=> (WaitsFor(c, l) /\ Pushed(c))'
    BY <1>11 DEF IsQueue
  <1>13. IsQueue(l, p)'
    BY <1>2, <1>8, <1>9, <1>10, <1>12 DEF IsQueue
  <1>14. DOMAIN q = 1..Len(q) /\ DOMAIN p = 1..(Len(q) - 1)
    BY <1>1, <1>2, LenProperties
  <1> QED
    BY <1>2, <1>3, <1>11, <1>13, <1>14 DEF Shortened, Orders

\* s has the order of r.
OrderOf(r, s) ==
    \A i, j \in DOMAIN s : i < j =>
        \E a, b \in DOMAIN r : a < b /\ r[a] = s[i] /\ r[b] = s[j]

\* What is still to begin keeps its order when the first node leaves the queue.
LEMMA OrderShortened ==
    ASSUME NEW l \in Locks, NEW q, NEW p, KeepsOrder(l, q), Shortened(l, q, p),
           \A u \in AllThreads : OrderOf(sent[u], sent'[u]),
           \A u \in AllThreads : \A i \in DOMAIN sent'[u] :
                /\ sent'[u][i] # tail[l]
                /\ closure'[sent'[u][i]].lock = closure[sent'[u][i]].lock
    PROVE  KeepsOrder(l, p)'
  <1> SUFFICES ASSUME NEW u \in AllThreads, NEW i \in DOMAIN sent'[u], NEW j \in DOMAIN sent'[u],
                      i < j, closure'[sent'[u][i]].lock = l, sent'[u][j] \in ToSet(p)
               PROVE  \E a, b \in DOMAIN p : a < b /\ p[a] = sent'[u][i] /\ p[b] = sent'[u][j]
    BY DEF KeepsOrder
  <1>1. PICK c, d \in DOMAIN sent[u] : c < d /\ sent[u][c] = sent'[u][i] /\ sent[u][d] = sent'[u][j]
    BY DEF OrderOf
  <1>2. closure[sent[u][c]].lock = l /\ sent[u][d] \in ToSet(q)
    BY <1>1 DEF Shortened
  <1>3. PICK a \in DOMAIN q, b \in DOMAIN q : a < b /\ q[a] = sent[u][c] /\ q[b] = sent[u][d]
    BY <1>1, <1>2 DEF KeepsOrder
  <1>4. a # 1
    BY <1>1, <1>3 DEF Shortened
  <1>5. PICK k \in Nat : k = Len(q)
    BY DEF Shortened
  <1>6. a \in 2..k /\ b \in 2..k /\ DOMAIN p = 1..(k - 1)
    BY <1>3, <1>4, <1>5 DEF Shortened
  <1>7. PICK x, y \in 1..(k - 1) : x = a - 1 /\ y = b - 1
    BY <1>6
  <1>8. x < y /\ x + 1 = a /\ y + 1 = b
    BY <1>3, <1>6, <1>7
  <1>9. p[x] = q[x + 1] /\ p[y] = q[y + 1]
    BY <1>5, <1>7 DEF Shortened
  <1> QED
    BY <1>1, <1>3, <1>6, <1>7, <1>8, <1>9

\* A queue that is not the one popped from.
LEMMA OrderKept ==
    ASSUME NEW l \in Locks, NEW q, KeepsOrder(l, q),
           \A u \in AllThreads : OrderOf(sent[u], sent'[u]),
           \A u \in AllThreads : \A i \in DOMAIN sent'[u] :
                closure'[sent'[u][i]].lock = closure[sent'[u][i]].lock
    PROVE  KeepsOrder(l, q)'
  <1> SUFFICES ASSUME NEW u \in AllThreads, NEW i \in DOMAIN sent'[u], NEW j \in DOMAIN sent'[u],
                      i < j, closure'[sent'[u][i]].lock = l, sent'[u][j] \in ToSet(q)
               PROVE  \E a, b \in DOMAIN q : a < b /\ q[a] = sent'[u][i] /\ q[b] = sent'[u][j]
    BY DEF KeepsOrder
  <1>1. PICK c, d \in DOMAIN sent[u] : c < d /\ sent[u][c] = sent'[u][i] /\ sent[u][d] = sent'[u][j]
    BY DEF OrderOf
  <1> QED
    BY <1>1 DEF KeepsOrder

\* gpr_mpscq_pop leaves the stub behind.
LEMMA PopStubIInv ==
    ASSUME CombinerIInv, NEW t \in AllThreads, PopStub(t)
    PROVE  CombinerIInv'
  <1> USE DEF CombinerIInv, lockVars, queueVars
  <1>1. /\ active[t] # <<>> /\ thread[t].pc = "pop" /\ thread[t].pc \in Popping
        /\ UNCHANGED <<lockVars, head, next, active, offloads, thread, call, closure, sent>>
    BY DEF PopStub, At, Popping
  <1>2. PICK l \in Locks : l = Mine(t)
    BY <1>1, MineFacts
  <1>3. HasActive(t, l) /\ \A k : HasActive(t, k) => k = l
    BY <1>1, <1>2, MineFacts
  <1>4. tail[l] = l /\ next[l] # Null /\ tail' = [tail EXCEPT ![l] = next[l]]
    BY <1>2 DEF PopStub
  <1>5. CombinerTypeOK'
    <2>1. tail' \in [Locks -> Nodes]
      BY <1>4 DEF CombinerTypeOK, Nodes
    <2> QED
      BY <2>1, <1>1 DEF CombinerTypeOK
  <1>6. /\ AtMostOneOwner' /\ OwnedIfCounted' /\ BusyHasCombiner'
        /\ CallsPush' /\ ClosuresPlaced' /\ SentWaits'
        /\ FinalListed' /\ RestListed' /\ FinalsFound' /\ FinalDue'
        /\ StateIsItems' /\ FreedAtZero'
    <2>1. /\ thread'[t].pc \in Popping /\ thread'[t].rest = thread[t].rest
          /\ \A u \in AllThreads \ {t} : thread'[u] = thread[u]
      BY <1>1
    <2> QED
      BY <2>1, <1>1, PopStepFrame
  <1>7. /\ \A u \in AllThreads, k \in Locks : HasActive(u, k)' <=> HasActive(u, k)
        /\ \A d \in Closures, k \in Locks : (WaitsFor(d, k) /\ Pushed(d))' <=> WaitsFor(d, k) /\ Pushed(d)
    BY <1>1 DEF HasActive, WaitsFor, Pushed
  <1>8. l \notin Closures
    BY NodesAssumption
  <1>9. \A u \in AllThreads : call'[u] = call[u] /\ thread'[u] = thread[u]
    BY <1>1
  <1>10. ASSUME NEW k \in Locks \ {l} PROVE \E q \in Orders : Queue(k, q)'
    <2>1. PICK q \in Orders : Queue(k, q)
      BY DEF QueuesLinked
    <2>2. IsQueue(k, q) /\ StubKnown(k, q) /\ KeepsOrder(k, q)
      BY <2>1 DEF Queue
    <2>3. tail'[k] = tail[k] /\ head'[k] = head[k] /\ \A n \in ToSet(q) : next'[n] = next[n]
      BY <1>1, <1>4 DEF CombinerTypeOK
    <2>4. IsQueue(k, q)' /\ StubKnown(k, q)'
      BY <2>2, <2>3, <1>7, <1>9, QueueKept
    <2>5. KeepsOrder(k, q)'
      BY <2>2, <1>1 DEF KeepsOrder
    <2> QED
      BY <2>4, <2>5 DEF Queue
  <1>11. \E q \in Orders : Queue(l, q)'
    <2>1. PICK q \in Orders : Queue(l, q)
      BY DEF QueuesLinked
    <2>2. IsQueue(l, q) /\ StubKnown(l, q) /\ KeepsOrder(l, q)
      BY <2>1 DEF Queue
    <2>3. PICK p : p = Tail(q)
      OBVIOUS
    <2>4. TailMoves(l) /\ next[tail[l]] # Null
      BY <1>1, <1>4, <1>7, <1>8 DEF TailMoves, CombinerTypeOK
    <2>5. IsQueue(l, p)' /\ Shortened(l, q, p)
      BY <2>2, <2>3, <2>4, QueueShortened
    <2>6. \A u \in AllThreads : OrderOf(sent[u], sent'[u])
      BY <1>1 DEF OrderOf
    <2>7. \A u \in AllThreads : \A i \in DOMAIN sent'[u] :
                /\ sent'[u][i] # tail[l]
                /\ closure'[sent'[u][i]].lock = closure[sent'[u][i]].lock
      BY <1>1, <1>4, <1>8, ToSetType DEF CombinerTypeOK
    <2>8. KeepsOrder(l, p)'
      BY <2>2, <2>5, <2>6, <2>7, OrderShortened
    <2>9. \A u \in AllThreads : HasActive(u, l)' => u = t
      BY <1>3, <1>7, OneRunner
    <2>10. StubKnown(l, p)'
      BY <2>9, <1>1 DEF StubKnown
    <2> QED
      BY <2>5, <2>8, <2>10 DEF Queue, Shortened
  <1>12. QueuesLinked'
    BY <1>10, <1>11 DEF QueuesLinked, Orders
  <1> QED
    BY <1>5, <1>6, <1>12

\* gpr_mpscq_pop returns the first closure, and it is run.
LEMMA PopNextIInv ==
    ASSUME CombinerIInv, NEW t \in AllThreads, PopNext(t)
    PROVE  CombinerIInv'
  <1> USE DEF CombinerIInv, lockVars, queueVars
  <1>1. /\ active[t] # <<>> /\ thread[t].pc \in {"pop", "popLast"} /\ thread[t].pc \in Popping
        /\ thread[t].pc \notin Executing
        /\ UNCHANGED <<refs, initiator, finalNow, destroyed, head, next, active, offloads, call>>
    BY DEF PopNext, At, Popping, Executing
  <1>2. PICK l \in Locks : l = Mine(t)
    BY <1>1, MineFacts
  <1>3. HasActive(t, l) /\ Lists(t, l) /\ \A k : HasActive(t, k) => k = l
    BY <1>1, <1>2, MineFacts
  <1>4. PICK q \in Orders : Queue(l, q)
    BY DEF QueuesLinked
  <1>5. IsQueue(l, q) /\ StubKnown(l, q) /\ KeepsOrder(l, q)
    BY <1>4 DEF Queue
  <1>6. /\ tail[l] # l /\ next[tail[l]] # Null /\ Run(t, tail[l])
        /\ tail' = [tail EXCEPT ![l] = next[tail[l]]]
    BY <1>2 DEF PopNext
  <1>7. PICK n \in Nat \ {0} : n = Len(q) /\ DOMAIN q = 1..n
    BY <1>5, ToSetType DEF IsQueue, Orders
  <1>8. PICK c \in Closures : c = tail[l] /\ c = q[1] /\ c \in ToSet(q)
    <2>1. q[1] = tail[l] /\ q[1] \in ToSet(q)
      BY <1>5, <1>7 DEF IsQueue, ToSet
    <2>2. tail[l] \in Closures
      BY <2>1, <1>5, <1>6 DEF IsQueue
    <2> QED
      BY <2>1, <2>2
  <1>9. /\ WaitsFor(c, l) /\ Pushed(c) /\ closure[c].lock = l
        /\ closure[c].status \in {"queued", "wrapped"}
    BY <1>5, <1>8 DEF IsQueue, WaitsFor
  <1>10. PICK wrapped \in BOOLEAN : wrapped <=> closure[c].status = "wrapped"
    OBVIOUS
  <1>11. /\ thread' \in [AllThreads -> ThreadRecords]
         /\ thread'[t].pc \in Executing /\ thread'[t].pc # "top" /\ thread'[t].rest = <<>>
         /\ \A u \in AllThreads \ {t} : thread'[u] = thread[u]
    <2>1. CASE wrapped
      <3>1. thread' = [thread EXCEPT ![t] = [AtTop EXCEPT !.pc = "finish"]]
        BY <2>1, <1>6, <1>8, <1>10 DEF Run
      <3>2. PICK r : r = [AtTop EXCEPT !.pc = "finish"]
        OBVIOUS
      <3>a. r = [pc |-> "finish", cb |-> Null, rest |-> <<>>, prev |-> Null]
        BY <3>2 DEF AtTop
      <3>b. <<>> \in Seq(Closures) /\ "finish" \in {"top"} \cup Popping \cup Executing
        BY DEF Executing
      <3>3. r \in ThreadRecords /\ r.pc = "finish" /\ r.rest = <<>>
        BY <3>a, <3>b DEF ThreadRecords
      <3> QED
        BY <3>1, <3>2, <3>3 DEF CombinerTypeOK, Executing
    <2>2. CASE ~wrapped
      <3>1. thread' = [thread EXCEPT ![t] = [AtTop EXCEPT !.pc = "running", !.cb = c]]
        BY <2>2, <1>6, <1>8, <1>10 DEF Run
      <3>2. PICK r : r = [AtTop EXCEPT !.pc = "running", !.cb = c]
        OBVIOUS
      <3>a. r = [pc |-> "running", cb |-> c, rest |-> <<>>, prev |-> Null]
        BY <3>2 DEF AtTop
      <3>b. <<>> \in Seq(Closures) /\ "running" \in {"top"} \cup Popping \cup Executing
        BY DEF Executing
      <3>3. r \in ThreadRecords /\ r.pc = "running" /\ r.rest = <<>>
        BY <3>a, <3>b DEF ThreadRecords
      <3> QED
        BY <3>1, <3>2, <3>3 DEF CombinerTypeOK, Executing
    <2> QED
      BY <2>1, <2>2
  <1>12. /\ closure' \in [Closures -> ClosureRecords]
         /\ \A d \in Closures \ {c} : closure'[d] = closure[d]
         /\ IF wrapped THEN closure'[c].status = "final" /\ closure'[c].lock = l
                       ELSE closure'[c].status = "idle" /\ closure'[c].lock = Null
    <2>1. CASE wrapped
      <3>1. closure' = [closure EXCEPT ![c].status = "final"]
        BY <2>1, <1>6, <1>8, <1>10 DEF Run
      <3> QED
        BY <2>1, <3>1, <1>9 DEF CombinerTypeOK, ClosureRecords
    <2>2. CASE ~wrapped
      <3>1. closure' = [closure EXCEPT ![c] = IdleClosure(@.times)]
        BY <2>2, <1>6, <1>8, <1>9, <1>10 DEF Run, Idled
      <3> QED
        BY <2>2, <3>1 DEF CombinerTypeOK, ClosureRecords, IdleClosure
    <2> QED
      BY <2>1, <2>2
  <1>13. \A d \in Closures, k \in Locks :
            /\ WaitsFor(d, k)' <=> WaitsFor(d, k) /\ d # c
            /\ FinalOn(d, k)' <=> FinalOn(d, k) \/ (wrapped /\ d = c /\ k = l)
            /\ ~FinalOn(c, k)
            /\ k # l => ~WaitsFor(c, k)
    BY <1>9, <1>12, NullAssumption DEF WaitsFor, FinalOn, Nodes
  <1>14. /\ finalList[l] \in Seq(Closures) /\ IsInjective(finalList[l]) /\ c \notin ToSet(finalList[l])
    BY <1>13 DEF CombinerTypeOK, FinalListed
  <1>15. /\ finalList' \in [Locks -> Seq(Closures)]
         /\ \A k \in Locks \ {l} : finalList'[k] = finalList[k]
         /\ IsInjective(finalList'[l])
         /\ ToSet(finalList'[l]) = IF wrapped THEN ToSet(finalList[l]) \cup {c} ELSE ToSet(finalList[l])
         /\ finalList'[l] = <<>> <=> finalList[l] = <<>> /\ ~wrapped
    <2>1. CASE wrapped
      <3>1. finalList' = [finalList EXCEPT ![l] = Append(@, c)]
        BY <2>1, <1>2, <1>6, <1>8, <1>10 DEF Run, FinalAppend
      <3>2. /\ Append(finalList[l], c) \in Seq(Closures) /\ Append(finalList[l], c) # <<>>
            /\ IsInjective(Append(finalList[l], c))
            /\ ToSet(Append(finalList[l], c)) = ToSet(finalList[l]) \cup {c}
        BY <1>14, AppendFacts
      <3> QED
        BY <2>1, <3>1, <3>2 DEF CombinerTypeOK
    <2>2. CASE ~wrapped
      <3>1. finalList' = finalList
        BY <2>2, <1>6, <1>8, <1>9, <1>10 DEF Run
      <3> QED
        BY <2>2, <3>1, <1>14 DEF CombinerTypeOK
    <2> QED
      BY <2>1, <2>2
  <1>16. /\ state' \in [Locks -> Nat]
         /\ state'[l] = IF wrapped /\ finalList[l] = <<>> THEN state[l] + 2 ELSE state[l]
         /\ \A k \in Locks \ {l} : state'[k] = state[k]
    <2>1. CASE wrapped
      <3>1. state' = [state EXCEPT ![l] = IF finalList[l] = <<>> THEN @ + 2 ELSE @]
        BY <2>1, <1>2, <1>6, <1>8, <1>10 DEF Run, FinalAppend
      <3> QED
        BY <2>1, <3>1 DEF CombinerTypeOK
    <2>2. CASE ~wrapped
      <3>1. state' = state
        BY <2>2, <1>6, <1>8, <1>9, <1>10 DEF Run
      <3> QED
        BY <2>2, <3>1 DEF CombinerTypeOK
    <2> QED
      BY <2>1, <2>2
  <1>17. /\ sent' \in [AllThreads -> Seq(Closures)]
         /\ \A u \in AllThreads : /\ sent[u] \in Seq(Closures) /\ IsInjective(sent[u])
                                  /\ sent'[u] = RemoveFirst(sent[u], c)
    <2>1. sent' = [s \in AllThreads |-> RemoveFirst(sent[s], c)]
      BY <1>6, <1>8 DEF Run
    <2>2. \A u \in AllThreads : sent[u] \in Seq(Closures) /\ IsInjective(sent[u])
      BY DEF CombinerTypeOK, SentWaits
    <2>3. \A u \in AllThreads : RemoveFirst(sent[u], c) \in Seq(Closures)
      BY <2>2, RemoveFirstFacts
    <2> QED
      BY <2>1, <2>2, <2>3
  <1>18. \A u \in AllThreads :
            /\ IsInjective(sent'[u]) /\ ToSet(sent'[u]) = ToSet(sent[u]) \ {c}
            /\ OrderOf(sent[u], sent'[u])
            /\ sent[u] # <<>> /\ sent[u][Len(sent[u])] # c =>
                sent'[u] # <<>> /\ sent'[u][Len(sent'[u])] = sent[u][Len(sent[u])]
    <2> SUFFICES ASSUME NEW u \in AllThreads
                 PROVE  /\ IsInjective(sent'[u]) /\ ToSet(sent'[u]) = ToSet(sent[u]) \ {c}
                        /\ OrderOf(sent[u], sent'[u])
                        /\ sent[u] # <<>> /\ sent[u][Len(sent[u])] # c =>
                            sent'[u] # <<>> /\ sent'[u][Len(sent'[u])] = sent[u][Len(sent[u])]
      OBVIOUS
    <2>1. PICK r, s : r = sent[u] /\ s = RemoveFirst(r, c) /\ s = sent'[u]
      BY <1>17
    <2>2. /\ IsInjective(s) /\ ToSet(s) = ToSet(r) \ {c} /\ OrderOf(r, s)
          /\ r # <<>> /\ r[Len(r)] # c => s # <<>> /\ s[Len(s)] = r[Len(r)]
      BY <2>1, <1>17, RemoveFirstFacts DEF OrderOf
    <2> QED
      BY <2>1, <2>2
  <1>19. CombinerTypeOK'
    <2>1. tail' \in [Locks -> Nodes]
      BY <1>6 DEF CombinerTypeOK, Nodes
    <2> QED
      BY <2>1, <1>1, <1>11, <1>12, <1>15, <1>16, <1>17 DEF CombinerTypeOK
  <1>20. /\ \A u \in AllThreads, k \in Locks : /\ Lists(u, k)' <=> Lists(u, k)
                                               /\ Takes(u, k)' <=> Takes(u, k)
                                               /\ Orphans(u, k)' <=> Orphans(u, k)
                                               /\ HasActive(u, k)' <=> HasActive(u, k)
         /\ \A k \in Locks : Handed(k)' <=> Handed(k)
         /\ \A u \in AllThreads : Mine(u)' = Mine(u)
    BY <1>1 DEF Lists, Takes, Orphans, HasActive, Handed, Mine
  <1>21. /\ \A k \in Locks : Items(k) \in Nat /\ Count(k) = Items(k) /\ state[k] \in Nat
         /\ state[l] = 2 * Items(l) + (IF Held(l) THEN 1 ELSE 0)
    BY ItemsFacts
  <1>22. Count(l) > 0 /\ Items(l) > 0
    BY <1>3, <1>21 DEF OwnedIfCounted
  <1>23. AtMostOneOwner' /\ BusyHasCombiner'
    <2>1. AtMostOneOwner'
      BY <1>1, <1>20 DEF AtMostOneOwner
    <2>2. BusyHasCombiner'
      BY <1>1, <1>11 DEF BusyHasCombiner
    <2> QED
      BY <2>1, <2>2
  <1>24. OwnedIfCounted'
    <2>1. state'[l] >= 2 /\ state'[l] \in Nat
      BY <1>16, <1>21, <1>22
    <2>2. state'[l] \div 2 > 0
      BY <2>1
    <2>3. (\A k \in Locks \ {l} : Count(k)' = Count(k)) /\ Count(l)' > 0
      BY <2>2, <1>16 DEF Count
    <2> QED
      BY <2>3, <1>3, <1>20 DEF OwnedIfCounted
  <1>25. \A u \in AllThreads : call[u].pc \in Pushing \cup {"link"} => call[u].closure # c
    <2> SUFFICES ASSUME NEW u \in AllThreads, call[u].pc \in Pushing \cup {"link"},
                        call[u].closure = c
                 PROVE  FALSE
      OBVIOUS
    <2>1. call[u].pc = "link" /\ call[u].lock = l
      BY <1>9 DEF Pushed, CallsPush, WaitsFor
    <2>2. PICK i \in 1..(n - 1) : q[i + 1] = c
      BY <2>1, <1>5, <1>7 DEF IsQueue
    <2>3. i + 1 \in 1..n /\ 1 \in 1..n /\ i + 1 # 1
      OBVIOUS
    <2> QED
      BY <2>2, <2>3, <1>5, <1>7, <1>8 DEF IsQueue, IsInjective
  <1>26. CallsPush' /\ ClosuresPlaced'
    <2>1. \A u \in AllThreads : call[u].pc \in Pushing \cup {"link"} =>
            WaitsFor(call[u].closure, call[u].lock)'
      BY <1>1, <1>12, <1>25 DEF CallsPush, WaitsFor
    <2>2. CallsPush'
      BY <2>1, <1>1 DEF CallsPush
    <2>3. ClosuresPlaced'
      BY <1>12 DEF ClosuresPlaced
    <2> QED
      BY <2>2, <2>3
  <1>27. SentWaits'
    <2>1. \A u \in AllThreads : \A d \in ToSet(sent'[u]) : d \in Closures /\ d # c /\ d \in ToSet(sent[u])
      BY <1>18, ListTypes
    <2>2. \A u \in AllThreads : \A d \in ToSet(sent'[u]) : closure'[d].status \in {"queued", "wrapped"}
      BY <2>1, <1>12 DEF SentWaits
    <2>3. \A u \in AllThreads : call'[u].pc \in Pushing =>
            sent'[u] # <<>> /\ sent'[u][Len(sent'[u])] = call'[u].closure
      BY <1>1, <1>18, <1>25 DEF SentWaits
    <2> QED
      BY <2>1, <2>2, <2>3, <1>18 DEF SentWaits
  <1>28. \A u \in AllThreads : c \notin ToSet(thread[u].rest)
    BY <1>9 DEF RestListed, FinalOn
  <1>29. FinalListed'
    <2>1. ASSUME NEW k \in Locks, NEW d \in ToSet(finalList'[k]) PROVE FinalOn(d, k)'
      <3>1. d \in Closures
        BY <1>15, ToSetType
      <3>2. d \in ToSet(finalList[k]) \/ (wrapped /\ k = l /\ d = c)
        BY <1>15
      <3> QED
        BY <3>1, <3>2, <1>13 DEF FinalListed
    <2> QED
      BY <2>1, <1>15 DEF FinalListed
  <1>30. ToSet(thread'[t].rest) = {} /\ ToSet(thread[t].rest) = {} /\ IsInjective(thread'[t].rest)
    <2>1. thread[t].rest = <<>>
      BY <1>1 DEF RestListed
    <2> QED
      BY <2>1, <1>11 DEF ToSet, IsInjective
  <1>31. RestListed'
    <2>1. ASSUME NEW u \in AllThreads \ {t}, NEW d \in ToSet(thread[u].rest)
          PROVE  FinalOn(d, Mine(u))'
      <3>1. d \in Closures \ {c} /\ FinalOn(d, Mine(u))
        BY <1>28, ListTypes DEF RestListed
      <3> QED
        BY <3>1, <1>12, <1>20 DEF FinalOn
    <2> QED
      BY <2>1, <1>11, <1>30 DEF RestListed
  <1>32. FinalsFound'
    <2>1. \A k \in Locks, u \in AllThreads : ToSet(finalList'[k]) \cap ToSet(thread'[u].rest) = {}
      <3> SUFFICES ASSUME NEW k \in Locks, NEW u \in AllThreads, NEW d \in ToSet(finalList'[k]),
                          d \in ToSet(thread'[u].rest)
                   PROVE  FALSE
        OBVIOUS
      <3>1. u # t /\ d \in ToSet(thread[u].rest)
        BY <1>11, <1>30
      <3>2. d \in ToSet(finalList[k])
        BY <3>1, <1>15, <1>28
      <3> QED
        BY <3>1, <3>2 DEF FinalsFound
    <2>2. ASSUME NEW d \in Closures, NEW k \in Locks, FinalOn(d, k)'
          PROVE  \/ d \in ToSet(finalList'[k])
                 \/ \E u \in AllThreads : HasActive(u, k)' /\ d \in ToSet(thread'[u].rest)
      <3>1. CASE wrapped /\ d = c /\ k = l
        BY <3>1, <1>15
      <3>2. CASE d \in ToSet(finalList[k])
        BY <3>2, <1>15
      <3>3. ASSUME NEW u \in AllThreads, HasActive(u, k), d \in ToSet(thread[u].rest)
            PROVE  HasActive(u, k)' /\ d \in ToSet(thread'[u].rest)
        BY <3>3, <1>11, <1>20, <1>30
      <3> QED
        BY <2>2, <3>1, <3>2, <3>3, <1>13 DEF FinalsFound
    <2> QED
      BY <2>1, <2>2 DEF FinalsFound
  <1>33. FinalDue'
    <2>1. \A u \in AllThreads : thread[u].pc \in Executing => thread'[u].pc \in Executing
      BY <1>1, <1>11
    <2>2. \A k \in Locks : finalList[k] # <<>> => finalList'[k] # <<>>
      BY <1>15
    <2> QED
      BY <2>1, <2>2, <1>1, <1>20 DEF FinalDue
  <1>34. StateIsItems'
    <2>1. \A k \in Locks : Held(k)' <=> Held(k)
      BY <1>1, <1>20 DEF Held
    <2>2. ASSUME NEW k \in Locks \ {l} PROVE Items(k)' = Items(k)
      <3>1. Waiting(k)' = Waiting(k)
        BY <1>13 DEF Waiting
      <3>2. \A u \in AllThreads : Runs(u, k)' <=> Runs(u, k)
        BY <1>3, <1>11, <1>20 DEF Runs
      <3> QED
        BY <3>1, <3>2, <1>15, ItemsFrame
    <2>3. Waiting(l)' = Waiting(l) \ {c} /\ c \in Waiting(l) /\ IsFiniteSet(Waiting(l))
      <3>1. Waiting(l)' = Waiting(l) \ {c} /\ c \in Waiting(l) /\ Waiting(l) \subseteq Closures
        BY <1>9, <1>13 DEF Waiting
      <3> QED
        BY <3>1, NodesAssumption, FS_Subset
    <2>4. Cardinality(Waiting(l))' = Cardinality(Waiting(l)) - 1 /\ Cardinality(Waiting(l)) \in Nat
      <3>1. PICK W : W = Waiting(l)
        OBVIOUS
      <3>2. Cardinality(W \ {c}) = Cardinality(W) - 1 /\ Cardinality(W) \in Nat
        BY <3>1, <2>3, FS_RemoveElement, FS_CardinalityType
      <3> QED
        BY <3>1, <3>2, <2>3
    <2>5. (\E u \in AllThreads : Runs(u, l))' /\ ~\E u \in AllThreads : Runs(u, l)
      <3>1. Runs(t, l)'
        BY <1>3, <1>11, <1>20 DEF Runs
      <3>2. \A u \in AllThreads : ~Runs(u, l)
        BY <1>1, <1>3, OneRunner DEF Runs
      <3> QED
        BY <3>1, <3>2
    <2>6. Items(l)' = IF wrapped /\ finalList[l] = <<>> THEN Items(l) + 1 ELSE Items(l)
      <3>1. PICK w \in Nat : w = Cardinality(Waiting(l)) /\ Cardinality(Waiting(l))' = w - 1
        BY <2>4
      <3>2. PICK f \in {0, 1} : f = IF finalList[l] = <<>> THEN 0 ELSE 1
        OBVIOUS
      <3>3. PICK g \in {0, 1} : g = IF finalList'[l] = <<>> THEN 0 ELSE 1
        OBVIOUS
      <3>4. Items(l) = w + 0 + f /\ Items(l)' = (w - 1) + 1 + g
        BY <3>1, <3>2, <3>3, <2>5 DEF Items
      <3>5. g = IF wrapped /\ finalList[l] = <<>> THEN f + 1 ELSE f
        BY <3>2, <3>3, <1>15
      <3> QED
        BY <3>4, <3>5
    <2>7. state'[l] = 2 * Items(l)' + (IF Held(l)' THEN 1 ELSE 0)
      BY <2>1, <2>6, <1>16, <1>21
    <2> QED
      BY <2>1, <2>2, <2>7, <1>16 DEF StateIsItems
  <1>35. FreedAtZero'
    <2>1. \A k \in Locks : state'[k] = 0 <=> state[k] = 0
      BY <1>16, <1>21, <1>22
    <2> QED
      BY <2>1, <1>1, <1>20 DEF FreedAtZero
  <1>36. /\ \A d \in Closures : Pushed(d)' <=> Pushed(d)
         /\ \A u \in AllThreads : call'[u] = call[u]
    BY <1>1 DEF Pushed
  <1>37. \A u \in AllThreads : \A i \in DOMAIN sent'[u] :
            sent'[u][i] # tail[l] /\ closure'[sent'[u][i]].lock = closure[sent'[u][i]].lock
    <2>1. ASSUME NEW u \in AllThreads, NEW i \in DOMAIN sent'[u] PROVE sent'[u][i] \in Closures \ {c}
      <3>1. sent'[u][i] \in ToSet(sent'[u])
        BY DEF ToSet
      <3> QED
        BY <3>1, <1>18, ListTypes
    <2> QED
      BY <2>1, <1>8, <1>12
  <1>38. ASSUME NEW k \in Locks \ {l} PROVE \E p \in Orders : Queue(k, p)'
    <2>1. PICK p \in Orders : Queue(k, p)
      BY DEF QueuesLinked
    <2>2. IsQueue(k, p) /\ StubKnown(k, p) /\ KeepsOrder(k, p)
      BY <2>1 DEF Queue
    <2>3. tail'[k] = tail[k] /\ head'[k] = head[k] /\ \A m \in ToSet(p) : next'[m] = next[m]
      BY <1>1, <1>6 DEF CombinerTypeOK
    <2>4. \A d \in Closures : (WaitsFor(d, k) /\ Pushed(d))' <=> WaitsFor(d, k) /\ Pushed(d)
      BY <1>13, <1>36
    <2>5. \A u \in AllThreads : HasActive(u, k)' /\ thread'[u].pc \in Popping
                                 => HasActive(u, k) /\ thread'[u] = thread[u]
      BY <1>3, <1>11, <1>20
    <2>6. IsQueue(k, p)' /\ StubKnown(k, p)'
      BY <2>2, <2>3, <2>4, <2>5, <1>36, QueueKept
    <2>7. KeepsOrder(k, p)'
      BY <2>2, <1>18, <1>37, OrderKept
    <2> QED
      BY <2>6, <2>7 DEF Queue
  <1>39. \E p \in Orders : Queue(l, p)'
    <2>1. PICK p : p = Tail(q)
      OBVIOUS
    <2>2. TailMoves(l)
      BY <1>1, <1>6, <1>8, <1>13, <1>36 DEF TailMoves, CombinerTypeOK
    <2>3. IsQueue(l, p)' /\ Shortened(l, q, p)
      BY <2>1, <2>2, <1>5, <1>6, QueueShortened
    <2>4. KeepsOrder(l, p)'
      BY <2>3, <1>5, <1>18, <1>37, OrderShortened
    <2>5. \A u \in AllThreads : HasActive(u, l)' => u = t
      BY <1>3, <1>20, OneRunner
    <2>6. thread'[t].pc \notin Popping
      BY <1>11 DEF Executing, Popping
    <2>7. StubKnown(l, p)'
      BY <2>5, <2>6 DEF StubKnown, Popping
    <2> QED
      BY <2>3, <2>4, <2>7 DEF Queue, Shortened
  <1>40. QueuesLinked'
    BY <1>38, <1>39 DEF QueuesLinked, Orders
  <1> QED
    BY <1>19, <1>23, <1>24, <1>26, <1>27, <1>29, <1>31, <1>32, <1>33, <1>34, <1>35, <1>40

-----------------------------------------------------------------------------
(***************************************************************************)
(* The invariant.                                                          *)
(***************************************************************************)
\* The head is the tail: the queue has one node, which is not the stub.
LEMMA LoneNode ==
    ASSUME NEW l \in Locks, NEW q \in Orders, IsQueue(l, q), head[l] = tail[l], tail[l] # l
    PROVE  l \notin ToSet(q)
  <1>1. PICK n \in Nat \ {0} : n = Len(q) /\ DOMAIN q = 1..n
    BY ToSetType DEF IsQueue, Orders
  <1>2. q[1] = q[n] /\ 1 \in 1..n /\ n \in 1..n
    BY <1>1 DEF IsQueue
  <1>3. n = 1
    BY <1>1, <1>2 DEF IsQueue, IsInjective
  <1> QED
    BY <1>1, <1>3 DEF IsQueue, ToSet

\* Nothing changes.
LEMMA StutterIInv == CombinerIInv /\ UNCHANGED vars => CombinerIInv'
  <1> SUFFICES ASSUME CombinerIInv, UNCHANGED vars PROVE CombinerIInv'
    OBVIOUS
  <1> USE DEF CombinerIInv, vars, lockVars, queueVars
  <1>1. CombinerTypeOK'
    BY DEF CombinerTypeOK
  <1>2. AtMostOneOwner' /\ OwnedIfCounted' /\ BusyHasCombiner'
    BY DEF AtMostOneOwner, OwnedIfCounted, BusyHasCombiner, Lists, Takes, Handed, Count
  <1>3. /\ CallsPush' /\ ClosuresPlaced' /\ SentWaits' /\ FreedAtZero' /\ FinalListed'
        /\ \A l \in Locks : Held(l)' = Held(l)
    BY CallFrame
  <1>4. /\ RestListed' /\ FinalsFound' /\ FinalDue'
        /\ \A l \in Locks : Items(l)' = Items(l)
    BY ClosureFrame
  <1>5. StateIsItems'
    BY <1>3, <1>4 DEF StateIsItems
  <1>6. ASSUME NEW l \in Locks, NEW q \in Orders, Queue(l, q) PROVE Queue(l, q)'
    <2>1. StubKnown(l, q)'
      BY <1>6, ThreadFrame DEF StubKnown, Queue
    <2> QED
      BY <2>1, <1>6, QueueFrame DEF Queue
  <1>7. QueuesLinked'
    BY <1>6 DEF QueuesLinked, Orders
  <1> QED
    BY <1>1, <1>2, <1>3, <1>4, <1>5, <1>7

\* What a thread asks for keeps the invariant.
LEMMA RequestIInv ==
    ASSUME CombinerIInv, NEW t \in AllThreads, Request(t)
    PROVE  CombinerIInv'
  <1>1. PICK l \in Locks :
            \/ \E c \in Closures : CombinerExec(t, c, l) \/ FinallyExec(t, c, l) \/ FinallyExecSlow(t, c, l)
            \/ Unref(t, l)
    BY DEF Request
  <1>2. ASSUME NEW c \in Closures, CombinerExec(t, c, l) PROVE CombinerIInv'
    BY <1>2, CountedIInv DEF CombinerExec
  <1>3. ASSUME NEW c \in Closures, FinallyExec(t, c, l) PROVE CombinerIInv'
    BY <1>3, FinallyExecIInv
  <1>4. ASSUME NEW c \in Closures, FinallyExecSlow(t, c, l) PROVE CombinerIInv'
    BY <1>4, CountedIInv DEF FinallyExecSlow
  <1>5. CASE Unref(t, l)
    BY <1>5, UnrefIInv
  <1> QED
    BY <1>1, <1>2, <1>3, <1>4, <1>5

\* So does gpr_mpscq_pop.
LEMMA PopIInv ==
    ASSUME CombinerIInv, NEW t \in AllThreads,
           \/ OffloadFinished(t) \/ BeginPop(t) \/ PopNothing(t) \/ PopLone(t) \/ PopHead(t)
           \/ PopRetry(t)
    PROVE  CombinerIInv'
  <1>1. CASE OffloadFinished(t)
    BY <1>1, QueueOffloadIInv DEF OffloadFinished, At
  <1>2. CASE BeginPop(t)
    <2>1. "pop" \in Popping \ {"stubLink"}
      BY DEF Popping
    <2> QED
      BY <1>2, <2>1, ThreadMoves DEF BeginPop, At
  <1>3. CASE PopNothing(t)
    <2>1. thread[t].pc \in {"top"} \cup Popping
      BY <1>3 DEF PopNothing, At, Popping
    <2> QED
      BY <1>3, <2>1, QueueOffloadIInv DEF PopNothing, At
  <1>4. CASE PopLone(t)
    <2>1. "popHead" \in Popping \ {"stubLink"} /\ thread[t].pc \in {"top"} \cup Popping
      BY <1>4 DEF Popping, PopLone, At
    <2> QED
      BY <1>4, <2>1, ThreadMoves DEF PopLone, At
  <1>5. CASE PopHead(t)
    <2>1. thread[t].pc = "popHead" /\ thread[t].pc \in {"top"} \cup Popping /\ active[t] # <<>>
      BY <1>5 DEF Popping, PopHead, At
    <2>2. CASE head[Mine(t)] # tail[Mine(t)]
      BY <1>5, <2>1, <2>2, QueueOffloadIInv DEF PopHead
    <2>3. CASE head[Mine(t)] = tail[Mine(t)]
      <3>1. PICK l \in Locks : l = Mine(t) /\ HasActive(t, l)
        BY <2>1, MineFacts DEF CombinerIInv
      <3>2. PICK q \in Orders : Queue(l, q)
        BY DEF CombinerIInv, QueuesLinked
      <3>3. tail[l] # l
        BY <2>1, <3>1, <3>2 DEF Queue, StubKnown, Popping
      <3>4. \A p \in Orders : IsQueue(l, p) => l \notin ToSet(p)
        BY <2>3, <3>1, <3>3, LoneNode
      <3>5. "stubSwap" \in Popping \ {"stubLink"}
        BY DEF Popping
      <3>6. /\ thread' = [thread EXCEPT ![t].pc = "stubSwap"]
            /\ UNCHANGED <<lockVars, queueVars, active, offloads, call, closure, sent>>
        BY <1>5, <2>3 DEF PopHead
      <3> QED
        BY <2>1, <3>1, <3>3, <3>4, <3>5, <3>6, ThreadMoves
    <2> QED
      BY <2>2, <2>3
  <1>6. CASE PopRetry(t)
    <2>1. thread[t].pc \in {"top"} \cup Popping
      BY <1>6 DEF PopRetry, At, Popping
    <2> QED
      BY <1>6, <2>1, QueueOffloadIInv DEF PopRetry, At
  <1> QED
    BY <1>1, <1>2, <1>3, <1>4, <1>5, <1>6

\* Every step keeps the invariant.
LEMMA NextCombinerIInv == CombinerIInv /\ [Next]_vars => CombinerIInv'
  <1> SUFFICES ASSUME CombinerIInv, [Next]_vars PROVE CombinerIInv'
    OBVIOUS
  <1>1. CASE UNCHANGED vars
    BY <1>1, StutterIInv
  <1>2. ASSUME NEW t \in AllThreads, Request(t) PROVE CombinerIInv'
    BY <1>2, RequestIInv
  <1>3. ASSUME NEW t \in AllThreads, Work(t) PROVE CombinerIInv'
    <2>1. CASE ExecFirst(t) \/ ExecOther(t)
      BY <2>1, ExecStepIInv
    <2>2. CASE PushSwap(t)
      BY <2>2, PushSwapIInv
    <2>3. CASE PushLink(t)
      BY <2>3, PushLinkIInv
    <2>4. CASE Orphan(t)
      BY <2>4, OrphanIInv
    <2>5. CASE BeginFinal(t)
      BY <2>5, BeginFinalIInv
    <2>6. CASE \/ OffloadFinished(t) \/ BeginPop(t) \/ PopNothing(t) \/ PopLone(t) \/ PopHead(t)
               \/ PopRetry(t)
      BY <2>6, PopIInv
    <2>7. CASE PopStub(t)
      BY <2>7, PopStubIInv
    <2>8. CASE PopNext(t)
      BY <2>8, PopNextIInv
    <2>9. CASE StubSwap(t)
      BY <2>9, StubSwapIInv
    <2>10. CASE StubLink(t)
      BY <2>10, StubLinkIInv
    <2>11. CASE CallbackEnds(t)
      BY <2>11, CallbackEndsIInv
    <2>12. CASE Finish(t)
      BY <2>12, FinishIInv
    <2>13. CASE ExecutorRuns(t)
      BY <2>13, ExecutorRunsIInv
    <2> QED
      BY <1>3, <2>1, <2>2, <2>3, <2>4, <2>5, <2>6, <2>7, <2>8, <2>9, <2>10, <2>11, <2>12, <2>13
      DEF Work
  <1> QED
    BY <1>1, <1>2, <1>3 DEF Next

\* The combiner keeps its invariant: who has it, what is counted, where each closure
\* is, and what the links of its queue mean.
THEOREM CombinerInvariant == Spec => []CombinerIInv
  BY InitCombinerIInv, NextCombinerIInv, PTL DEF Spec

-----------------------------------------------------------------------------
(***************************************************************************)
(* What follows from it.                                                   *)
(***************************************************************************)
\* A set whose elements are all the same has one element, or none.
LEMMA AtMostOne ==
    ASSUME NEW S, \A x, y \in S : x = y
    PROVE  Cardinality(S) = IF S = {} THEN 0 ELSE 1
  <1>1. CASE S = {}
    BY <1>1, FS_EmptySet
  <1>2. ASSUME NEW x \in S PROVE Cardinality(S) = 1
    <2>1. S = {x}
      OBVIOUS
    <2> QED
      BY <2>1, FS_Singleton
  <1> QED
    BY <1>1, <1>2

\* A combiner with items is in one place, an unlocked one in none.
LEMMA OwnerIsOne == CombinerIInv => OneOwner
  <1> SUFFICES ASSUME CombinerIInv, NEW l \in Locks
               PROVE  Cardinality({t \in AllThreads : l \in ToSet(active[t])})
                        + Cardinality({t \in AllThreads : call[t].pc = "first" /\ call[t].lock = l})
                        + Cardinality({i \in DOMAIN offloads : offloads[i] = l})
                      = IF Count(l) > 0 THEN 1 ELSE 0
    BY DEF OneOwner
  <1> DEFINE A == {t \in AllThreads : Lists(t, l)}
             B == {t \in AllThreads : Takes(t, l)}
             C == {i \in DOMAIN offloads : offloads[i] = l}
  <1>1. /\ \A x, y \in A : x = y
        /\ \A x, y \in B : x = y
        /\ \A x, y \in C : x = y
    BY DEF CombinerIInv, AtMostOneOwner, IsInjective
  <1>2. C # {} <=> Handed(l)
    BY DEF Handed, ToSet
  <1>3. /\ ~(A # {} /\ B # {}) /\ ~(A # {} /\ C # {}) /\ ~(B # {} /\ C # {})
        /\ Count(l) > 0 <=> A # {} \/ B # {} \/ C # {}
    BY <1>2 DEF CombinerIInv, AtMostOneOwner, OwnedIfCounted
  <1>4. A = {t \in AllThreads : l \in ToSet(active[t])}
    BY DEF Lists
  <1>5. B = {t \in AllThreads : call[t].pc = "first" /\ call[t].lock = l}
    BY DEF Takes
  <1> HIDE DEF A, B, C
  <1>6. /\ Cardinality(A) = IF A = {} THEN 0 ELSE 1
        /\ Cardinality(B) = IF B = {} THEN 0 ELSE 1
        /\ Cardinality(C) = IF C = {} THEN 0 ELSE 1
    BY <1>1, AtMostOne
  <1>7. Cardinality(A) + Cardinality(B) + Cardinality(C) = IF Count(l) > 0 THEN 1 ELSE 0
    BY <1>3, <1>6
  <1> QED
    BY <1>4, <1>5, <1>7 DEF C

\* The count is what waits, runs, or is on the final list.
LEMMA CountIsItems == CombinerIInv => CountIsRight
  <1> SUFFICES ASSUME CombinerIInv, NEW l \in Locks
               PROVE  Count(l) =
                        Cardinality({c \in Closures : closure[c].lock = l
                                                      /\ closure[c].status \in {"queued", "wrapped"}})
                        + Cardinality({t \in AllThreads : HasActive(t, l)
                                                          /\ thread[t].pc \in {"running", "finish"}})
                        + (IF finalList[l] = <<>> THEN 0 ELSE 1)
    BY DEF CountIsRight
  <1> DEFINE R == {t \in AllThreads : Runs(t, l)}
  <1>1. Waiting(l) = {c \in Closures : closure[c].lock = l /\ closure[c].status \in {"queued", "wrapped"}}
    BY DEF Waiting, WaitsFor
  <1>2. R = {t \in AllThreads : HasActive(t, l) /\ thread[t].pc \in {"running", "finish"}}
    BY DEF Runs, Executing
  <1>3. \A x, y \in R : x = y
    BY OneRunner DEF CombinerIInv, Runs
  <1>4. R = {} <=> ~\E t \in AllThreads : Runs(t, l)
    OBVIOUS
  <1> HIDE DEF R
  <1>5. Cardinality(R) = IF \E t \in AllThreads : Runs(t, l) THEN 1 ELSE 0
    BY <1>3, <1>4, AtMostOne
  <1>6. Count(l) = Items(l)
    BY ItemsFacts
  <1>7. Items(l) = Cardinality(Waiting(l)) + Cardinality(R) + (IF finalList[l] = <<>> THEN 0 ELSE 1)
    BY <1>5 DEF Items
  <1> QED
    BY <1>1, <1>2, <1>6, <1>7

\* Nothing refers to a combiner that is freed.
LEMMA FreedIsQuiet == CombinerIInv => DestroyedIsQuiet
  <1> SUFFICES ASSUME CombinerIInv, NEW l \in destroyed
               PROVE  /\ state[l] = 0
                      /\ head[l] = l /\ tail[l] = l
                      /\ finalList[l] = <<>>
                      /\ \A c \in Closures : closure[c].lock # l
                      /\ \A t \in AllThreads :
                          call[t].lock # l /\ call[t].prev # l /\ l \notin ToSet(active[t])
                      /\ l \notin ToSet(offloads)
    BY DEF DestroyedIsQuiet
  <1> USE DEF CombinerIInv
  <1>1. l \in Locks /\ state[l] = 0 /\ l # Null /\ l \notin Closures
    BY NullAssumption, NodesAssumption DEF CombinerTypeOK, FreedAtZero, Nodes
  <1>2. Items(l) = 0 /\ Count(l) = 0 /\ ~Held(l)
    <2>1. /\ Items(l) \in Nat /\ Count(l) = Items(l)
          /\ 0 = 2 * Items(l) + (IF Held(l) THEN 1 ELSE 0)
      BY <1>1, ItemsFacts
    <2> QED
      BY <2>1
  <1>3. finalList[l] = <<>> /\ \A c \in Closures : ~WaitsFor(c, l)
    <2>1. Cardinality(Waiting(l)) \in Nat /\ IsFiniteSet(Waiting(l))
      BY <1>1, ItemsFacts
    <2>2. finalList[l] = <<>> /\ Cardinality(Waiting(l)) = 0
      BY <1>2, <2>1 DEF Items
    <2>3. Waiting(l) = {}
      BY <2>1, <2>2, FS_EmptySet
    <2> QED
      BY <2>2, <2>3 DEF Waiting
  <1>4. (\A t \in AllThreads : ~Lists(t, l) /\ ~Takes(t, l)) /\ ~Handed(l)
    BY <1>1, <1>2 DEF OwnedIfCounted
  <1>5. \A t \in AllThreads : l \notin ToSet(active[t]) /\ ~HasActive(t, l)
    <2>1. ASSUME NEW t \in AllThreads, HasActive(t, l) PROVE FALSE
      <3>1. active[t] # <<>> /\ Mine(t) = l
        BY <2>1 DEF HasActive, Mine
      <3>2. Lists(t, Mine(t))
        BY <3>1, MineFacts
      <3> QED
        BY <3>1, <3>2, <1>4
    <2> QED
      BY <2>1, <1>4 DEF Lists
  <1>6. ASSUME NEW c \in Closures, closure[c].lock = l PROVE FALSE
    <2>1. closure[c].status \in {"final"}
      BY <1>1, <1>3, <1>6 DEF ClosuresPlaced, CombinerTypeOK, ClosureRecords, WaitsFor
    <2>2. FinalOn(c, l)
      BY <2>1, <1>6 DEF FinalOn
    <2>3. c \in ToSet(finalList[l])
      BY <2>2, <1>1, <1>5 DEF FinalsFound
    <2> QED
      BY <2>3, <1>3 DEF ToSet
  <1>7. ASSUME NEW t \in AllThreads PROVE call[t].lock # l
    <2>1. call[t].pc \in {"none", "link", "orphan"} \cup Pushing
      BY DEF CombinerTypeOK, CallRecords
    <2>2. CASE call[t].pc = "none"
      BY <2>2, <1>1 DEF CallsPush
    <2>3. CASE call[t].pc \in Pushing \cup {"link"}
      BY <2>3, <1>3 DEF CallsPush
    <2>4. CASE call[t].pc = "orphan"
      BY <2>4, <1>2 DEF Held, Orphans
    <2> QED
      BY <2>1, <2>2, <2>3, <2>4
  <1>8. ASSUME NEW t \in AllThreads, call[t].prev = l PROVE FALSE
    <2>1. call[t].pc = "link"
      BY <1>1, <1>8 DEF CallsPush
    <2>2. PICK k \in Locks : k = call[t].lock
      BY <2>1 DEF CallsPush
    <2>3. PICK q \in Orders : IsQueue(k, q)
      BY DEF QueuesLinked, Queue
    <2>4. PICK i \in 1..(Len(q) - 1) : call[t].prev = q[i]
      BY <2>1, <2>2, <2>3 DEF IsQueue
    <2>5. q[i] \in ToSet(q)
      BY ToSetType DEF Orders
    <2>6. l \in Closures \cup {k}
      BY <1>8, <2>3, <2>4, <2>5 DEF IsQueue
    <2> QED
      BY <1>1, <1>7, <2>2, <2>6
  <1>9. head[l] = l /\ tail[l] = l
    <2>1. PICK q \in Orders : IsQueue(l, q)
      BY <1>1 DEF QueuesLinked, Queue
    <2>2. PICK n \in Nat \ {0} : n = Len(q)
      BY <2>1, ToSetType DEF IsQueue, Orders
    <2>3. q[1] \in ToSet(q) /\ q[n] \in ToSet(q)
      BY <2>2, ToSetType DEF Orders
    <2>4. ToSet(q) \subseteq {l}
      BY <2>1, <1>3 DEF IsQueue
    <2> QED
      BY <2>1, <2>2, <2>3, <2>4 DEF IsQueue
  <1> QED
    BY <1>1, <1>3, <1>4, <1>5, <1>6, <1>7, <1>8, <1>9 DEF Handed

\* "there will only every be one at a time" (combiner.h): a combiner with items is in
\* exactly one place, whatever threads and executors do, and an unlocked one in none.
THEOREM OneOwnerHolds == Spec => []OneOwner
  BY CombinerInvariant, OwnerIsOne, PTL

\* The atomic count of combiner_exec is at all times the items there are.
THEOREM CountIsRightHolds == Spec => []CountIsRight
  BY CombinerInvariant, CountIsItems, PTL

\* really_destroy: when a combiner is freed nothing is queued on it and nobody can
\* touch it any more.
THEOREM DestroyedIsQuietHolds == Spec => []DestroyedIsQuiet
  BY CombinerInvariant, FreedIsQuiet, PTL

\* Only popping takes something from what was sent.
LEMMA SentGrows ==
    ASSUME CombinerIInv, NEW t \in AllThreads, Request(t) \/ Work(t), ~PopNext(t),
           NEW u \in AllThreads
    PROVE  ToSet(sent[u]) \subseteq ToSet(sent'[u])
  <1>1. ASSUME NEW c \in Closures, NEW l \in Locks, NEW status, Counted(t, c, l, status)
        PROVE  ToSet(sent[u]) \subseteq ToSet(sent'[u])
    <2>1. sent \in [AllThreads -> Seq(Closures)] /\ sent[t] \in Seq(Closures)
      BY DEF CombinerIInv, CombinerTypeOK
    <2>2. sent'[u] = IF u = t THEN Append(sent[t], c) ELSE sent[u]
      BY <1>1, <2>1 DEF Counted
    <2>3. ToSet(Append(sent[t], c)) = ToSet(sent[t]) \cup {c}
      BY <2>1, AppendFacts
    <2> QED
      BY <2>2, <2>3
  <1>2. CASE Request(t)
    <2>1. PICK l \in Locks :
            \/ \E c \in Closures : CombinerExec(t, c, l) \/ FinallyExec(t, c, l) \/ FinallyExecSlow(t, c, l)
            \/ Unref(t, l)
      BY <1>2 DEF Request
    <2>2. CASE sent' = sent
      BY <2>2
    <2>3. ASSUME NEW c \in Closures, CombinerExec(t, c, l) \/ FinallyExecSlow(t, c, l)
          PROVE  ToSet(sent[u]) \subseteq ToSet(sent'[u])
      BY <1>1, <2>3 DEF CombinerExec, FinallyExecSlow
    <2>4. ASSUME NEW c \in Closures, FinallyExec(t, c, l) PROVE sent' = sent
      BY <2>4 DEF FinallyExec
    <2>5. Unref(t, l) => sent' = sent
      BY DEF Unref
    <2> QED
      BY <2>1, <2>2, <2>3, <2>4, <2>5
  <1>3. CASE Work(t)
    <2>1. sent' = sent
      BY <1>3 DEF Work, ExecFirst, ExecOther, PushSwap, PushLink, Orphan, OffloadFinished, BeginPop,
                  BeginFinal, PopNothing, PopStub, PopLone, PopHead, StubSwap, StubLink, PopRetry,
                  CallbackEnds, Finish, ExecutorRuns
    <2> QED
      BY <2>1
  <1> QED
    BY <1>2, <1>3

\* What is popped is the first of what its thread has sent to that combiner.
LEMMA PopsFirst ==
    ASSUME CombinerIInv, NEW t \in AllThreads, PopNext(t), NEW u \in AllThreads,
           NEW i \in DOMAIN sent[u], NEW j \in DOMAIN sent[u], i < j,
           closure[sent[u][i]].lock = closure[sent[u][j]].lock,
           sent[u][j] \notin ToSet(sent'[u])
    PROVE  FALSE
  <1> USE DEF CombinerIInv
  <1>1. PICK l \in Locks : l = Mine(t)
    BY MineFacts DEF PopNext, At
  <1>2. PICK q \in Orders : IsQueue(l, q) /\ KeepsOrder(l, q)
    BY DEF QueuesLinked, Queue
  <1>3. PICK n \in Nat \ {0} : n = Len(q) /\ DOMAIN q = 1..n
    BY <1>2, ToSetType DEF IsQueue, Orders
  <1>4. PICK c : c = tail[l] /\ c = q[1] /\ c \in ToSet(q) /\ c # l
    BY <1>1, <1>2, <1>3 DEF IsQueue, ToSet, PopNext
  <1>5. c \in Closures /\ closure[c].lock = l
    BY <1>2, <1>4 DEF IsQueue, WaitsFor
  <1>6. sent'[u] = RemoveFirst(sent[u], c) /\ sent[u] \in Seq(Closures) /\ IsInjective(sent[u])
    BY <1>1, <1>4 DEF PopNext, Run, SentWaits, CombinerTypeOK
  <1>7. ToSet(sent'[u]) = ToSet(sent[u]) \ {c}
    BY <1>6, RemoveFirstFacts
  <1>8. sent[u][j] = c
    <2>1. sent[u][j] \in ToSet(sent[u])
      BY DEF ToSet
    <2> QED
      BY <2>1, <1>7
  <1>9. PICK a \in DOMAIN q, b \in DOMAIN q : a < b /\ q[b] = c
    BY <1>2, <1>4, <1>5, <1>8 DEF KeepsOrder
  <1>10. b = 1
    BY <1>2, <1>3, <1>4, <1>9 DEF IsQueue, IsInjective
  <1> QED
    BY <1>3, <1>9, <1>10

\* gpr_mpscq: the closures that a thread schedules on a combiner begin in that order,
\* whichever thread runs them and whatever others push in between.
THEOREM InThreadOrderHolds == Spec => InThreadOrder
  <1> DEFINE Ordered ==
        \A t \in AllThreads : \A i, j \in DOMAIN sent[t] :
         /\ i < j
         /\ closure[sent[t][i]].lock = closure[sent[t][j]].lock
         /\ sent[t][j] \notin ToSet(sent'[t])
         => sent[t][i] \notin ToSet(sent'[t])
  <1>1. CombinerIInv /\ [Next]_vars => [Ordered]_vars
    <2> SUFFICES ASSUME CombinerIInv, Next, NEW u \in AllThreads,
                        NEW i \in DOMAIN sent[u], NEW j \in DOMAIN sent[u], i < j,
                        closure[sent[u][i]].lock = closure[sent[u][j]].lock,
                        sent[u][j] \notin ToSet(sent'[u])
                 PROVE  FALSE
      OBVIOUS
    <2>1. PICK t \in AllThreads : Request(t) \/ Work(t)
      BY DEF Next
    <2>2. sent[u][j] \in ToSet(sent[u])
      BY DEF ToSet
    <2>3. CASE PopNext(t)
      BY <2>3, PopsFirst
    <2>4. CASE ~PopNext(t)
      BY <2>1, <2>2, <2>4, SentGrows
    <2> QED
      BY <2>3, <2>4
  <1> HIDE DEF Ordered
  <1>2. Spec => [][Ordered]_vars
    BY <1>1, CombinerInvariant, PTL DEF Spec
  <1> QED
    BY <1>2 DEF InThreadOrder, Ordered

=============================================================================
