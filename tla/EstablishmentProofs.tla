------------------------- MODULE EstablishmentProofs -------------------------
(***************************************************************************)
(* Theorems about Establishment, for any number of attempts, any capacity  *)
(* of the channels, any length of a scan and either build.                 *)
(*                                                                         *)
(* The inductive invariant says what an attempt's stage implies for its    *)
(* token, its answer and its subscription (Placed), what the channels and  *)
(* the worker hold (Channelled, Working), and that the leases are counted  *)
(* (Leased).                                                               *)
(***************************************************************************)
EXTENDS Establishment, FiniteSetTheorems, SequenceTheorems,
        WellFoundedInduction, TLAPS

Undecided == {"bound", "cancel-requested-bound"}

\* What the worker has for an attempt that waits for its answer.
Unread(a) == subs[a].phase = "none" /\ answer[a] = "none"

WaitingFor(a) ==
  \/ Unread(a) /\ token[a] \in Undecided
  \/ /\ subs[a].phase = "scanning" /\ subs[a].owed /\ answer[a] = "none"
     /\ token[a] \in Undecided
  \/ /\ subs[a].phase = "tearing" /\ subs[a].owed /\ answer[a] = "none"
     /\ token[a] \in {"failed", "cancel-requested-bound"}
  \/ /\ subs[a].phase = "none" /\ answer[a] \in {"failed", "cancelled"}
     /\ token[a] = answer[a]
  \/ /\ subs[a].phase = "live" /\ ~subs[a].owed
     /\ answer[a] = "established" /\ token[a] = "succeeded"

Finished == {"releasing", "shutting", "joining", "done"}

\* The error an attempt reports is the one its token ended in.
Settled(a) ==
  /\ token[a] \in Terminal
  /\ outcome[a] # "none"
  /\ outcome[a] = "established" <=> token[a] = "succeeded"
  /\ outcome[a] \in {"cancelled", "failed"} => token[a] = outcome[a]

PlacedAt(a) ==
  /\ at[a] = "idle" =>
       /\ token[a] \in {"created", "cancel-requested-unbound"}
       /\ Unread(a) /\ outcome[a] = "none"
  /\ at[a] \in {"bound", "resolved", "acquired", "sending"} =>
       token[a] \in Undecided /\ Unread(a) /\ outcome[a] = "none"
  /\ at[a] = "pending" => WaitingFor(a) /\ outcome[a] = "none"
  /\ at[a] = "established" =>
       /\ subs[a].phase = "live" /\ ~subs[a].owed
       /\ token[a] = "succeeded" /\ outcome[a] = "established"
  /\ at[a] = "disposing" =>
       /\ subs[a].phase \in {"none", "live", "disposing"} /\ ~subs[a].owed
       /\ a \in disposed => subs[a].phase = "none"
       /\ token[a] = "succeeded" /\ outcome[a] = "established"
  /\ at[a] \in Finished => subs[a].phase = "none" /\ Settled(a)
  /\ a \in disposed => at[a] \in {"disposing"} \union Finished
  /\ subs[a].phase = "none" => subs[a] = NoSub

Placed == \A a \in Attempts : PlacedAt(a)

\* The channels: a Subscribe for every attempt that is neither admitted nor
\* answered, once; a disposal by its thread, once; the shutdown alone.
Works(i) == at[work[i]] = "pending" /\ Unread(work[i])

Disposes(i) ==
  /\ at[control[i].of] = "disposing" /\ control[i].of \notin disposed
  /\ subs[control[i].of].phase = "live"

Channelled ==
  /\ \A i \in 1 .. Len(work) : Works(i)
  /\ \A i, j \in 1 .. Len(work) : work[i] = work[j] => i = j
  /\ \A i \in 1 .. Len(control) :
       /\ control[i].kind = "dispose" => Disposes(i)
       /\ control[i].kind = "shutdown" =>
            at[control[i].of] = "joining" /\ Len(control) = 1
  /\ \A i, j \in 1 .. Len(control) : control[i].of = control[j].of => i = j

Holders == {a \in Attempts : HoldsLease(a)}

Counted == leases = Cardinality(Holders)

Registry ==
  /\ registered <=> leases > 0
  /\ registered => ~stopping /\ worker = "running"
  /\ \A a \in Attempts : lock = a <=> at[a] \in {"shutting", "joining"}
  /\ lock # None => leases = 0
  /\ lock = None /\ ~registered => worker = "none"
  /\ lock # None => worker # "none"
  /\ worker \in {"shutting", "stopped", "panicked"} => at[lock] = "joining"

Leased == Counted /\ Registry

\* The worker: what is runnable needs a turn and what needs one is runnable
\* or in hand; the allocator knows every subscription not yet disposing, and
\* in a debug build nobody else; there is nothing of this without a worker.
Disjoint(q) == q.current \cap q.next = {}

NeedsTurns == {"scanning", "tearing", "disposing"}

ScheduledAt(a) ==
  /\ a \in Members(runnable) => subs[a].phase \in NeedsTurns
  /\ subs[a].phase \in NeedsTurns => a \in Members(runnable) \/ hand.of = a
  /\ subs[a].phase \in {"scanning", "tearing", "live"} =>
       a \in Members(allocator)
  /\ DebugAssertions /\ a \in Members(allocator) => subs[a].phase # "none"

InHand ==
  /\ hand = NoHand <=> turn # "commit"
  /\ hand # NoHand =>
       /\ worker = "running" /\ hand.of \in Attempts
       /\ subs[hand.of].phase = "scanning"
       /\ hand.of \notin Members(runnable)

Lifeless ==
  /\ worker = "shutting" => control = <<>>
  /\ worker \in {"none", "stopped", "panicked"} =>
       /\ Members(allocator) = {} /\ Members(runnable) = {}
       /\ control = <<>> /\ work = <<>>

Working ==
  /\ Disjoint(runnable) /\ \A a \in Attempts : ScheduledAt(a)
  /\ InHand /\ Lifeless

IInv == TypeOK /\ Placed /\ Channelled /\ Leased /\ Working

-----------------------------------------------------------------------------
(* The queues.                                                             *)

\* The naturals below n, ordered by strict inclusion.
LEMMA LeastNatural ==
  ASSUME NEW T \in SUBSET Nat, T # {}
  PROVE  \E n \in T : \A m \in T : n <= m
<1> DEFINE Below == {0 .. n : n \in T}
<1>1. Below \subseteq FiniteSubsetsOf(Nat) /\ Below # {}
  <2>1. \A n \in T : 0 .. n \in FiniteSubsetsOf(Nat)
    BY FS_Interval DEF FiniteSubsetsOf
  <2> QED BY <2>1
<1>2. PICK x \in Below :
        \A y \in Below : <<y, x>> \notin StrictSubsetOrdering(Nat)
  BY <1>1, FS_StrictSubsetOrderingWellFounded, WFMin
<1>3. PICK n \in T : x = 0 .. n
  BY <1>2
<1>4. ASSUME NEW m \in T, m < n PROVE FALSE
  <2>1. 0 .. m \in Below /\ 0 .. m \subseteq x /\ 0 .. m # x
    BY <1>3, <1>4
  <2> QED BY <1>1, <1>2, <2>1 DEF StrictSubsetOrdering, FiniteSubsetsOf
<1> QED BY <1>4

LEMMA OldestMember ==
  ASSUME NEW S \in SUBSET Attempts, S # {}, id \in [Attempts -> Nat]
  PROVE  Oldest(S) \in S
<1> DEFINE T == {id[a] : a \in S}
<1>1. T \in SUBSET Nat /\ T # {}
  OBVIOUS
<1>2. PICK n \in T : \A m \in T : n <= m
  BY <1>1, LeastNatural
<1>3. \E a \in S : \A b \in S : id[a] <= id[b]
  BY <1>2
<1> QED BY <1>3 DEF Oldest
\* What the operations do to the members of a queue.
LEMMA Scheduling ==
  ASSUME NEW q \in Queue, NEW a
  PROVE  /\ Members(Scheduled(q, a)) = Members(q) \union {a}
         /\ a \in Attempts => Scheduled(q, a) \in Queue
         /\ Disjoint(q) => Disjoint(Scheduled(q, a))
BY DEF Queue, Members, Scheduled, Disjoint

LEMMA Removing ==
  ASSUME NEW q \in Queue, NEW a
  PROVE  /\ Members(Without(q, a)) = Members(q) \ {a}
         /\ Without(q, a) \in Queue
         /\ Disjoint(q) => Disjoint(Without(q, a))
BY DEF Queue, Members, Without, Disjoint

LEMMA Turning ==
  ASSUME NEW q \in Queue
  PROVE  /\ Members(Turned(q)) = Members(q)
         /\ Turned(q) \in Queue
         /\ Members(q) # {} => Turned(q).current # {}
         /\ Disjoint(q) => Disjoint(Turned(q))
BY DEF Queue, Members, Turned, Disjoint

LEMMA Popping ==
  ASSUME NEW q \in Queue, Members(q) # {}, id \in [Attempts -> Nat]
  PROVE  /\ FirstOf(q) \in Members(q) /\ FirstOf(q) \in Attempts
         /\ Popped(q) \in Queue
         /\ Members(q) \ {FirstOf(q)} \subseteq Members(Popped(q))
         /\ Members(Popped(q)) \subseteq Members(q)
         /\ Disjoint(q) =>
              Disjoint(Popped(q)) /\ FirstOf(q) \notin Members(Popped(q))
<1> DEFINE r == Turned(q)
<1>1. r \in Queue /\ Members(r) = Members(q) /\ r.current # {}
      /\ (Disjoint(q) => Disjoint(r))
  BY Turning
<1>2. r.current \in SUBSET Attempts
  BY <1>1 DEF Queue
<1>3. FirstOf(q) \in r.current
  BY <1>1, <1>2, OldestMember DEF FirstOf
<1>4. Popped(q) = [r EXCEPT !.current = @ \ {FirstOf(q)}]
  BY DEF Popped
<1> HIDE DEF r
<1> QED BY <1>1, <1>2, <1>3, <1>4 DEF Queue, Members, Disjoint

-----------------------------------------------------------------------------
(* Types, by the part of the state they are about.                         *)

Tokens == {"created", "bound", "cancel-requested-unbound",
           "cancel-requested-bound"} \union Terminal
Hands == [of : Attempts \union {None}, ok : BOOLEAN]
Answers == {"none", "established", "cancelled", "failed"}
Subs == [phase : {"none", "scanning", "tearing", "live", "disposing"},
         left : 0 .. Quanta, owed : BOOLEAN]

CallerTypes ==
  /\ token \in [Attempts -> Tokens] /\ at \in [Attempts -> Stages]
  /\ outcome \in [Attempts -> Outcomes] /\ dropped \subseteq Attempts

RuntimeTypes ==
  /\ lock \in Attempts \union {None}
  /\ registered \in BOOLEAN /\ stopping \in BOOLEAN /\ leases \in Nat

ChannelTypes ==
  /\ control \in Seq(Commands) /\ Len(control) <= ControlCapacity
  /\ work \in Seq(Attempts) /\ Len(work) <= WorkCapacity

ReplyTypes ==
  /\ answer \in [Attempts -> Answers]
  /\ disposed \subseteq Attempts

WorkerTypes ==
  /\ worker \in {"none", "running", "shutting", "stopped", "panicked"}
  /\ turn \in {"control", "work", "promotion", "topology", "commit"}
  /\ hand \in Hands

QueueTypes ==
  /\ subs \in [Attempts -> Subs]
  /\ id \in [Attempts -> Nat] /\ nextId \in Nat
  /\ allocator \in Queue /\ runnable \in Queue

LEMMA TypeParts ==
  TypeOK <=> /\ CallerTypes /\ RuntimeTypes /\ ChannelTypes
             /\ ReplyTypes /\ WorkerTypes /\ QueueTypes
BY DEF TypeOK, CallerTypes, RuntimeTypes, ChannelTypes, ReplyTypes,
       WorkerTypes, QueueTypes, Tokens, Hands, Subs, Answers

LEMMA TypePartsNext ==
  ASSUME CallerTypes', RuntimeTypes', ChannelTypes', ReplyTypes',
         WorkerTypes', QueueTypes'
  PROVE  TypeOK'
BY DEF TypeOK, CallerTypes, RuntimeTypes, ChannelTypes, ReplyTypes,
       WorkerTypes, QueueTypes, Tokens, Hands, Subs, Answers

\* What the threads leave alone, and what the worker does.
ThreadStep == \E a \in Attempts :
                 Cancel(a) \/ DropPending(a) \/ Dispose(a) \/ Thread(a)

LEMMA ThreadFrame ==
  ASSUME ThreadStep
  PROVE  UNCHANGED <<answer, disposed, hand, subs, id, allocator, runnable>>
BY DEF ThreadStep, Thread, Cancel, Bind, Resolve, AcquireRuntime, AcquireFails,
       Admit, SendSubscribe, DropPending, Answered, Dispose,
       DisposalAcknowledged, ReleaseRuntime, SendShutdown, Join, engine

LEMMA WorkerFrame ==
  ASSUME WorkerStep
  PROVE  UNCHANGED <<at, outcome, dropped, lock, registered, leases, stopping>>
BY DEF WorkerStep, Turn, ControlCommand, ControlTurnEnds, WorkCommand,
       WorkTurnEnds, PromotionTurn, Panic, IdleTopologyTurn, TeardownTurn,
       AbandonScan, TeardownQuantum, ScanTurn, ValidateRoot, CommitSuccess,
       CommitFails, DisposalTurn, ShutdownAllocator, Stop, callers, runtime

\* The first command of a channel, and what is left of it.
LEMMA FirstCommand ==
  ASSUME TypeOK, control # <<>>
  PROVE  /\ 1 \in 1 .. Len(control)
         /\ Head(control) = control[1] /\ Head(control) \in Commands
         /\ Tail(control) \in Seq(Commands)
         /\ Len(Tail(control)) = Len(control) - 1
         /\ \A i \in 1 .. Len(Tail(control)) :
              Tail(control)[i] = control[i + 1]
<1>1. control \in Seq(Commands) BY DEF TypeOK
<1> QED BY <1>1, HeadTailProperties, ElementOfSeq, LenProperties

LEMMA FirstWork ==
  ASSUME TypeOK, work # <<>>
  PROVE  /\ 1 \in 1 .. Len(work)
         /\ Head(work) = work[1] /\ Head(work) \in Attempts
         /\ Tail(work) \in Seq(Attempts)
         /\ Len(Tail(work)) = Len(work) - 1
         /\ \A i \in 1 .. Len(Tail(work)) : Tail(work)[i] = work[i + 1]
<1>1. work \in Seq(Attempts) BY DEF TypeOK
<1> QED BY <1>1, HeadTailProperties, ElementOfSeq, LenProperties

LEMMA LeaseHeld ==
  ASSUME TypeOK, Leased, NEW a \in Attempts, HoldsLease(a)
  PROVE  leases \in Nat /\ leases > 0 /\ leases - 1 \in Nat
<1>1. Holders \subseteq Attempts /\ IsFiniteSet(Holders) /\ a \in Holders
  BY ConstantsAssumption, FS_Subset DEF Holders
<1>2. Cardinality(Holders) \in Nat /\ Cardinality(Holders) # 0
  BY <1>1, FS_CardinalityType, FS_EmptySet
<1> QED BY <1>2 DEF Leased, Counted

\* What is sent goes to the end of a channel.
LEMMA Sending ==
  ASSUME TypeOK, NEW a \in Attempts, NEW kind \in {"dispose", "shutdown"}
  PROVE  /\ Append(control, [kind |-> kind, of |-> a]) \in Seq(Commands)
         /\ Len(Append(control, [kind |-> kind, of |-> a])) = Len(control) + 1
         /\ Append(work, a) \in Seq(Attempts)
         /\ Len(Append(work, a)) = Len(work) + 1
         /\ Len(control) \in Nat /\ Len(work) \in Nat
         /\ ControlCapacity \in Nat /\ WorkCapacity \in Nat
<1>1. control \in Seq(Commands) /\ work \in Seq(Attempts)
  BY DEF TypeOK
<1>2. [kind |-> kind, of |-> a] \in Commands
  BY DEF Commands
<1> QED BY <1>1, <1>2, AppendProperties, LenProperties, ConstantsAssumption

LEMMA AnswerIsOutcome ==
  ASSUME TypeOK, NEW a \in Attempts
  PROVE  answer[a] \in Outcomes
BY DEF TypeOK, Outcomes

\* Where the token goes when an attempt ends.
LEMMA Endings ==
  ASSUME NEW t \in Tokens
  PROVE  /\ CommittedFailure(t) \in Tokens /\ AfterFinish(t) \in Tokens
         /\ AfterFailure(t) \in Tokens
         /\ ErrorOf(t) \in {"failed", "cancelled"}
BY DEF CommittedFailure, AfterFinish, AfterFailure, ErrorOf, Tokens, Terminal

\* What a thread does to the attempts is a new token, a stage and an outcome.
LEMMA CallersTyped ==
  ASSUME TypeOK, NEW a \in Attempts,
         Cancel(a) \/ DropPending(a) \/ Dispose(a) \/ Thread(a)
  PROVE  CallerTypes'
<1>1. CallerTypes /\ token[a] \in Tokens /\ answer[a] \in Outcomes
  BY TypeParts, AnswerIsOutcome DEF CallerTypes
<1>2. RequestedCancel(token[a]) \in Tokens
  BY <1>1 DEF RequestedCancel, Tokens
<1>3. CASE Cancel(a) \/ DropPending(a)
  BY <1>1, <1>2, <1>3 DEF Cancel, DropPending, callers, CallerTypes
<1>4. CASE Bind(a)
  BY <1>1, <1>4
  DEF Bind, Move, Refuse, Conclude, CallerTypes, Tokens, Terminal, Stages,
      Outcomes
<1>5. CASE Resolve(a) \/ AcquireFails(a)
  BY <1>1, <1>5, Endings
  DEF Resolve, AcquireFails, Move, Refuse, Conclude, CallerTypes, Stages,
      Outcomes
<1>6. CASE Admit(a) \/ SendSubscribe(a)
  BY <1>1, <1>6, Endings
  DEF Admit, SendSubscribe, Move, GiveBack, Conclude, CallerTypes, Stages,
      Outcomes
<1>7. CASE Answered(a)
  BY <1>1, <1>7
  DEF Answered, Move, GiveBack, Conclude, CallerTypes, Stages, Outcomes
<1>8. CASE \/ AcquireRuntime(a) \/ Dispose(a) \/ DisposalAcknowledged(a)
           \/ ReleaseRuntime(a) \/ SendShutdown(a) \/ Join(a)
  BY <1>1, <1>8
  DEF AcquireRuntime, Dispose, DisposalAcknowledged, ReleaseRuntime,
      SendShutdown, Join, Move, CallerTypes, Stages, Outcomes
<1> QED BY <1>3, <1>4, <1>5, <1>6, <1>7, <1>8 DEF Thread

\* A thread sends when there is room.
LEMMA SentTyped ==
  ASSUME TypeOK, NEW a \in Attempts,
         Cancel(a) \/ DropPending(a) \/ Dispose(a) \/ Thread(a)
  PROVE  ChannelTypes'
<1>1. ChannelTypes
  BY TypeParts
<1>2. CASE SendSubscribe(a)
  <2>1. /\ Append(work, a) \in Seq(Attempts)
        /\ Len(Append(work, a)) = Len(work) + 1
        /\ Len(work) \in Nat /\ WorkCapacity \in Nat
    BY Sending
  <2>2. /\ control' = control
        /\ \/ work' = work
           \/ work' = Append(work, a) /\ Len(work) < WorkCapacity
    BY <1>2 DEF SendSubscribe
  <2> QED BY <1>1, <2>1, <2>2 DEF ChannelTypes
<1>3. CASE Dispose(a) \/ SendShutdown(a)
  <2>1. PICK kind \in {"dispose", "shutdown"} :
          \/ control' = control
          \/ /\ control' = Append(control, [kind |-> kind, of |-> a])
             /\ Len(control) < ControlCapacity
    BY <1>3 DEF Dispose, SendShutdown
  <2>2. /\ Append(control, [kind |-> kind, of |-> a]) \in Seq(Commands)
        /\ Len(Append(control, [kind |-> kind, of |-> a])) = Len(control) + 1
        /\ Len(control) \in Nat /\ ControlCapacity \in Nat
    BY Sending
  <2>3. work' = work
    BY <1>3 DEF Dispose, SendShutdown
  <2> QED BY <1>1, <2>1, <2>2, <2>3, SMTT(30) DEF ChannelTypes
<1>4. CASE \/ Cancel(a) \/ DropPending(a) \/ Bind(a) \/ Resolve(a)
           \/ AcquireRuntime(a) \/ AcquireFails(a) \/ Admit(a) \/ Answered(a)
           \/ DisposalAcknowledged(a) \/ ReleaseRuntime(a) \/ Join(a)
  BY <1>1, <1>4
  DEF Cancel, DropPending, Bind, Resolve, AcquireRuntime, AcquireFails, Admit,
      Answered, DisposalAcknowledged, ReleaseRuntime, Join, channels,
      ChannelTypes
<1> QED BY <1>2, <1>3, <1>4 DEF Thread

LEMMA ThreadTypes ==
  ASSUME TypeOK, Leased, NEW a \in Attempts,
         Cancel(a) \/ DropPending(a) \/ Dispose(a) \/ Thread(a)
  PROVE  TypeOK'
<1>1. UNCHANGED <<answer, disposed, hand, subs, id, allocator, runnable>>
  BY ThreadFrame DEF ThreadStep
<1>2. RuntimeTypes /\ WorkerTypes /\ nextId \in Nat
  BY TypeParts DEF QueueTypes
<1>3. /\ RuntimeTypes'
      /\ worker' \in {"none", "running", "shutting", "stopped", "panicked"}
      /\ turn' \in {turn, "control"} /\ nextId' \in Nat
  <2>1. CASE AcquireRuntime(a)
    <3>1. leases' \in Nat /\ nextId' \in Nat
      BY <1>2, <2>1 DEF AcquireRuntime, RuntimeTypes
    <3> QED BY <1>2, <2>1, <3>1
        DEF AcquireRuntime, RuntimeTypes, WorkerTypes
  <2>2. CASE ReleaseRuntime(a)
    <3>1. leases - 1 \in Nat
      BY <2>2, LeaseHeld DEF ReleaseRuntime, HoldsLease
    <3> QED BY <1>2, <2>2, <3>1
        DEF ReleaseRuntime, engine, RuntimeTypes, WorkerTypes
  <2>3. CASE \/ Cancel(a) \/ DropPending(a) \/ Dispose(a) \/ Bind(a)
             \/ Resolve(a) \/ AcquireFails(a) \/ Admit(a) \/ SendSubscribe(a)
             \/ Answered(a) \/ DisposalAcknowledged(a) \/ SendShutdown(a)
             \/ Join(a)
    BY <1>2, <2>3
    DEF Cancel, DropPending, Dispose, Bind, Resolve, AcquireFails, Admit,
        SendSubscribe, Answered, DisposalAcknowledged, SendShutdown, Join,
        runtime, engine, RuntimeTypes, WorkerTypes
  <2> QED BY <2>1, <2>2, <2>3 DEF Thread
<1>4. WorkerTypes' /\ ReplyTypes' /\ QueueTypes'
  BY <1>1, <1>2, <1>3, TypeParts DEF WorkerTypes, ReplyTypes, QueueTypes
<1> QED BY <1>3, <1>4, CallersTyped, SentTyped, TypePartsNext

LEMMA PanicTypes ==
  ASSUME TypeOK, Panic
  PROVE  TypeOK'
<1>1. <<>> \in Seq(Commands) /\ <<>> \in Seq(Attempts)
      /\ Len(<<>>) <= ControlCapacity /\ Len(<<>>) <= WorkCapacity
  BY EmptySeq, ConstantsAssumption
<1>2. ChannelTypes'
  BY <1>1 DEF Panic, ChannelTypes
<1>3. QueueTypes'
  BY TypeParts, ConstantsAssumption
  DEF Panic, QueueTypes, NoSub, Subs, EmptyQueue, Queue
<1>4. CallerTypes' /\ RuntimeTypes' /\ ReplyTypes' /\ WorkerTypes'
  BY TypeParts DEF Panic, callers, runtime, CallerTypes, RuntimeTypes,
     ReplyTypes, WorkerTypes
<1> QED BY <1>2, <1>3, <1>4, TypePartsNext

LEMMA TeardownTypes ==
  ASSUME TypeOK, NEW a \in Attempts, NEW t \in Tokens,
         NEW left \in 0 .. Quanta, NEW queue \in Queue,
         TeardownQuantum(a, t, left, queue), hand' \in Hands
  PROVE  TypeOK'
<1>1. CallerTypes'
  BY TypeParts, Endings DEF TeardownQuantum, TakeDown, callers, CallerTypes
<1>2. ReplyTypes'
  BY TypeParts, Endings DEF TeardownQuantum, TakeDown, ReplyTypes, Answers
<1>3. NoSub \in Subs /\ subs \in [Attempts -> Subs]
  BY TypeParts, ConstantsAssumption DEF NoSub, Subs, QueueTypes
<1>4. subs' \in [Attempts -> Subs]
  <2>1. CASE subs' = [subs EXCEPT ![a] = NoSub]
    BY <1>3, <2>1
  <2>2. CASE /\ left > 0
             /\ subs' = [subs EXCEPT ![a] = [phase |-> "tearing",
                                      left |-> left - 1, owed |-> @.owed]]
    <3>1. left - 1 \in 0 .. Quanta
      BY <2>2, ConstantsAssumption
    <3> QED BY <1>3, <2>2, <3>1 DEF Subs
  <2> QED BY <2>1, <2>2 DEF TeardownQuantum
<1>5. QueueTypes'
  BY <1>4, TypeParts, Scheduling, Removing DEF TeardownQuantum, QueueTypes
<1>6. RuntimeTypes' /\ ChannelTypes' /\ WorkerTypes'
  BY TypeParts DEF TeardownQuantum, TurnEnds, runtime, channels, RuntimeTypes,
     ChannelTypes, WorkerTypes
<1> QED BY <1>1, <1>2, <1>5, <1>6, TypePartsNext

LEMMA BeginDisposalTypes ==
  ASSUME TypeOK, NEW a \in Attempts, BeginDisposal(a)
  PROVE  /\ token' \in [Attempts -> Tokens] /\ subs' \in [Attempts -> Subs]
         /\ allocator' \in Queue /\ runnable' \in Queue
<1>1. token' \in [Attempts -> Tokens]
  BY TypeParts DEF BeginDisposal, CallerTypes, Tokens, Terminal
<1>2. subs' \in [Attempts -> Subs]
  BY TypeParts, ConstantsAssumption DEF BeginDisposal, QueueTypes, Subs
<1>3. allocator' \in Queue /\ runnable' \in Queue
  BY TypeParts, Scheduling, Removing DEF BeginDisposal, QueueTypes
<1> QED BY <1>1, <1>2, <1>3

\* The fields of a subscription.
LEMMA SubTypes ==
  ASSUME TypeOK, NEW a \in Attempts
  PROVE  /\ subs[a] \in Subs /\ subs[a].left \in 0 .. Quanta
         /\ subs[a].left > 0 => subs[a].left - 1 \in 0 .. Quanta
         /\ token[a] \in Tokens /\ answer[a] \in Outcomes
BY TypeParts, ConstantsAssumption
DEF QueueTypes, Subs, CallerTypes, ReplyTypes, Answers, Outcomes

\* What is served is a member of the queue, which loses nobody else.
LEMMA Served ==
  ASSUME TypeOK, NEW a \in Attempts, Serving(a)
  PROVE  /\ a \in Members(runnable) /\ Popped(runnable) \in Queue
         /\ Members(runnable) \ {a} \subseteq Members(Popped(runnable))
         /\ Members(Popped(runnable)) \subseteq Members(runnable)
         /\ Disjoint(runnable) =>
              Disjoint(Popped(runnable)) /\ a \notin Members(Popped(runnable))
<1>1. runnable \in Queue /\ id \in [Attempts -> Nat]
  BY DEF TypeOK
<1> QED BY <1>1, Popping DEF Serving

LEMMA ControlCommandTypes ==
  ASSUME TypeOK, ControlCommand
  PROVE  TypeOK'
<1> DEFINE a == Head(control).of
<1>1. a \in Attempts
  BY FirstCommand DEF ControlCommand, Commands
<1>2. ChannelTypes'
  <2>1. control' \in Seq(Commands) /\ Len(control') = Len(control) - 1
        /\ Len(control) \in Nat
    BY FirstCommand, LenProperties, TypeParts
    DEF ControlCommand, ChannelTypes
  <2>2. work' = work
    BY DEF ControlCommand
  <2> QED BY <2>1, <2>2, TypeParts, ConstantsAssumption DEF ChannelTypes
<1>3. ReplyTypes'
  BY <1>1, TypeParts DEF ControlCommand, ReplyTypes
<1>4. WorkerTypes'
  BY TypeParts DEF ControlCommand, WorkerTypes
<1>5. CallerTypes' /\ QueueTypes'
  <2>1. CASE BeginDisposal(a)
    BY <1>1, <2>1, BeginDisposalTypes, TypeParts
    DEF ControlCommand, callers, CallerTypes, QueueTypes
  <2>2. CASE UNCHANGED <<token, subs, allocator, runnable>>
    BY <2>2, TypeParts DEF ControlCommand, callers, CallerTypes, QueueTypes
  <2> QED BY <2>1, <2>2 DEF ControlCommand
<1>6. RuntimeTypes'
  BY TypeParts DEF ControlCommand, runtime, RuntimeTypes
<1> QED BY <1>2, <1>3, <1>4, <1>5, <1>6, TypePartsNext

LEMMA WorkCommandTypes ==
  ASSUME TypeOK, WorkCommand
  PROVE  TypeOK'
<1> DEFINE a == Head(work)
<1>1. a \in Attempts /\ token[a] \in Tokens
  BY FirstWork, TypeParts DEF WorkCommand, CallerTypes
<1>2. ChannelTypes'
  <2>1. work' \in Seq(Attempts) /\ Len(work') = Len(work) - 1
        /\ Len(work) \in Nat
    BY FirstWork, LenProperties, TypeParts DEF WorkCommand, ChannelTypes
  <2>2. control' = control
    BY DEF WorkCommand
  <2> QED BY <2>1, <2>2, TypeParts, ConstantsAssumption DEF ChannelTypes
<1>3. CASE TakeDown(a, AfterFailure(token[a])) /\ UNCHANGED engine
  <2>1. CallerTypes' /\ ReplyTypes'
    <3>1. AfterFailure(token[a]) \in Tokens
      BY <1>1, Endings
    <3> QED BY <1>3, <3>1, Endings, TypeParts
        DEF WorkCommand, TakeDown, callers, CallerTypes, ReplyTypes, Answers
  <2>2. QueueTypes'
    BY <1>3, TypeParts DEF engine, QueueTypes
  <2>3. RuntimeTypes' /\ WorkerTypes'
    BY TypeParts DEF WorkCommand, runtime, RuntimeTypes, WorkerTypes
  <2> QED BY <1>2, <2>1, <2>2, <2>3, TypePartsNext
<1>4. CASE /\ subs' = [subs EXCEPT ![a] =
                       [phase |-> "scanning", left |-> Quanta, owed |-> TRUE]]
           /\ id' = [id EXCEPT ![a] = nextId] /\ nextId' = nextId + 1
           /\ allocator' = Scheduled(allocator, a)
           /\ runnable' = Scheduled(runnable, a)
           /\ UNCHANGED <<token, answer>>
  <2>1. [phase |-> "scanning", left |-> Quanta, owed |-> TRUE] \in Subs
    BY ConstantsAssumption DEF Subs
  <2>2. subs' \in [Attempts -> Subs]
    BY <1>4, <2>1, TypeParts DEF QueueTypes
  <2>3. id' \in [Attempts -> Nat] /\ nextId' \in Nat
    <3>1. id \in [Attempts -> Nat] /\ nextId \in Nat
      BY TypeParts DEF QueueTypes
    <3>2. nextId' \in Nat
      BY <1>4, <3>1
    <3> QED BY <1>4, <3>1, <3>2
  <2>4. allocator' \in Queue /\ runnable' \in Queue
    BY <1>1, <1>4, Scheduling, TypeParts DEF QueueTypes
  <2>5. CallerTypes' /\ ReplyTypes' /\ RuntimeTypes' /\ WorkerTypes'
    BY <1>4, TypeParts DEF WorkCommand, callers, runtime, CallerTypes,
       ReplyTypes, RuntimeTypes, WorkerTypes
  <2> QED BY <1>2, <2>2, <2>3, <2>4, <2>5, TypePartsNext DEF QueueTypes
<1> QED BY <1>3, <1>4 DEF WorkCommand

LEMMA PromotionTypes ==
  ASSUME TypeOK, PromotionTurn
  PROVE  TypeOK'
<1> DEFINE live == {a \in Turned(allocator).current : subs[a].phase # "none"}
<1>1. CASE Panic
  BY <1>1, PanicTypes
<1>2. CASE /\ allocator' = [current |-> {},
                            next |-> Turned(allocator).next \union live]
           /\ turn' = "topology"
           /\ UNCHANGED <<token, callers, runtime, channels, answer, disposed,
                          worker, hand, subs, id, nextId, runnable>>
  <2>1. Turned(allocator) \in Queue
    BY Turning, TypeParts DEF QueueTypes
  <2>2. allocator' \in Queue
    BY <1>2, <2>1 DEF Queue
  <2>3. CallerTypes' /\ RuntimeTypes' /\ ChannelTypes' /\ ReplyTypes'
    BY <1>2, TypeParts DEF callers, runtime, channels, CallerTypes,
       RuntimeTypes, ChannelTypes, ReplyTypes
  <2>4. WorkerTypes' /\ QueueTypes'
    BY <1>2, <2>2, TypeParts DEF WorkerTypes, QueueTypes
  <2> QED BY <2>3, <2>4, TypePartsNext
<1> QED BY <1>1, <1>2 DEF PromotionTurn

LEMMA DisposalTurnTypes ==
  ASSUME TypeOK, NEW a \in Attempts, DisposalTurn(a)
  PROVE  TypeOK'
<1>1. CallerTypes' /\ ReplyTypes'
  BY SubTypes, Endings, TypeParts
  DEF DisposalTurn, TakeDown, callers, CallerTypes, ReplyTypes, Answers
<1>2. subs' \in [Attempts -> Subs]
  <2>1. NoSub \in Subs /\ subs \in [Attempts -> Subs]
    BY TypeParts, ConstantsAssumption DEF NoSub, Subs, QueueTypes
  <2>2. CASE subs[a].left > 0 /\ subs' = [subs EXCEPT ![a].left = @ - 1]
    BY <2>1, <2>2, SubTypes DEF Subs
  <2> QED BY <2>1, <2>2 DEF DisposalTurn
<1>3. allocator' \in Queue /\ runnable' \in Queue
  BY Served, Scheduling, Removing, TypeParts DEF DisposalTurn, QueueTypes
<1>4. RuntimeTypes' /\ ChannelTypes' /\ WorkerTypes'
      /\ UNCHANGED <<id, nextId>>
  BY TypeParts DEF DisposalTurn, TurnEnds, runtime, channels, RuntimeTypes,
     ChannelTypes, WorkerTypes
<1>5. QueueTypes'
  BY <1>2, <1>3, <1>4, TypeParts DEF QueueTypes
<1> QED BY <1>1, <1>4, <1>5, TypePartsNext

LEMMA ShutdownTypes ==
  ASSUME TypeOK, ShutdownAllocator
  PROVE  TypeOK'
<1> DEFINE a == FirstOf(allocator)
<1>1. a \in Attempts
  BY Popping, TypeParts DEF ShutdownAllocator, QueueTypes
<1>2. CASE Panic
  BY <1>2, PanicTypes
<1>3. CASE BeginDisposal(a) /\ UNCHANGED <<callers, runtime, channels, answer,
                                 disposed, worker, turn, hand, id, nextId>>
  BY <1>1, <1>3, BeginDisposalTypes, TypeParts, TypePartsNext
  DEF callers, runtime, channels, CallerTypes, RuntimeTypes, ChannelTypes,
      ReplyTypes, WorkerTypes, QueueTypes
<1> QED BY <1>2, <1>3 DEF ShutdownAllocator

LEMMA WorkerTypesKept ==
  ASSUME TypeOK, WorkerStep
  PROVE  TypeOK'
<1>1. CASE ControlTurnEnds \/ WorkTurnEnds
  BY <1>1, TypeParts, TypePartsNext DEF ControlTurnEnds, WorkTurnEnds, callers,
     runtime, channels, engine, CallerTypes, RuntimeTypes, ChannelTypes,
     ReplyTypes, WorkerTypes, QueueTypes
<1>2. CASE IdleTopologyTurn
  <2>1. runnable' \in Queue
    BY <1>2, Popping, TypeParts DEF IdleTopologyTurn, QueueTypes
  <2> QED BY <1>2, <2>1, TypeParts, TypePartsNext
      DEF IdleTopologyTurn, TurnEnds,
          callers, runtime, channels, CallerTypes, RuntimeTypes, ChannelTypes,
          ReplyTypes, WorkerTypes, QueueTypes
<1>3. ASSUME NEW a \in Attempts, TeardownTurn(a)
      PROVE  TypeOK'
  <2>1. Popped(runnable) \in Queue /\ subs[a].left \in 0 .. Quanta
        /\ token[a] \in Tokens /\ hand' \in Hands
    BY <1>3, Served, SubTypes, TypeParts DEF TeardownTurn, WorkerTypes
  <2> QED BY <1>3, <2>1, TeardownTypes DEF TeardownTurn
<1>4. ASSUME NEW a \in Attempts, AbandonScan(a)
      PROVE  TypeOK'
  <2>1. Popped(runnable) \in Queue /\ Quanta \in 0 .. Quanta
        /\ CommittedFailure(token[a]) \in Tokens /\ hand' \in Hands
    BY <1>4, Served, SubTypes, Endings, ConstantsAssumption, TypeParts
    DEF AbandonScan, WorkerTypes
  <2> QED BY <1>4, <2>1, TeardownTypes DEF AbandonScan
<1>5. ASSUME NEW a \in Attempts, ScanTurn(a)
      PROVE  TypeOK'
  <2>1. subs' \in [Attempts -> Subs]
    BY <1>5, SubTypes, TypeParts DEF ScanTurn, QueueTypes, Subs
  <2>2. runnable' \in Queue
    BY <1>5, Served, Scheduling DEF ScanTurn
  <2> QED BY <1>5, <2>1, <2>2, TypeParts, TypePartsNext DEF ScanTurn, TurnEnds,
          callers, runtime, channels, CallerTypes, RuntimeTypes, ChannelTypes,
          ReplyTypes, WorkerTypes, QueueTypes
<1>6. ASSUME NEW a \in Attempts, ValidateRoot(a)
      PROVE  TypeOK'
  <2>1. runnable' \in Queue /\ hand' \in Hands
    BY <1>6, Served DEF ValidateRoot, Hands
  <2> QED BY <1>6, <2>1, TypeParts, TypePartsNext DEF ValidateRoot, callers,
          runtime, channels, CallerTypes, RuntimeTypes, ChannelTypes,
          ReplyTypes, WorkerTypes, QueueTypes
<1>7. ASSUME NEW a \in Attempts, CommitSuccess(a)
      PROVE  TypeOK'
  <2>1. subs' \in [Attempts -> Subs] /\ hand' \in Hands
    <3>1. [phase |-> "live", left |-> 0, owed |-> FALSE] \in Subs
      BY ConstantsAssumption DEF Subs
    <3> QED BY <1>7, <3>1, TypeParts
        DEF CommitSuccess, QueueTypes, NoHand, Hands
  <2>2. CallerTypes' /\ ReplyTypes'
    BY <1>7, TypeParts
    DEF CommitSuccess, callers, CallerTypes, ReplyTypes, Answers,
        Tokens, Terminal
  <2> QED BY <1>7, <2>1, <2>2, TypeParts, TypePartsNext DEF CommitSuccess,
          TurnEnds, runtime, channels, RuntimeTypes, ChannelTypes, WorkerTypes,
          QueueTypes
<1>8. ASSUME NEW a \in Attempts, CommitFails(a)
      PROVE  TypeOK'
  <2>1. runnable \in Queue /\ Quanta \in 0 .. Quanta
        /\ CommittedFailure(token[a]) \in Tokens /\ hand' \in Hands
    BY <1>8, SubTypes, Endings, ConstantsAssumption, TypeParts
    DEF CommitFails, QueueTypes, NoHand, Hands
  <2> QED BY <1>8, <2>1, TeardownTypes DEF CommitFails
<1>9. CASE Stop
  <2>1. CASE Panic
    BY <2>1, PanicTypes
  <2>2. CASE worker' = "stopped" /\ UNCHANGED <<token, callers, runtime,
               channels, answer, disposed, turn, hand, engine>>
    BY <2>2, TypeParts, TypePartsNext DEF callers, runtime, channels, engine,
       CallerTypes, RuntimeTypes, ChannelTypes, ReplyTypes, WorkerTypes,
       QueueTypes
  <2> QED BY <1>9, <2>1, <2>2 DEF Stop
<1> QED BY <1>1, <1>2, <1>3, <1>4, <1>5, <1>6, <1>7, <1>8, <1>9,
           ControlCommandTypes, WorkCommandTypes, PromotionTypes,
           DisposalTurnTypes, ShutdownTypes DEF WorkerStep, Turn

LEMMA Typing ==
  ASSUME TypeOK, Leased, [Next]_vars
  PROVE  TypeOK'
<1>1. CASE UNCHANGED vars
  BY <1>1, TypeParts, TypePartsNext
  DEF vars, callers, runtime, channels, engine, CallerTypes, RuntimeTypes,
      ChannelTypes, ReplyTypes, WorkerTypes, QueueTypes
<1> QED BY <1>1, ThreadTypes, WorkerTypesKept DEF Next, ThreadStep

-----------------------------------------------------------------------------
(* The leases.                                                             *)

Holding == {"acquired", "sending", "pending", "established", "disposing",
            "releasing"}

\* The holders after a thread's move.
LEMMA HoldersMove ==
  ASSUME TypeOK, NEW a \in Attempts, NEW s \in Stages, Move(a, s)
  PROVE  /\ (at[a] \in Holding <=> s \in Holding) => Holders' = Holders
         /\ at[a] \notin Holding /\ s \in Holding =>
              Holders' = Holders \union {a} /\ a \notin Holders
         /\ at[a] \in Holding /\ s \notin Holding =>
              Holders' = Holders \ {a} /\ a \in Holders
<1>1. at' = [at EXCEPT ![a] = s] /\ at \in [Attempts -> Stages]
  BY DEF TypeOK, Move
<1>2. \A b \in Attempts : HoldsLease(b) <=> at[b] \in Holding
  BY DEF HoldsLease, Holding
<1>3. \A b \in Attempts : HoldsLease(b)' <=> at'[b] \in Holding
  BY DEF HoldsLease, Holding
<1>4. Holders = {b \in Attempts : at[b] \in Holding}
  BY <1>2 DEF Holders
<1>5. Holders' = {b \in Attempts : at'[b] \in Holding}
  BY <1>3 DEF Holders
<1> QED BY <1>1, <1>4, <1>5

\* How many they are.
LEMMA HoldersCount ==
  ASSUME TypeOK, Counted
  PROVE  /\ IsFiniteSet(Holders) /\ leases \in Nat
         /\ leases = 0 <=> Holders = {}
         /\ \A a \in Attempts \ Holders :
              Cardinality(Holders \union {a}) = leases + 1
         /\ \A a \in Holders : Cardinality(Holders \ {a}) = leases - 1
<1>1. IsFiniteSet(Holders)
  BY ConstantsAssumption, FS_Subset DEF Holders
<1> QED BY <1>1, FS_CardinalityType, FS_EmptySet, FS_AddElement,
           FS_RemoveElement DEF Counted

\* A thread that neither takes nor gives a lease.
LEMMA CountedStill ==
  ASSUME TypeOK, Counted, NEW a \in Attempts, NEW s \in Stages, Move(a, s),
         at[a] \in Holding <=> s \in Holding, leases' = leases
  PROVE  Counted'
BY HoldersMove DEF Counted

LEMMA CountedKept ==
  ASSUME TypeOK, Leased, [Next]_vars
  PROVE  Counted'
<1>1. CASE at' = at /\ leases' = leases
  <2>1. Holders' = Holders
    BY <1>1 DEF Holders, HoldsLease
  <2> QED BY <1>1, <2>1 DEF Leased, Counted
<1>2. ASSUME NEW a \in Attempts, AcquireRuntime(a)
      PROVE  Counted'
  <2>1. Holders' = Holders \union {a} /\ a \notin Holders
    BY <1>2, HoldersMove DEF AcquireRuntime, Holding, Stages
  <2>2. Cardinality(Holders') = leases + 1
    BY <2>1, HoldersCount DEF Leased
  <2>3. leases' = leases + 1
    BY <1>2, HoldersCount DEF AcquireRuntime, Leased, Registry
  <2> QED BY <2>2, <2>3 DEF Counted
<1>3. ASSUME NEW a \in Attempts, ReleaseRuntime(a)
      PROVE  Counted'
  <2>1. Holders' = Holders \ {a} /\ a \in Holders
    BY <1>3, HoldersMove DEF ReleaseRuntime, Holding, Stages
  <2> QED BY <1>3, <2>1, HoldersCount DEF ReleaseRuntime, Leased, Counted
<1>4. ASSUME NEW a \in Attempts,
             \/ Bind(a) \/ Resolve(a) \/ AcquireFails(a) \/ Admit(a)
             \/ SendSubscribe(a) \/ Answered(a) \/ Dispose(a)
             \/ DisposalAcknowledged(a) \/ SendShutdown(a) \/ Join(a)
      PROVE  Counted'
  <2>1. leases' = leases
    BY <1>4 DEF Bind, Resolve, AcquireFails, Admit, SendSubscribe, Answered,
       Dispose, DisposalAcknowledged, SendShutdown, Join, runtime
  <2>2. \E s \in Stages : Move(a, s) /\ (at[a] \in Holding <=> s \in Holding)
    BY <1>4 DEF Bind, Resolve, AcquireFails, Admit, SendSubscribe, Answered,
       Dispose, DisposalAcknowledged, SendShutdown, Join, Refuse, GiveBack,
       Holding, Stages
  <2> QED BY <2>1, <2>2, CountedStill DEF Leased
<1>5. ASSUME NEW a \in Attempts, Cancel(a) \/ DropPending(a)
      PROVE  at' = at /\ leases' = leases
  BY <1>5 DEF Cancel, DropPending, callers, runtime
<1>6. UNCHANGED vars \/ WorkerStep => at' = at /\ leases' = leases
  BY WorkerFrame DEF vars, callers, runtime
<1> QED BY <1>1, <1>2, <1>3, <1>4, <1>5, <1>6 DEF Next, Thread

\* A debug build meets no stale id in a promotion turn.
LEMMA NoPanicInPromotion ==
  ASSUME TypeOK, Working, PromotionTurn
  PROVE  worker' = worker
<1>1. allocator \in Queue
  BY DEF TypeOK
<1>2. Turned(allocator).current \subseteq Members(allocator)
  BY <1>1, Turning DEF Members
<1>3. DebugAssertions =>
        \A a \in Turned(allocator).current : subs[a].phase # "none"
  BY <1>1, <1>2 DEF Working, ScheduledAt, Members, Queue
<1> QED BY <1>3 DEF PromotionTurn

\* The last command of a runtime's life is its shutdown.
LEMMA ShutdownCommand ==
  ASSUME TypeOK, Channelled, control # <<>>, Head(control).kind = "shutdown"
  PROVE  /\ Head(control).of \in Attempts
         /\ at[Head(control).of] = "joining" /\ Tail(control) = <<>>
<1>1. 1 \in 1 .. Len(control) /\ Head(control) = control[1]
      /\ Head(control) \in Commands
  BY FirstCommand
<1>2. at[Head(control).of] = "joining" /\ Len(control) = 1
  BY <1>1 DEF Channelled
<1>3. Tail(control) \in Seq(Commands) /\ Len(Tail(control)) = 0
  BY <1>2, FirstCommand
<1> QED BY <1>1, <1>2, <1>3, EmptySeq DEF Commands

LEMMA WorkerMoves ==
  ASSUME TypeOK, Channelled, Working, WorkerStep
  PROVE  \/ worker' = worker
         \/ /\ worker = "running" /\ worker' = "shutting" /\ control' = <<>>
            /\ \E a \in Attempts : at[a] = "joining"
         \/ worker = "shutting" /\ worker' \in {"stopped", "panicked"}
<1>1. CASE ControlCommand
  BY <1>1, ShutdownCommand DEF ControlCommand
<1>2. CASE PromotionTurn
  BY <1>2, NoPanicInPromotion
<1>3. CASE ShutdownAllocator \/ Stop
  BY <1>3 DEF ShutdownAllocator, Stop, Panic
<1>4. CASE ControlTurnEnds \/ WorkCommand \/ WorkTurnEnds \/ IdleTopologyTurn
  BY <1>4 DEF ControlTurnEnds, WorkCommand, WorkTurnEnds, IdleTopologyTurn
<1>5. ASSUME NEW a \in Attempts, Turn(a)
      PROVE  worker' = worker
  BY <1>5 DEF Turn, TeardownTurn, AbandonScan, TeardownQuantum, ScanTurn,
     ValidateRoot, CommitSuccess, CommitFails, DisposalTurn
<1> QED BY <1>1, <1>2, <1>3, <1>4, <1>5 DEF WorkerStep

LEMMA RegistryKept ==
  ASSUME TypeOK, Leased, Channelled, Working, [Next]_vars
  PROVE  Registry'
<1>1. CASE UNCHANGED vars
  BY <1>1 DEF vars, callers, runtime, Leased, Registry
<1>2. CASE WorkerStep
  <2>1. UNCHANGED <<at, lock, registered, leases, stopping>>
    BY <1>2, WorkerFrame
  <2>2. CASE worker' = worker
    BY <2>1, <2>2 DEF Leased, Registry
  <2>3. CASE worker = "shutting" /\ worker' \in {"stopped", "panicked"}
    BY <2>1, <2>3 DEF Leased, Registry
  <2>4. ASSUME NEW a \in Attempts, at[a] = "joining",
               worker = "running", worker' = "shutting"
        PROVE  Registry'
    <3>1. lock = a /\ lock # None /\ leases = 0
      BY <2>4, ConstantsAssumption DEF Leased, Registry
    <3> QED BY <2>1, <2>4, <3>1 DEF Leased, Registry
  <2> QED BY <1>2, <2>2, <2>3, <2>4, WorkerMoves
<1>3. ASSUME NEW a \in Attempts, AcquireRuntime(a)
      PROVE  Registry'
  <2>1. leases' > 0 /\ leases' \in Nat
    BY <1>3, HoldersCount DEF AcquireRuntime, Leased
  <2>2. registered' /\ ~stopping' /\ worker' = "running"
    BY <1>3 DEF AcquireRuntime, Leased, Registry
  <2>3. lock' = None
    BY <1>3 DEF AcquireRuntime
  <2>4. \A b \in Attempts : at'[b] \notin {"shutting", "joining"}
    BY <1>3, ConstantsAssumption
    DEF AcquireRuntime, Move, Leased, Registry, TypeOK
  <2> QED BY <2>1, <2>2, <2>3, <2>4, ConstantsAssumption DEF Registry
<1>4. ASSUME NEW a \in Attempts, ReleaseRuntime(a)
      PROVE  Registry'
  <2>1. leases \in Nat /\ leases > 0 /\ leases - 1 \in Nat
    BY <1>4, LeaseHeld DEF ReleaseRuntime, HoldsLease
  <2>2. registered /\ worker = "running" /\ ~stopping
        /\ \A b \in Attempts : at[b] \notin {"shutting", "joining"}
    BY <1>4, <2>1, ConstantsAssumption DEF ReleaseRuntime, Leased, Registry
  <2>3. CASE leases = 1
    <3>1. leases' = 0 /\ ~registered' /\ lock' = a
          /\ at' = [at EXCEPT ![a] = "shutting"]
          /\ worker' = "running"
      BY <1>4, <2>2, <2>3 DEF ReleaseRuntime, Move
    <3> QED BY <2>2, <3>1, ConstantsAssumption DEF Registry, TypeOK
  <2>4. CASE leases # 1
    <3>1. leases' > 0 /\ leases' \in Nat
      BY <1>4, <2>1, <2>4 DEF ReleaseRuntime
    <3>2. registered' = registered /\ stopping' = stopping /\ lock' = None
          /\ worker' = worker /\ at' = [at EXCEPT ![a] = "done"]
      BY <1>4, <2>4 DEF ReleaseRuntime, Move
    <3> QED BY <2>2, <3>1, <3>2, ConstantsAssumption DEF Registry, TypeOK
  <2> QED BY <2>3, <2>4
<1>5. ASSUME NEW a \in Attempts, SendShutdown(a)
      PROVE  Registry'
  BY <1>5 DEF SendShutdown, Move, runtime, Leased, Registry, TypeOK
<1>6. ASSUME NEW a \in Attempts, Join(a)
      PROVE  Registry'
  BY <1>6, ConstantsAssumption DEF Join, Move, Leased, Registry, TypeOK
<1>7. ASSUME NEW a \in Attempts,
             \/ Bind(a) \/ Resolve(a) \/ AcquireFails(a) \/ Admit(a)
             \/ SendSubscribe(a) \/ Answered(a) \/ Dispose(a)
             \/ DisposalAcknowledged(a) \/ Cancel(a) \/ DropPending(a)
      PROVE  Registry'
  <2>1. UNCHANGED <<lock, registered, leases, stopping, worker>>
    BY <1>7 DEF Bind, Resolve, AcquireFails, Admit, SendSubscribe, Answered,
       Dispose, DisposalAcknowledged, Cancel, DropPending, runtime
  <2>2. \/ at' = at
        \/ /\ at[a] \notin {"shutting", "joining"}
           /\ \E s \in Stages \ {"shutting", "joining"} : Move(a, s)
    BY <1>7 DEF Bind, Resolve, AcquireFails, Admit, SendSubscribe, Answered,
       Dispose, DisposalAcknowledged, Cancel, DropPending, Refuse, GiveBack,
       Stages, callers
  <2>3. \A b \in Attempts : /\ at'[b] = "shutting" <=> at[b] = "shutting"
                            /\ at'[b] = "joining" <=> at[b] = "joining"
    BY <2>2 DEF Move, TypeOK
  <2>4. lock # None => lock \in Attempts
    BY DEF TypeOK
  <2>5. worker \in {"shutting", "stopped", "panicked"} => lock # None
    BY DEF Leased, Registry
  <2> QED BY <2>1, <2>3, <2>4, <2>5 DEF Leased, Registry
<1> QED BY <1>1, <1>2, <1>3, <1>4, <1>5, <1>6, <1>7 DEF Next, Thread

LEMMA LeasedKept ==
  ASSUME TypeOK, Leased, Channelled, Working, [Next]_vars
  PROVE  Leased'
BY CountedKept, RegistryKept DEF Leased

-----------------------------------------------------------------------------
(* Who is touched by a step.                                               *)

\* Nothing of b changes.
Same(b) ==
  /\ token'[b] = token[b] /\ at'[b] = at[b] /\ outcome'[b] = outcome[b]
  /\ answer'[b] = answer[b] /\ subs'[b] = subs[b]
  /\ b \in disposed' <=> b \in disposed

\* Nothing changes of anybody but a.
Only(a) == \A b \in Attempts \ {a} : Same(b)

LEMMA ThreadsAreApart ==
  ASSUME TypeOK, NEW a \in Attempts,
         Cancel(a) \/ DropPending(a) \/ Dispose(a) \/ Thread(a)
  PROVE  Only(a)
<1>1. UNCHANGED <<answer, disposed, subs>>
  BY ThreadFrame DEF ThreadStep
<1>2. token' = token \/ \E t : token' = [token EXCEPT ![a] = t]
  BY DEF Thread, Cancel, Bind, Resolve, AcquireRuntime, AcquireFails, Admit,
     SendSubscribe, DropPending, Answered, Dispose, DisposalAcknowledged,
     ReleaseRuntime, SendShutdown, Join
<1>3. at' = at \/ \E s : at' = [at EXCEPT ![a] = s]
  BY DEF Thread, Cancel, Bind, Resolve, AcquireRuntime, AcquireFails, Admit,
     SendSubscribe, DropPending, Answered, Dispose, DisposalAcknowledged,
     ReleaseRuntime, SendShutdown, Join, Move, Refuse, GiveBack, callers
<1>4. outcome' = outcome \/ \E o : outcome' = [outcome EXCEPT ![a] = o]
  BY DEF Thread, Cancel, Bind, Resolve, AcquireRuntime, AcquireFails, Admit,
     SendSubscribe, DropPending, Answered, Dispose, DisposalAcknowledged,
     ReleaseRuntime, SendShutdown, Join, Refuse, GiveBack, Conclude, callers
<1>5. \A b \in Attempts \ {a} : token'[b] = token[b]
  BY <1>2, TypeParts DEF CallerTypes
<1>6. \A b \in Attempts \ {a} : at'[b] = at[b]
  BY <1>3, TypeParts DEF CallerTypes
<1>7. \A b \in Attempts \ {a} : outcome'[b] = outcome[b]
  BY <1>4, TypeParts DEF CallerTypes
<1> QED BY <1>1, <1>5, <1>6, <1>7 DEF Only, Same

LEMMA TeardownIsApart ==
  ASSUME TypeOK, NEW a \in Attempts, NEW t \in Tokens,
         NEW left \in 0 .. Quanta, NEW queue \in Queue,
         TeardownQuantum(a, t, left, queue)
  PROVE  Only(a)
BY TypeParts
DEF TeardownQuantum, TakeDown, callers, CallerTypes, ReplyTypes, QueueTypes,
    Only, Same

LEMMA DisposalIsApart ==
  ASSUME TypeOK, NEW a \in Attempts, BeginDisposal(a),
         UNCHANGED <<callers, answer, disposed>>
  PROVE  Only(a)
BY TypeParts
DEF BeginDisposal, callers, CallerTypes, QueueTypes, Only, Same

\* A turn touches the subscription served, and none but it.
LEMMA TurnsAreApart ==
  ASSUME TypeOK, NEW a \in Attempts, Turn(a)
  PROVE  Only(a)
<1>1. CASE TeardownTurn(a)
  BY <1>1, Served, SubTypes, TeardownIsApart DEF TeardownTurn
<1>2. CASE AbandonScan(a)
  BY <1>2, Served, SubTypes, Endings, ConstantsAssumption, TeardownIsApart
  DEF AbandonScan
<1>3. CASE CommitFails(a)
  BY <1>3, SubTypes, Endings, ConstantsAssumption, TypeParts, TeardownIsApart
  DEF CommitFails, QueueTypes
<1>4. CASE ScanTurn(a)
  BY <1>4, TypeParts DEF ScanTurn, callers, QueueTypes, Only, Same
<1>5. CASE ValidateRoot(a)
  BY <1>5 DEF ValidateRoot, callers, Only, Same
<1>6. CASE CommitSuccess(a)
  BY <1>6, TypeParts DEF CommitSuccess, callers, CallerTypes, ReplyTypes,
     QueueTypes, Only, Same
<1>7. CASE DisposalTurn(a)
  BY <1>7, TypeParts DEF DisposalTurn, TakeDown, callers, CallerTypes,
     ReplyTypes, QueueTypes, Only, Same
<1> QED BY <1>1, <1>2, <1>3, <1>4, <1>5, <1>6, <1>7 DEF Turn

LEMMA PlacedStill ==
  ASSUME NEW b \in Attempts, PlacedAt(b), Same(b)
  PROVE  PlacedAt(b)'
BY DEF PlacedAt, Same, Unread, WaitingFor, Settled

LEMMA PlacedElsewhere ==
  ASSUME NEW a \in Attempts, Placed, Only(a), PlacedAt(a)'
  PROVE  Placed'
BY PlacedStill DEF Placed, Only

\* While the worker dismantles itself there is no subscription, and no attempt
\* that waits for one.
LEMMA ShuttingIsEmpty ==
  ASSUME TypeOK, Placed, Leased, Channelled, ~registered
  PROVE  /\ \A a \in Attempts : at[a] \notin Holding /\ subs[a] = NoSub
         /\ work = <<>>
<1>1. leases = 0
  BY HoldersCount DEF Leased, Registry
<1>2. \A a \in Attempts : at[a] \notin Holding
  BY <1>1, HoldersCount DEF Leased, Holders, HoldsLease, Holding
<1>3. \A a \in Attempts : subs[a] = NoSub
  BY <1>2 DEF Placed, PlacedAt, Holding, Stages, Finished, Unread, TypeOK
<1>4. work \in Seq(Attempts) /\ Len(work) \in Nat
  BY LenProperties DEF TypeOK
<1>5. Len(work) = 0
  <2>1. SUFFICES ASSUME Len(work) # 0 PROVE FALSE
    OBVIOUS
  <2>2. 1 \in 1 .. Len(work)
    BY <1>4, <2>1
  <2>3. work[1] \in Attempts /\ at[work[1]] = "pending"
    BY <1>4, <2>2, ElementOfSeq DEF Channelled, Works
  <2> QED BY <1>2, <2>3 DEF Holding
<1> QED BY <1>2, <1>3, <1>4, <1>5, EmptySeq

\* The worker runs while a lease is held, and only then.
LEMMA WorkerServes ==
  ASSUME TypeOK, Leased, NEW a \in Attempts, at[a] \in Holding
  PROVE  registered /\ worker = "running" /\ Running
<1>1. leases > 0
  BY LeaseHeld DEF HoldsLease, Holding
<1> QED BY <1>1 DEF Leased, Registry, Running

LEMMA WorkerStops ==
  ASSUME TypeOK, Leased, worker # "running"
  PROVE  ~registered
BY DEF Leased, Registry

-----------------------------------------------------------------------------
(* An attempt's stage, token, answer and subscription.                     *)

\* The worker's decisions on the token and what the caller is told agree.
LEMMA Decisions ==
  /\ AfterFailure("bound") = "failed"
  /\ AfterFailure("cancel-requested-bound") = "cancelled"
  /\ CommittedFailure("bound") = "failed"
  /\ CommittedFailure("cancel-requested-bound") = "cancel-requested-bound"
  /\ AfterFinish("failed") = "failed" /\ ErrorOf("failed") = "failed"
  /\ AfterFinish("cancelled") = "cancelled"
  /\ AfterFinish("cancel-requested-bound") = "cancelled"
  /\ ErrorOf("cancel-requested-bound") = "cancelled"
  /\ ErrorOf("cancelled") = "cancelled"
BY DEF AfterFailure, AfterFinish, CommittedFailure, ErrorOf

LEMMA ThreadsPlaced ==
  ASSUME TypeOK, Placed, Leased, NEW a \in Attempts,
         Cancel(a) \/ DropPending(a) \/ Dispose(a) \/ Thread(a)
  PROVE  PlacedAt(a)'
<1> USE DEF PlacedAt, Undecided, Unread, WaitingFor, Settled, Finished,
            Terminal
<1>1. UNCHANGED <<answer, disposed, subs>>
  BY ThreadFrame DEF ThreadStep
<1>2. PlacedAt(a)
  BY DEF Placed
<1>3. /\ token \in [Attempts -> Tokens] /\ at \in [Attempts -> Stages]
      /\ outcome \in [Attempts -> Outcomes]
  BY TypeParts DEF CallerTypes
<1>4. CASE Cancel(a) \/ DropPending(a)
  BY <1>1, <1>2, <1>3, <1>4 DEF Cancel, DropPending, RequestedCancel, callers
<1>5. CASE Bind(a)
  BY <1>1, <1>2, <1>3, <1>5 DEF Bind, Move, Refuse, Conclude
<1>6. CASE Resolve(a)
  BY <1>1, <1>2, <1>3, <1>6, Decisions DEF Resolve, Move, Refuse, Conclude
<1>7. CASE AcquireRuntime(a)
  BY <1>1, <1>2, <1>3, <1>7 DEF AcquireRuntime, Move
<1>8. CASE AcquireFails(a)
  BY <1>1, <1>2, <1>3, <1>8, Decisions DEF AcquireFails, Refuse, Move, Conclude
<1>9. CASE Admit(a)
  BY <1>1, <1>2, <1>3, <1>9, Decisions
  DEF Admit, CancelRequested, GiveBack, Move, Conclude
<1>10. CASE SendSubscribe(a)
  BY <1>1, <1>2, <1>3, <1>10, Decisions
  DEF SendSubscribe, CancelRequested, GiveBack, Move, Conclude
<1>11. CASE Answered(a)
  <2>1. Running
    BY <1>11, WorkerServes DEF Answered, Holding
  <2>2. answer[a] # "none"
    BY <1>11, <2>1 DEF Answered
  <2> QED BY <1>1, <1>2, <1>3, <1>11, <2>2
      DEF Answered, GiveBack, Move, Conclude
<1>12. CASE Dispose(a)
  <2>1. Running
    BY <1>12, WorkerServes DEF Dispose, Holding
  <2> QED BY <1>1, <1>2, <1>3, <1>12, <2>1 DEF Dispose, Move
<1>13. CASE DisposalAcknowledged(a)
  <2>1. a \in disposed
    BY <1>13, WorkerServes DEF DisposalAcknowledged, Holding
  <2> QED BY <1>1, <1>2, <1>3, <1>13, <2>1 DEF DisposalAcknowledged, Move
<1>14. CASE ReleaseRuntime(a) \/ SendShutdown(a)
  BY <1>1, <1>2, <1>3, <1>14 DEF ReleaseRuntime, SendShutdown, Move
<1>15. CASE Join(a)
  BY <1>1, <1>2, <1>3, <1>15 DEF Join, Move
<1> QED BY <1>4, <1>5, <1>6, <1>7, <1>8, <1>9, <1>10, <1>11, <1>12, <1>13,
           <1>14, <1>15 DEF Thread

\* One turn of a teardown: the token is decided at its last.
LEMMA TeardownPlaced ==
  ASSUME TypeOK, Placed, NEW a \in Attempts, NEW t \in Tokens,
         NEW left \in 0 .. Quanta, NEW queue \in Queue,
         TeardownQuantum(a, t, left, queue),
         t \in {"failed", "cancel-requested-bound"},
         at[a] = "pending", outcome[a] = "none", answer[a] = "none",
         subs[a].owed, a \notin disposed
  PROVE  PlacedAt(a)'
<1>1. /\ token \in [Attempts -> Tokens] /\ subs \in [Attempts -> Subs]
      /\ answer \in [Attempts -> Answers]
  BY TypeParts DEF CallerTypes, QueueTypes, ReplyTypes
<1>2. UNCHANGED <<at, outcome, disposed>>
  BY DEF TeardownQuantum, callers
<1>3. CASE subs' = [subs EXCEPT ![a] = NoSub] /\ TakeDown(a, t)
  BY <1>1, <1>2, <1>3, Decisions DEF TakeDown, NoSub, PlacedAt, WaitingFor,
     Finished
<1>4. CASE /\ subs' = [subs EXCEPT ![a] = [phase |-> "tearing",
                                      left |-> left - 1, owed |-> @.owed]]
           /\ token' = [token EXCEPT ![a] = t]
           /\ answer' = answer
  BY <1>1, <1>2, <1>4 DEF PlacedAt, WaitingFor, Finished
<1> QED BY <1>3, <1>4 DEF TeardownQuantum

\* A subscription being scanned or torn down has a caller that waits for it.
LEMMA Waited ==
  ASSUME TypeOK, Placed, NEW a \in Attempts,
         subs[a].phase \in {"scanning", "tearing"}
  PROVE  /\ at[a] = "pending" /\ outcome[a] = "none" /\ answer[a] = "none"
         /\ subs[a].owed /\ a \notin disposed
         /\ subs[a].phase = "scanning" => token[a] \in Undecided
         /\ subs[a].phase = "tearing" =>
              token[a] \in {"failed", "cancel-requested-bound"}
BY ZenonT(60) DEF TypeOK, Stages, Placed, PlacedAt, WaitingFor, Unread, Finished

LEMMA Disposed ==
  ASSUME TypeOK, Placed, NEW a \in Attempts, subs[a].phase = "disposing"
  PROVE  at[a] = "disposing" /\ a \notin disposed /\ ~subs[a].owed
BY ZenonT(60) DEF TypeOK, Stages, Placed, PlacedAt, WaitingFor, Unread, Finished

LEMMA TurnsPlaced ==
  ASSUME TypeOK, Placed, Working, NEW a \in Attempts, Turn(a)
  PROVE  PlacedAt(a)'
<1>1. /\ token \in [Attempts -> Tokens] /\ subs \in [Attempts -> Subs]
      /\ answer \in [Attempts -> Answers]
      /\ token[a] \in Tokens /\ subs[a].left \in 0 .. Quanta
      /\ runnable \in Queue /\ Quanta \in 0 .. Quanta
  BY TypeParts, SubTypes, ConstantsAssumption
  DEF CallerTypes, QueueTypes, ReplyTypes
<1>2. PlacedAt(a)
  BY DEF Placed
<1>3. CASE TeardownTurn(a)
  BY <1>1, <1>3, Served, Waited, TeardownPlaced DEF TeardownTurn
<1>4. CASE AbandonScan(a)
  <2>1. CommittedFailure(token[a]) \in {"failed", "cancel-requested-bound"}
        /\ CommittedFailure(token[a]) \in Tokens
    BY <1>1, <1>4, Waited, Decisions, Endings DEF AbandonScan, Undecided
  <2> QED BY <1>1, <1>4, <2>1, Served, Waited, TeardownPlaced DEF AbandonScan
<1>5. CASE CommitFails(a)
  <2>1. subs[a].phase = "scanning"
    BY <1>5 DEF CommitFails, Working, InHand, NoHand
  <2>2. CommittedFailure(token[a]) \in {"failed", "cancel-requested-bound"}
        /\ CommittedFailure(token[a]) \in Tokens
    BY <1>1, <2>1, Waited, Decisions, Endings DEF Undecided
  <2> QED BY <1>1, <1>5, <2>1, <2>2, Waited, TeardownPlaced DEF CommitFails
<1>6. CASE ScanTurn(a)
  <2>1. /\ UNCHANGED <<token, at, outcome, answer, disposed>>
        /\ subs' = [subs EXCEPT ![a].left = @ - 1]
        /\ subs[a].phase = "scanning"
    BY <1>6 DEF ScanTurn, callers
  <2>2. subs'[a].phase = subs[a].phase /\ subs'[a].owed = subs[a].owed
    BY <1>1, <2>1 DEF Subs
  <2> QED BY <1>2, <2>1, <2>2
      DEF PlacedAt, WaitingFor, Unread, Settled
<1>7. CASE ValidateRoot(a)
  BY <1>2, <1>7
  DEF ValidateRoot, callers, PlacedAt, WaitingFor, Unread, Settled
<1>8. CASE CommitSuccess(a)
  <2>1. subs[a].phase = "scanning"
    BY <1>8 DEF CommitSuccess, Working, InHand, NoHand
  <2>2. at[a] = "pending" /\ outcome[a] = "none" /\ a \notin disposed
    BY <2>1, Waited
  <2>3. UNCHANGED <<at, outcome, disposed>>
    BY <1>8 DEF CommitSuccess, callers
  <2>4. token'[a] = "succeeded" /\ answer'[a] = "established"
        /\ subs'[a] = [phase |-> "live", left |-> 0, owed |-> FALSE]
    BY <1>1, <1>8 DEF CommitSuccess
  <2> QED BY <2>2, <2>3, <2>4 DEF PlacedAt, WaitingFor, Finished
<1>9. CASE DisposalTurn(a)
  <2>1. at[a] = "disposing" /\ a \notin disposed /\ ~subs[a].owed
    BY <1>9, Disposed DEF DisposalTurn
  <2>2. UNCHANGED <<token, at, outcome, answer>>
    BY <1>9, <2>1 DEF DisposalTurn, callers
  <2>3. CASE subs' = [subs EXCEPT ![a] = NoSub]
    BY <1>1, <1>2, <2>1, <2>2, <2>3 DEF PlacedAt, NoSub, Finished
  <2>4. CASE subs' = [subs EXCEPT ![a].left = @ - 1] /\ disposed' = disposed
    <3>1. subs'[a].phase = "disposing" /\ ~subs'[a].owed
      BY <1>1, <1>9, <2>1, <2>4 DEF DisposalTurn, Subs
    <3> QED BY <1>2, <2>1, <2>2, <2>4, <3>1 DEF PlacedAt, Finished
  <2> QED BY <1>9, <2>3, <2>4 DEF DisposalTurn
<1> QED BY <1>3, <1>4, <1>5, <1>6, <1>7, <1>8, <1>9 DEF Turn

\* The dispose command in front of the channel.
LEMMA DisposeCommand ==
  ASSUME TypeOK, Channelled, control # <<>>, Head(control).kind = "dispose"
  PROVE  /\ Head(control).of \in Attempts
         /\ at[Head(control).of] = "disposing"
         /\ Head(control).of \notin disposed
         /\ subs[Head(control).of].phase = "live"
<1>1. 1 \in 1 .. Len(control) /\ Head(control) = control[1]
      /\ Head(control) \in Commands
  BY FirstCommand
<1> QED BY <1>1 DEF Channelled, Disposes, Commands

\* The subscribe command in front of the channel.
LEMMA SubscribeCommand ==
  ASSUME TypeOK, Placed, Channelled, work # <<>>
  PROVE  /\ Head(work) \in Attempts /\ at[Head(work)] = "pending"
         /\ Unread(Head(work)) /\ token[Head(work)] \in Undecided
         /\ outcome[Head(work)] = "none" /\ Head(work) \notin disposed
<1>1. 1 \in 1 .. Len(work) /\ Head(work) = work[1] /\ Head(work) \in Attempts
  BY FirstWork
<1>2. at[Head(work)] = "pending" /\ Unread(Head(work))
  BY <1>1 DEF Channelled, Works
<1> QED BY <1>1, <1>2
        DEF Placed, PlacedAt, WaitingFor, Unread, Undecided, Finished

LEMMA PlacedKept ==
  ASSUME TypeOK, Placed, Leased, Channelled, Working, [Next]_vars
  PROVE  Placed'
<1>1. CASE UNCHANGED <<token, at, outcome, answer, disposed, subs>>
  BY <1>1, PlacedStill DEF Placed, Same
<1>2. UNCHANGED vars =>
        UNCHANGED <<token, at, outcome, answer, disposed, subs>>
  BY DEF vars, callers, engine
<1>3. ASSUME NEW a \in Attempts,
             Cancel(a) \/ DropPending(a) \/ Dispose(a) \/ Thread(a)
      PROVE  Placed'
  BY <1>3, ThreadsPlaced, ThreadsAreApart, PlacedElsewhere
<1>4. ASSUME NEW a \in Attempts, Turn(a)
      PROVE  Placed'
  BY <1>4, TurnsPlaced, TurnsAreApart, PlacedElsewhere
<1>5. ASSUME ControlCommand, Head(control).kind = "shutdown"
      PROVE  Placed'
  BY <1>1, <1>5 DEF ControlCommand, callers
<1>6. ASSUME ControlCommand, Head(control).kind # "shutdown",
             NEW a \in Attempts, a = Head(control).of
      PROVE  Placed'
  <2>1. UNCHANGED <<callers, answer>> /\ control # <<>>
    BY <1>6 DEF ControlCommand
  <2>2. at[a] = "disposing" /\ a \notin disposed /\ subs[a].phase = "live"
    BY <1>6, <2>1, FirstCommand, DisposeCommand DEF Commands
  <2>3. BeginDisposal(a) /\ disposed' = disposed
    BY <1>6, <2>2 DEF ControlCommand
  <2>4. subs \in [Attempts -> Subs]
    BY TypeParts DEF QueueTypes
  <2>5. PlacedAt(a) /\ token' = token
        /\ subs'[a].phase = "disposing" /\ subs'[a].owed = subs[a].owed
    BY <2>2, <2>3, <2>4 DEF BeginDisposal, Placed
  <2>6. PlacedAt(a)'
    BY <2>1, <2>2, <2>3, <2>5 DEF PlacedAt, Finished, callers
  <2> QED BY <2>1, <2>3, <2>6, DisposalIsApart, PlacedElsewhere
<1>7. ASSUME WorkCommand, NEW a \in Attempts, a = Head(work)
      PROVE  Placed'
  <2>1. /\ at[a] = "pending" /\ Unread(a)
        /\ token[a] \in Undecided /\ outcome[a] = "none" /\ a \notin disposed
    BY <1>7, SubscribeCommand DEF WorkCommand
  <2>2. UNCHANGED <<at, outcome, disposed>>
    BY <1>7 DEF WorkCommand, callers
  <2>3. /\ token \in [Attempts -> Tokens] /\ subs \in [Attempts -> Subs]
        /\ answer \in [Attempts -> Answers]
    BY TypeParts DEF CallerTypes, QueueTypes, ReplyTypes
  <2>4. CASE /\ subs' = [subs EXCEPT ![a] =
                   [phase |-> "scanning", left |-> Quanta, owed |-> TRUE]]
             /\ UNCHANGED <<token, answer>>
    <3>1. Only(a)
      BY <2>2, <2>3, <2>4 DEF Only, Same
    <3>2. PlacedAt(a)'
      BY <2>1, <2>2, <2>3, <2>4
      DEF PlacedAt, WaitingFor, Unread, Undecided, Finished
    <3> QED BY <3>1, <3>2, PlacedElsewhere
  <2>5. CASE TakeDown(a, AfterFailure(token[a])) /\ subs' = subs
    <3>1. Only(a)
      BY <2>2, <2>3, <2>5 DEF TakeDown, Only, Same
    <3>2. token'[a] \in {"failed", "cancelled"} /\ answer'[a] = token'[a]
      BY <2>1, <2>3, <2>5, Decisions DEF TakeDown, Undecided
    <3>3. PlacedAt(a)
      BY DEF Placed
    <3>4. PlacedAt(a)'
      BY <2>1, <2>2, <2>5, <3>2, <3>3
      DEF PlacedAt, WaitingFor, Unread, Finished
    <3> QED BY <3>1, <3>4, PlacedElsewhere
  <2> QED BY <1>7, <2>4, <2>5 DEF WorkCommand, engine
<1>8. CASE ControlTurnEnds \/ WorkTurnEnds \/ IdleTopologyTurn
  BY <1>1, <1>8 DEF ControlTurnEnds, WorkTurnEnds, IdleTopologyTurn, callers,
     engine
<1>9. CASE PromotionTurn
  <2>1. ~Panic
    BY <1>9, NoPanicInPromotion DEF PromotionTurn, Panic
  <2> QED BY <1>1, <1>9, <2>1 DEF PromotionTurn, callers
<1>10. CASE ShutdownAllocator \/ Stop
  <2>1. \A a \in Attempts : subs[a] = NoSub
    BY <1>10, WorkerStops, ShuttingIsEmpty DEF ShutdownAllocator, Stop
  <2>2. subs \in [Attempts -> Subs]
    BY TypeParts DEF QueueTypes
  <2>3. subs = [a \in Attempts |-> NoSub]
    BY <2>1, <2>2
  <2>4. CASE ShutdownAllocator
    <3>1. FirstOf(allocator) \in Attempts
      BY <2>4, Popping, TypeParts DEF ShutdownAllocator, QueueTypes
    <3>2. Panic
      BY <2>1, <2>4, <3>1 DEF ShutdownAllocator, NoSub
    <3> QED BY <1>1, <2>3, <3>2 DEF Panic, callers
  <2>5. CASE Stop
    BY <1>1, <2>3, <2>5 DEF Stop, Panic, callers, engine
  <2> QED BY <1>10, <2>4, <2>5
<1>11. ControlCommand => Head(control).of \in Attempts
  BY FirstCommand DEF ControlCommand, Commands
<1>12. WorkCommand => Head(work) \in Attempts
  BY FirstWork DEF WorkCommand
<1> QED BY <1>1, <1>2, <1>3, <1>4, <1>5, <1>6, <1>7, <1>8, <1>9, <1>10,
           <1>11, <1>12
    DEF Next, WorkerStep

-----------------------------------------------------------------------------
(* The channels.                                                           *)

\* What a step must not do to b while a command of b is on a channel.
Quiet(b) ==
  /\ at[b] = "pending" /\ Unread(b) => (at[b] = "pending" /\ Unread(b))'
  /\ at[b] = "disposing" /\ b \notin disposed /\ subs[b].phase = "live" =>
       (at[b] = "disposing" /\ b \notin disposed /\ subs[b].phase = "live")'
  /\ at[b] = "joining" => at'[b] = "joining"

LEMMA OnChannels ==
  ASSUME TypeOK
  PROVE  /\ control \in Seq(Commands) /\ work \in Seq(Attempts)
         /\ Len(control) \in Nat /\ Len(work) \in Nat
         /\ \A i \in 1 .. Len(work) : work[i] \in Attempts
         /\ \A i \in 1 .. Len(control) :
              /\ control[i] \in Commands /\ control[i].of \in Attempts
              /\ control[i].kind \in {"dispose", "shutdown"}
<1>1. control \in Seq(Commands) /\ work \in Seq(Attempts)
  BY DEF TypeOK
<1>2. \A i \in 1 .. Len(control) : control[i] \in Commands
  BY <1>1, ElementOfSeq
<1> QED BY <1>1, <1>2, ElementOfSeq, LenProperties DEF Commands

LEMMA ChannelledStill ==
  ASSUME TypeOK, Channelled, UNCHANGED <<control, work>>,
         \A b \in Attempts : Quiet(b)
  PROVE  Channelled'
BY OnChannels DEF Channelled, Works, Disposes, Quiet

LEMMA SameIsQuiet ==
  ASSUME NEW b \in Attempts, Same(b)
  PROVE  Quiet(b)
BY DEF Same, Quiet, Unread

\* Only a subscription that needs a turn gets one.
LEMMA TurnsServe ==
  ASSUME TypeOK, Working, NEW a \in Attempts, Turn(a)
  PROVE  subs[a].phase \in {"scanning", "tearing", "disposing"}
BY DEF Turn, TeardownTurn, AbandonScan, ScanTurn, ValidateRoot, CommitSuccess,
       CommitFails, DisposalTurn, Working, InHand, NoHand

LEMMA TurnsChannelled ==
  ASSUME TypeOK, Working, Channelled, NEW a \in Attempts, Turn(a)
  PROVE  Channelled'
<1>1. UNCHANGED <<control, work>>
  BY DEF Turn, TeardownTurn, AbandonScan, TeardownQuantum, ScanTurn,
     ValidateRoot, CommitSuccess, CommitFails, DisposalTurn, channels
<1>2. at' = at
  BY WorkerFrame DEF WorkerStep
<1>3. Quiet(a)
  BY <1>2, TurnsServe DEF Quiet, Unread
<1> QED BY <1>1, <1>3, TurnsAreApart, SameIsQuiet, ChannelledStill DEF Only

\* Nobody who holds a lease meets a shutdown.
LEMMA NoShutdown ==
  ASSUME TypeOK, Leased, Channelled, NEW a \in Attempts, at[a] \in Holding
  PROVE  \A i \in 1 .. Len(control) : control[i].kind = "dispose"
<1>1. leases \in Nat /\ leases > 0
  BY LeaseHeld DEF HoldsLease, Holding
<1>2. \A b \in Attempts : at[b] # "joining"
  BY <1>1, ConstantsAssumption DEF Leased, Registry
<1> QED BY <1>2, OnChannels DEF Channelled

\* The channel is empty when the runtime shuts down.
LEMMA NothingBeforeShutdown ==
  ASSUME TypeOK, Leased, Channelled, NEW a \in Attempts, at[a] = "shutting"
  PROVE  Len(control) = 0
<1>1. lock = a /\ leases = 0
  BY ConstantsAssumption DEF Leased, Registry
<1>2. \A b \in Attempts : at[b] # "disposing" /\ at[b] # "joining"
  <2>1. \A b \in Attempts : at[b] # "disposing"
    BY <1>1, LeaseHeld DEF HoldsLease
  <2>2. \A b \in Attempts : at[b] # "joining"
    BY <1>1 DEF Leased, Registry
  <2> QED BY <2>1, <2>2
<1>3. \A i \in 1 .. Len(control) : FALSE
  BY <1>2, OnChannels DEF Channelled, Disposes
<1>4. Len(control) \in Nat
  BY OnChannels
<1> QED BY <1>3, <1>4

LEMMA SubscribeChannelled ==
  ASSUME TypeOK, Placed, Channelled, NEW a \in Attempts,
         at[a] = "sending", at' = [at EXCEPT ![a] = "pending"],
         work' = Append(work, a),
         UNCHANGED <<control, answer, disposed, subs>>
  PROVE  Channelled'
<1>1. Unread(a)
  BY DEF Placed, PlacedAt
<1>2. at \in [Attempts -> Stages]
  BY DEF TypeOK
<1>3. /\ Len(work') = Len(work) + 1 /\ work'[Len(work) + 1] = a
      /\ \A i \in 1 .. Len(work) : work'[i] = work[i]
  BY OnChannels, AppendProperties
<1>4. \A i \in 1 .. Len(work') : i \in 1 .. Len(work) \/ i = Len(work) + 1
  BY <1>3, OnChannels
<1>5. \A i \in 1 .. Len(work) : work[i] # a
  BY DEF Channelled, Works
<1>6. \A i \in 1 .. Len(work') : Works(i)'
  BY <1>1, <1>2, <1>3, <1>4, <1>5, OnChannels DEF Channelled, Works, Unread
<1>7. \A i, j \in 1 .. Len(work') : work'[i] = work'[j] => i = j
  BY <1>3, <1>4, <1>5, OnChannels DEF Channelled
<1>8. \A i \in 1 .. Len(control) :
        /\ control[i].kind = "dispose" => Disposes(i)'
        /\ control[i].kind = "shutdown" => at'[control[i].of] = "joining"
  BY <1>2, OnChannels DEF Channelled, Disposes
<1> QED BY <1>6, <1>7, <1>8 DEF Channelled

\* A command of a, behind commands of others.
LEMMA CommandChannelled ==
  ASSUME TypeOK, Channelled, NEW a \in Attempts,
         NEW kind \in {"dispose", "shutdown"},
         control' = Append(control, [kind |-> kind, of |-> a]),
         UNCHANGED <<work, answer, disposed, subs>>,
         NEW s \in Stages, at' = [at EXCEPT ![a] = s],
         at[a] \notin {"pending", "disposing", "joining"},
         \A i \in 1 .. Len(control) : control[i].kind = "dispose",
         kind = "dispose" => /\ s = "disposing" /\ a \notin disposed
                             /\ subs[a].phase = "live",
         kind = "shutdown" => s = "joining" /\ Len(control) = 0
  PROVE  Channelled'
<1>1. at \in [Attempts -> Stages]
  BY DEF TypeOK
<1>2. /\ Len(control') = Len(control) + 1
      /\ control'[Len(control) + 1] = [kind |-> kind, of |-> a]
      /\ \A i \in 1 .. Len(control) : control'[i] = control[i]
  <2>1. [kind |-> kind, of |-> a] \in Commands
    BY DEF Commands
  <2> QED BY <2>1, OnChannels, AppendProperties
<1>3. \A i \in 1 .. Len(control') :
        i \in 1 .. Len(control) \/ i = Len(control) + 1
  BY <1>2, OnChannels
<1>4. \A i \in 1 .. Len(control) : control[i].of # a
  BY DEF Channelled, Disposes
<1>5. \A i \in 1 .. Len(control') :
        control'[i].kind = "dispose" => Disposes(i)'
  BY <1>1, <1>2, <1>3, <1>4, OnChannels DEF Channelled, Disposes
<1>6. \A i \in 1 .. Len(control') :
        control'[i].kind = "shutdown" =>
          at'[control'[i].of] = "joining" /\ Len(control') = 1
  BY <1>1, <1>2, <1>3
<1>7. \A i, j \in 1 .. Len(control') :
        control'[i].of = control'[j].of => i = j
  BY <1>2, <1>3, <1>4, OnChannels DEF Channelled
<1>8. \A i \in 1 .. Len(work) : Works(i)'
  BY <1>1, OnChannels DEF Channelled, Works, Unread
<1> QED BY <1>5, <1>6, <1>7, <1>8 DEF Channelled

\* Every command but the first, whose subscription the step may touch.
LEMMA TakenFromControl ==
  ASSUME TypeOK, Channelled, control # <<>>, control' = Tail(control),
         work' = work,
         \A b \in Attempts : b # Head(control).of => Quiet(b),
         Head(control).kind = "dispose" => at' = at /\ answer' = answer,
         Head(control).kind = "shutdown" => \A b \in Attempts : Quiet(b)
  PROVE  Channelled'
<1>1. /\ 1 \in 1 .. Len(control) /\ Head(control) = control[1]
      /\ Len(Tail(control)) = Len(control) - 1
      /\ \A i \in 1 .. Len(Tail(control)) : Tail(control)[i] = control[i + 1]
  BY FirstCommand
<1>2. \A i \in 1 .. Len(control') :
        /\ i + 1 \in 1 .. Len(control) /\ control'[i] = control[i + 1]
        /\ i + 1 # 1
  BY <1>1, OnChannels
<1>3. \A i \in 1 .. Len(control') :
        /\ control[i + 1].of \in Attempts
        /\ control[i + 1].of # Head(control).of
        /\ control[i + 1].kind = "dispose"
  <2> SUFFICES ASSUME NEW i \in 1 .. Len(control')
               PROVE  /\ control[i + 1].of \in Attempts
                      /\ control[i + 1].of # Head(control).of
                      /\ control[i + 1].kind = "dispose"
    OBVIOUS
  <2>1. i + 1 \in 1 .. Len(control) /\ i + 1 # 1
    BY <1>2
  <2>2. control[i + 1].of \in Attempts
        /\ control[i + 1].kind \in {"dispose", "shutdown"}
    BY <2>1, OnChannels
  <2>3. control[i + 1].of # control[1].of
    BY <1>1, <2>1 DEF Channelled
  <2>4. control[i + 1].kind # "shutdown"
    BY <2>1, OnChannels DEF Channelled
  <2> QED BY <1>1, <2>2, <2>3, <2>4
<1>4. \A i \in 1 .. Len(control') : Disposes(i)'
  BY <1>2, <1>3 DEF Channelled, Disposes, Quiet
<1>5. \A i, j \in 1 .. Len(control') :
        control'[i].of = control'[j].of => i = j
  <2> SUFFICES ASSUME NEW i \in 1 .. Len(control'),
                      NEW j \in 1 .. Len(control'),
                      control'[i].of = control'[j].of
               PROVE  i = j
    OBVIOUS
  <2>1. i + 1 = j + 1
    BY <1>2 DEF Channelled
  <2> QED BY <2>1, <1>1, OnChannels
<1>6. \A i \in 1 .. Len(work) : Works(i)'
  <2>1. CASE Head(control).kind = "shutdown"
    BY <2>1, OnChannels DEF Channelled, Works, Quiet
  <2>2. CASE Head(control).kind = "dispose"
    <3>1. at[Head(control).of] = "disposing"
      BY <2>2, DisposeCommand
    <3>2. \A i \in 1 .. Len(work) : work[i] # Head(control).of
      BY <3>1 DEF Channelled, Works
    <3> QED BY <3>2, OnChannels DEF Channelled, Works, Quiet
  <2> QED BY <1>1, <2>1, <2>2, OnChannels
<1> QED BY <1>2, <1>3, <1>4, <1>5, <1>6 DEF Channelled

LEMMA TakenFromWork ==
  ASSUME TypeOK, Placed, Channelled, work # <<>>, work' = Tail(work),
         UNCHANGED <<control, at, disposed>>,
         \A b \in Attempts : b # Head(work) => Quiet(b)
  PROVE  Channelled'
<1>1. /\ 1 \in 1 .. Len(work) /\ Head(work) = work[1]
      /\ Len(Tail(work)) = Len(work) - 1
      /\ \A i \in 1 .. Len(Tail(work)) : Tail(work)[i] = work[i + 1]
  BY FirstWork
<1>2. \A i \in 1 .. Len(work') :
        /\ i + 1 \in 1 .. Len(work) /\ work'[i] = work[i + 1] /\ i + 1 # 1
  BY <1>1, OnChannels
<1>3. \A i \in 1 .. Len(work') :
        work[i + 1] \in Attempts /\ work[i + 1] # Head(work)
  <2> SUFFICES ASSUME NEW i \in 1 .. Len(work')
               PROVE  work[i + 1] \in Attempts /\ work[i + 1] # Head(work)
    OBVIOUS
  <2>1. i + 1 \in 1 .. Len(work) /\ i + 1 # 1
    BY <1>2
  <2>2. work[i + 1] \in Attempts
    BY <2>1, OnChannels
  <2>3. work[i + 1] # work[1]
    BY <1>1, <2>1 DEF Channelled
  <2> QED BY <1>1, <2>2, <2>3
<1>4. \A i \in 1 .. Len(work') : Works(i)'
  BY <1>2, <1>3 DEF Channelled, Works, Quiet
<1>5. \A i, j \in 1 .. Len(work') : work'[i] = work'[j] => i = j
  <2> SUFFICES ASSUME NEW i \in 1 .. Len(work'), NEW j \in 1 .. Len(work'),
                      work'[i] = work'[j]
               PROVE  i = j
    OBVIOUS
  <2>1. i + 1 = j + 1
    BY <1>2 DEF Channelled
  <2> QED BY <2>1, <1>1, OnChannels
<1>6. at[Head(work)] = "pending"
  BY SubscribeCommand
<1>7. \A i \in 1 .. Len(control) :
        /\ control[i].of \in Attempts
        /\ control[i].kind = "dispose" => control[i].of # Head(work)
  <2>1. \A i \in 1 .. Len(control) : control[i].of \in Attempts
    BY OnChannels
  <2>2. \A i \in 1 .. Len(control) :
          control[i].kind = "dispose" => at[control[i].of] = "disposing"
    BY DEF Channelled, Disposes
  <2> QED BY <1>6, <2>1, <2>2
<1>8. \A i \in 1 .. Len(control) :
        /\ control[i].kind = "dispose" => Disposes(i)'
        /\ control[i].kind = "shutdown" =>
             at'[control[i].of] = "joining" /\ Len(control) = 1
  BY <1>7 DEF Channelled, Disposes, Quiet
<1> QED BY <1>4, <1>5, <1>8 DEF Channelled

LEMMA EmptyIsChannelled ==
  ASSUME control' = <<>>, work' = <<>>
  PROVE  Channelled'
<1>1. Len(control') = 0 /\ Len(work') = 0
  BY EmptySeq
<1> QED BY <1>1 DEF Channelled

LEMMA ThreadsChannelled ==
  ASSUME TypeOK, Placed, Leased, Channelled, Working, NEW a \in Attempts,
         Cancel(a) \/ DropPending(a) \/ Dispose(a) \/ Thread(a)
  PROVE  Channelled'
<1>1. UNCHANGED <<answer, disposed, subs>>
  BY ThreadFrame DEF ThreadStep
<1>2. at \in [Attempts -> Stages]
  BY DEF TypeOK
<1>3. ASSUME UNCHANGED <<control, work>>, Quiet(a)
      PROVE  Channelled'
  BY <1>3, ThreadsAreApart, SameIsQuiet, ChannelledStill DEF Only
<1>4. CASE Cancel(a) \/ DropPending(a)
  BY <1>1, <1>3, <1>4
  DEF Cancel, DropPending, callers, channels, Quiet, Unread
<1>5. CASE \/ Bind(a) \/ Resolve(a) \/ AcquireRuntime(a) \/ AcquireFails(a)
           \/ Admit(a) \/ Answered(a) \/ DisposalAcknowledged(a)
           \/ ReleaseRuntime(a)
  <2>1. UNCHANGED <<control, work>>
    BY <1>5 DEF Bind, Resolve, AcquireRuntime, AcquireFails, Admit, Answered,
       DisposalAcknowledged, ReleaseRuntime, channels
  <2>2. \/ at[a] \notin {"pending", "disposing", "joining"}
        \/ at[a] = "pending" /\ answer[a] # "none"
        \/ at[a] = "disposing" /\ a \in disposed
    BY <1>5, WorkerServes DEF Bind, Resolve, AcquireRuntime, AcquireFails,
       Admit, Answered, DisposalAcknowledged, ReleaseRuntime, Holding
  <2> QED BY <1>3, <2>1, <2>2 DEF Quiet, Unread
<1>6. CASE SendSubscribe(a)
  <2>1. CASE work' = work
    BY <1>3, <1>6, <2>1 DEF SendSubscribe, Quiet
  <2>2. CASE work' # work
    BY <1>1, <1>6, <2>2, SubscribeChannelled DEF SendSubscribe, Move
  <2> QED BY <2>1, <2>2
<1>7. CASE Dispose(a)
  <2>1. Running /\ \A i \in 1 .. Len(control) : control[i].kind = "dispose"
    BY <1>7, WorkerServes, NoShutdown DEF Dispose, Holding
  <2>2. subs[a].phase = "live" /\ a \notin disposed
    BY <1>7 DEF Dispose, Placed, PlacedAt, Finished
  <2>3. /\ control' = Append(control, [kind |-> "dispose", of |-> a])
        /\ at' = [at EXCEPT ![a] = "disposing"] /\ work' = work
        /\ at[a] = "established"
    BY <1>7, <2>1 DEF Dispose, Move
  <2> QED BY <1>1, <2>1, <2>2, <2>3, CommandChannelled DEF Stages
<1>8. CASE SendShutdown(a)
  <2>1. Len(control) = 0 /\ at[a] = "shutting"
    BY <1>8, NothingBeforeShutdown DEF SendShutdown
  <2>2. CASE Running
    <3>1. /\ control' = Append(control, [kind |-> "shutdown", of |-> a])
          /\ at' = [at EXCEPT ![a] = "joining"] /\ work' = work
      BY <1>8, <2>2 DEF SendShutdown, Move
    <3>2. \A i \in 1 .. Len(control) : control[i].kind = "dispose"
      BY <2>1
    <3> QED BY <1>1, <2>1, <3>1, <3>2, CommandChannelled DEF Stages
  <2>3. CASE ~Running
    BY <1>3, <1>8, <2>1, <2>3 DEF SendShutdown, Quiet
  <2> QED BY <2>2, <2>3
<1>9. CASE Join(a)
  <2>1. control = <<>> /\ work = <<>>
    BY <1>9, TypeParts DEF Join, Running, Working, Lifeless,
       WorkerTypes
  <2> QED BY <1>9, <2>1, EmptyIsChannelled DEF Join, channels
<1> QED BY <1>4, <1>5, <1>6, <1>7, <1>8, <1>9 DEF Thread

LEMMA ChannelledKept ==
  ASSUME TypeOK, Placed, Leased, Channelled, Working, [Next]_vars
  PROVE  Channelled'
<1>1. CASE UNCHANGED <<control, work, token, at, outcome, answer, disposed,
                       subs>>
  BY <1>1, SameIsQuiet, ChannelledStill DEF Same
<1>2. CASE UNCHANGED vars
  BY <1>1, <1>2 DEF vars, callers, channels, engine
<1>3. CASE ControlTurnEnds \/ WorkTurnEnds \/ IdleTopologyTurn
  BY <1>1, <1>3 DEF ControlTurnEnds, WorkTurnEnds, IdleTopologyTurn, callers,
     channels, engine
<1>4. CASE PromotionTurn
  <2>1. ~Panic
    BY <1>4, NoPanicInPromotion DEF PromotionTurn, Panic
  <2> QED BY <1>1, <1>4, <2>1 DEF PromotionTurn, callers, channels
<1>5. CASE ShutdownAllocator \/ Stop
  <2>1. CASE Panic
    BY <2>1, EmptyIsChannelled DEF Panic
  <2>2. CASE ~Panic
    <3>1. UNCHANGED <<control, work>>
      BY <1>5, <2>2 DEF ShutdownAllocator, Stop, channels
    <3>2. control = <<>> /\ work = <<>>
      BY <1>5, WorkerStops, ShuttingIsEmpty 
      DEF ShutdownAllocator, Stop, Working, Lifeless
    <3> QED BY <3>1, <3>2, EmptyIsChannelled
  <2> QED BY <2>1, <2>2
<1>6. ASSUME ControlCommand, Head(control).kind = "shutdown"
      PROVE  Channelled'
  <2>1. UNCHANGED <<token, at, outcome, answer, disposed, subs, work>>
        /\ control # <<>> /\ control' = Tail(control)
    BY <1>6 DEF ControlCommand, callers
  <2>2. \A b \in Attempts : Quiet(b)
    BY <2>1, SameIsQuiet DEF Same
  <2> QED BY <1>6, <2>1, <2>2, TakenFromControl
<1>7. ASSUME ControlCommand, Head(control).kind # "shutdown",
             NEW a \in Attempts, a = Head(control).of
      PROVE  Channelled'
  <2>1. UNCHANGED <<callers, at, answer, work>>
        /\ control # <<>> /\ control' = Tail(control)
    BY <1>7 DEF ControlCommand, callers
  <2>2. Head(control).kind = "dispose" /\ subs[a].phase = "live"
    BY <1>7, <2>1, FirstCommand, DisposeCommand DEF Commands
  <2>3. BeginDisposal(a) /\ disposed' = disposed
    BY <1>7, <2>2 DEF ControlCommand
  <2>4. Only(a)
    BY <2>1, <2>3, DisposalIsApart
  <2> QED BY <1>7, <2>1, <2>2, <2>4, SameIsQuiet, TakenFromControl DEF Only
<1>8. ControlCommand => Head(control).of \in Attempts
  BY FirstCommand DEF ControlCommand, Commands
<1>9. ASSUME WorkCommand, NEW a \in Attempts, a = Head(work)
      PROVE  Channelled'
  <2>1. UNCHANGED <<at, outcome, disposed, control>>
        /\ work # <<>> /\ work' = Tail(work)
    BY <1>9 DEF WorkCommand, callers
  <2>2. /\ token \in [Attempts -> Tokens] /\ subs \in [Attempts -> Subs]
        /\ answer \in [Attempts -> Answers]
    BY TypeParts DEF CallerTypes, QueueTypes, ReplyTypes
  <2>3. Only(a)
    BY <1>9, <2>1, <2>2 DEF WorkCommand, TakeDown, engine, Only, Same
  <2> QED BY <1>9, <2>1, <2>3, SameIsQuiet, TakenFromWork DEF Only
<1>10. WorkCommand => Head(work) \in Attempts
  BY FirstWork DEF WorkCommand
<1> QED BY <1>2, <1>3, <1>4, <1>5, <1>6, <1>7, <1>8, <1>9, <1>10,
           ThreadsChannelled, TurnsChannelled DEF Next, WorkerStep

-----------------------------------------------------------------------------
(* The worker's queues.                                                    *)

\* b's subscription and b's place in the queues do not change.
Kept(b) ==
  /\ subs'[b] = subs[b]
  /\ b \in Members(runnable)' <=> b \in Members(runnable)
  /\ b \in Members(allocator)' <=> b \in Members(allocator)
  /\ hand.of = b => hand' = hand

LEMMA ScheduledStill ==
  ASSUME NEW b \in Attempts, ScheduledAt(b), Kept(b)
  PROVE  ScheduledAt(b)'
BY DEF ScheduledAt, Kept

LEMMA ThreadsWorking ==
  ASSUME TypeOK, Placed, Leased, Channelled, Working, NEW a \in Attempts,
         Cancel(a) \/ DropPending(a) \/ Dispose(a) \/ Thread(a)
  PROVE  Working'
<1>1. UNCHANGED <<hand, subs, allocator, runnable>>
  BY ThreadFrame DEF ThreadStep
<1>2. Disjoint(runnable)' /\ \A b \in Attempts : ScheduledAt(b)'
  BY <1>1 DEF Working, ScheduledAt, Disjoint, Members
<1>3. CASE UNCHANGED <<worker, turn, control, work>>
  BY <1>1, <1>2, <1>3 DEF Working, InHand, Lifeless, Members
<1>4. CASE AcquireRuntime(a)
  <2>1. CASE UNCHANGED <<worker, turn>>
    BY <1>3, <1>4, <2>1 DEF AcquireRuntime, channels
  <2>2. CASE worker' = "running" /\ turn' = "control" /\ worker # "running"
    <3>1. hand = NoHand
      BY <2>2 DEF Working, InHand
    <3> QED BY <1>1, <1>2, <2>2, <3>1 DEF Working, InHand, Lifeless
  <2>3. worker = "running" => registered /\ ~stopping
    <3>1. lock = None
      BY <1>4 DEF AcquireRuntime
    <3> QED BY <3>1 DEF Leased, Registry
  <2> QED BY <1>4, <2>1, <2>2, <2>3 DEF AcquireRuntime
<1>5. CASE Join(a)
  <2>1. control = <<>> /\ work = <<>> /\ Members(allocator) = {}
        /\ Members(runnable) = {} /\ hand = NoHand
    BY <1>5, TypeParts DEF Join, Running, Working, Lifeless, InHand,
       WorkerTypes
  <2> QED BY <1>1, <1>2, <1>5, <2>1
      DEF Join, channels, Working, InHand, Lifeless, Members
<1>6. CASE SendSubscribe(a) \/ Dispose(a)
  <2>1. worker = "running" /\ UNCHANGED <<worker, turn>>
    BY <1>6, WorkerServes DEF SendSubscribe, Dispose, Holding
  <2> QED BY <1>1, <1>2, <2>1 DEF Working, InHand, Lifeless
<1>7. CASE SendShutdown(a)
  <2>1. lock = a /\ worker \notin {"shutting", "stopped", "panicked"}
    BY <1>7 DEF SendShutdown, Leased, Registry
  <2>2. CASE worker = "running"
    BY <1>1, <1>2, <1>7, <2>2 DEF SendShutdown, Working, InHand, Lifeless
  <2>3. CASE worker # "running"
    BY <1>3, <1>7, <2>1, <2>3 DEF SendShutdown, Running
  <2> QED BY <2>2, <2>3
<1>8. CASE \/ Cancel(a) \/ DropPending(a) \/ Bind(a) \/ Resolve(a)
           \/ AcquireFails(a) \/ Admit(a) \/ Answered(a)
           \/ DisposalAcknowledged(a) \/ ReleaseRuntime(a)
  BY <1>3, <1>8 DEF Cancel, DropPending, Bind, Resolve, AcquireFails, Admit,
     Answered, DisposalAcknowledged, ReleaseRuntime, channels
<1> QED BY <1>4, <1>5, <1>6, <1>7, <1>8 DEF Thread

\* A turn is taken by a worker that runs, with its hand free.
LEMMA ServingRuns ==
  ASSUME TypeOK, Placed, Leased, Channelled, Working, NEW a \in Attempts,
         Serving(a), subs[a].phase # "none"
  PROVE  worker = "running" /\ turn = "topology" /\ hand = NoHand
<1>1. worker # "shutting"
  BY WorkerStops, ShuttingIsEmpty DEF NoSub
<1> QED BY <1>1 DEF Serving, Working, InHand

\* A turn that leaves the others in their queues, and a where it belongs.
LEMMA OthersWorking ==
  ASSUME TypeOK, Working, NEW a \in Attempts, Only(a),
         worker = "running", worker' = "running", Disjoint(runnable)',
         \A b \in Attempts \ {a} :
           /\ b \in Members(runnable)' <=> b \in Members(runnable)
           /\ b \in Members(allocator)' <=> b \in Members(allocator),
         hand.of \in {a, None}, hand' = NoHand, turn' = "control",
         ScheduledAt(a)'
  PROVE  Working'
<1>1. \A b \in Attempts \ {a} : Kept(b)
  BY ConstantsAssumption DEF Kept, Only, Same
<1>2. \A b \in Attempts : ScheduledAt(b)'
  BY <1>1, ScheduledStill DEF Working
<1> QED BY <1>2 DEF Working, InHand, Lifeless

LEMMA TeardownWorking ==
  ASSUME TypeOK, Working, NEW a \in Attempts, NEW t \in Tokens,
         NEW left \in 0 .. Quanta, NEW queue \in Queue,
         TeardownQuantum(a, t, left, queue), worker = "running",
         Disjoint(queue), a \notin Members(queue),
         Members(queue) = Members(runnable) \ {a}, a \in Members(allocator),
         hand.of \in {a, None}, hand' = NoHand
  PROVE  Working'
<1>1. allocator \in Queue /\ subs \in [Attempts -> Subs]
  BY TypeParts DEF QueueTypes
<1>2. Only(a) /\ worker' = worker /\ turn' = "control"
  BY TeardownIsApart DEF TeardownQuantum, TurnEnds
<1>3. CASE /\ subs' = [subs EXCEPT ![a] = NoSub]
           /\ runnable' = IF DebugAssertions THEN Without(queue, a) ELSE queue
           /\ allocator' = IF DebugAssertions
                           THEN Without(allocator, a) ELSE allocator
  <2>1. Disjoint(runnable') /\ Members(runnable') = Members(queue)
    BY <1>3, Removing
  <2>2. /\ Members(allocator') \subseteq Members(allocator)
        /\ Members(allocator) \ {a} \subseteq Members(allocator')
        /\ DebugAssertions => a \notin Members(allocator')
    BY <1>1, <1>3, Removing
  <2>3. subs'[a].phase = "none"
    BY <1>1, <1>3 DEF NoSub
  <2>4. ScheduledAt(a)'
    BY <2>1, <2>2, <2>3 DEF ScheduledAt, NeedsTurns, Members
  <2> QED BY <1>2, <2>1, <2>2, <2>4, OthersWorking DEF Disjoint, Members
<1>4. CASE /\ subs' = [subs EXCEPT ![a] = [phase |-> "tearing",
                                      left |-> left - 1, owed |-> @.owed]]
           /\ runnable' = Scheduled(queue, a) /\ allocator' = allocator
  <2>1. Disjoint(runnable') /\ Members(runnable') = Members(queue) \union {a}
    BY <1>4, Scheduling
  <2>2. subs'[a].phase = "tearing"
    BY <1>1, <1>4
  <2>3. ScheduledAt(a)'
    BY <1>4, <2>1, <2>2 DEF ScheduledAt, NeedsTurns, Members
  <2> QED BY <1>2, <1>4, <2>1, <2>3, OthersWorking DEF Disjoint, Members
<1> QED BY <1>3, <1>4 DEF TeardownQuantum

LEMMA TurnsWorking ==
  ASSUME TypeOK, Placed, Leased, Channelled, Working, NEW a \in Attempts,
         Turn(a)
  PROVE  Working'
<1>1. /\ subs[a].phase \in NeedsTurns /\ Only(a) /\ ScheduledAt(a)
      /\ runnable \in Queue /\ allocator \in Queue
      /\ subs \in [Attempts -> Subs] /\ Disjoint(runnable)
      /\ subs[a].left \in 0 .. Quanta /\ Quanta \in 0 .. Quanta
      /\ token[a] \in Tokens /\ CommittedFailure(token[a]) \in Tokens
  BY TurnsServe, TurnsAreApart, TypeParts, SubTypes, Endings,
     ConstantsAssumption DEF NeedsTurns, QueueTypes, Working
<1>2. ASSUME Serving(a)
      PROVE  /\ worker = "running" /\ hand = NoHand /\ hand.of = None
             /\ Popped(runnable) \in Queue /\ Disjoint(Popped(runnable))
             /\ a \notin Members(Popped(runnable))
             /\ Members(Popped(runnable)) = Members(runnable) \ {a}
  BY <1>1, <1>2, ServingRuns, Served DEF NeedsTurns, NoHand
<1>3. CASE TeardownTurn(a)
  BY <1>1, <1>2, <1>3, TeardownWorking DEF TeardownTurn, ScheduledAt
<1>4. CASE AbandonScan(a)
  BY <1>1, <1>2, <1>4, TeardownWorking DEF AbandonScan, ScheduledAt
<1>5. CASE CommitFails(a)
  <2>1. /\ worker = "running" /\ a \notin Members(runnable)
        /\ hand.of = a /\ hand' = NoHand /\ subs[a].phase = "scanning"
    BY <1>5 DEF CommitFails, Working, InHand, NoHand
  <2> QED BY <1>1, <1>5, <2>1, TeardownWorking DEF CommitFails, ScheduledAt
<1>6. ASSUME Serving(a), turn' = "control", hand' = hand, worker' = worker,
             allocator' = allocator,
             runnable' = Scheduled(Popped(runnable), a),
             subs' = [subs EXCEPT ![a].left = @ - 1]
      PROVE  Working'
  <2>1. /\ Disjoint(runnable')
        /\ Members(runnable') = Members(runnable) \union {a}
    BY <1>2, <1>6, Served, Scheduling
  <2>2. subs'[a].phase = subs[a].phase
    BY <1>1, <1>6 DEF Subs
  <2>3. ScheduledAt(a)'
    BY <1>1, <1>6, <2>1, <2>2 DEF ScheduledAt, Members
  <2> QED BY <1>1, <1>2, <1>6, <2>1, <2>3, OthersWorking DEF Disjoint, Members
<1>7. CASE ScanTurn(a)
  BY <1>6, <1>7 DEF ScanTurn, TurnEnds
<1>8. CASE ValidateRoot(a)
  <2>1. /\ worker = "running" /\ worker' = "running" /\ subs' = subs
        /\ hand'.of = a /\ hand' # NoHand /\ turn' = "commit"
        /\ allocator' = allocator /\ subs[a].phase = "scanning"
        /\ runnable' = Popped(runnable) /\ UNCHANGED <<control, work>>
    BY <1>2, <1>8, ConstantsAssumption DEF ValidateRoot, NoHand, channels
  <2>2. /\ Members(runnable)' = Members(runnable) \ {a}
        /\ Members(allocator)' = Members(allocator) /\ subs' = subs
        /\ hand.of = None
    BY <1>2, <1>8, <2>1 DEF ValidateRoot, Members
  <2>3. ScheduledAt(a)'
    BY <1>1, <2>1, <2>2 DEF ScheduledAt
  <2>4. ASSUME NEW b \in Attempts, b # a
        PROVE  ScheduledAt(b)'
    <3>1. Kept(b)
      BY <2>2, <2>4, ConstantsAssumption DEF Kept
    <3> QED BY <2>4, <3>1, ScheduledStill DEF Working
  <2> QED BY <1>2, <1>8, <2>1, <2>3, <2>4
      DEF ValidateRoot, Working, InHand, Lifeless, Disjoint, Members
<1>9. CASE CommitSuccess(a)
  <2>1. /\ worker = "running" /\ a \notin Members(runnable)
        /\ hand.of = a /\ hand' = NoHand /\ turn' = "control"
        /\ UNCHANGED <<worker, runnable, allocator>>
        /\ subs[a].phase = "scanning"
    BY <1>9 DEF CommitSuccess, Working, InHand, NoHand, TurnEnds
  <2>2. subs'[a].phase = "live"
    BY <1>1, <1>9 DEF CommitSuccess
  <2>3. ScheduledAt(a)'
    BY <1>1, <2>1, <2>2 DEF ScheduledAt, NeedsTurns, Members
  <2> QED BY <1>1, <2>1, <2>3, OthersWorking DEF Disjoint, Members
<1>10. CASE DisposalTurn(a)
  <2>1. CASE /\ subs' = [subs EXCEPT ![a] = NoSub]
             /\ runnable' = Without(Popped(runnable), a)
             /\ allocator' = Without(allocator, a)
    <3>1. /\ Disjoint(runnable')
          /\ Members(runnable') = Members(runnable) \ {a}
          /\ Members(allocator') = Members(allocator) \ {a}
      BY <1>1, <1>2, <1>10, <2>1, Removing DEF DisposalTurn
    <3>2. subs'[a].phase = "none"
      BY <1>1, <2>1 DEF NoSub
    <3>3. ScheduledAt(a)'
      BY <3>1, <3>2 DEF ScheduledAt, NeedsTurns, Members
    <3> QED BY <1>1, <1>2, <1>10, <3>1, <3>3, OthersWorking
        DEF DisposalTurn, TurnEnds, Disjoint, Members
  <2> QED BY <1>6, <1>10, <2>1 DEF DisposalTurn, TurnEnds
<1> QED BY <1>3, <1>4, <1>5, <1>7, <1>8, <1>9, <1>10 DEF Turn

LEMMA DisposalWorking ==
  ASSUME TypeOK, Working, NEW a \in Attempts, BeginDisposal(a),
         UNCHANGED hand
  PROVE  /\ \A b \in Attempts : ScheduledAt(b)'
         /\ Disjoint(runnable)'
         /\ Members(allocator)' = Members(allocator) \ {a}
<1>1. allocator \in Queue /\ runnable \in Queue /\ subs \in [Attempts -> Subs]
      /\ Disjoint(runnable)
  BY TypeParts DEF QueueTypes, Working
<1>2. Without(runnable, a) \in Queue /\ Disjoint(Without(runnable, a))
      /\ Members(Without(runnable, a)) = Members(runnable) \ {a}
  BY <1>1, Removing
<1>3. Disjoint(runnable') /\ Members(runnable') = Members(runnable) \union {a}
  BY <1>2, Scheduling DEF BeginDisposal
<1>4. Members(allocator') = Members(allocator) \ {a}
  BY <1>1, Removing DEF BeginDisposal
<1>5. /\ subs'[a].phase = "disposing"
      /\ \A b \in Attempts \ {a} : subs'[b] = subs[b]
  BY <1>1 DEF BeginDisposal
<1>6. ScheduledAt(a)'
  BY <1>3, <1>4, <1>5 DEF ScheduledAt, NeedsTurns, Members
<1>7. ASSUME NEW b \in Attempts \ {a}
      PROVE  ScheduledAt(b)'
  <2>1. Kept(b)
    BY <1>3, <1>4, <1>5 DEF Kept, Members
  <2> QED BY <2>1, ScheduledStill DEF Working
<1> QED BY <1>3, <1>4, <1>6, <1>7 DEF Disjoint, Members

LEMMA ControlWorking ==
  ASSUME TypeOK, Channelled, Working, ControlCommand
  PROVE  Working'
<1> DEFINE a == Head(control).of
<1>1. worker = "running" /\ turn = "control" /\ turn' = turn /\ hand' = hand
      /\ control # <<>> /\ hand = NoHand
  BY DEF ControlCommand, Working, InHand
<1>2. CASE Head(control).kind = "shutdown"
  <2>1. control' = <<>> /\ worker' = "shutting"
        /\ UNCHANGED <<subs, allocator, runnable>>
    BY <1>1, <1>2, ShutdownCommand DEF ControlCommand
  <2> QED BY <1>1, <2>1
      DEF Working, InHand, Lifeless, ScheduledAt, Disjoint, Members
<1>3. CASE Head(control).kind # "shutdown"
  <2>1. Head(control).kind = "dispose" /\ worker' = worker
    BY <1>1, <1>3, FirstCommand DEF ControlCommand, Commands
  <2>2. a \in Attempts /\ subs[a].phase = "live" /\ BeginDisposal(a)
    BY <1>1, <1>3, <2>1, DisposeCommand DEF ControlCommand
  <2> HIDE DEF a
  <2>3. Disjoint(runnable)' /\ \A b \in Attempts : ScheduledAt(b)'
    BY <1>1, <2>2, DisposalWorking
  <2> QED BY <1>1, <2>1, <2>3 DEF Working, InHand, Lifeless
<1> QED BY <1>2, <1>3

LEMMA WorkWorking ==
  ASSUME TypeOK, Placed, Channelled, Working, WorkCommand
  PROVE  Working'
<1>1. worker = "running" /\ turn = "work" /\ turn' = turn /\ hand' = hand
      /\ worker' = worker /\ work # <<>> /\ hand = NoHand
  BY DEF WorkCommand, Working, InHand
<1>2. CASE UNCHANGED engine
  BY <1>1, <1>2
  DEF engine, Working, InHand, Lifeless, ScheduledAt, Disjoint, Members
<1>3. ASSUME NEW a \in Attempts,
             subs' = [subs EXCEPT ![a] =
                       [phase |-> "scanning", left |-> Quanta, owed |-> TRUE]],
             allocator' = Scheduled(allocator, a),
             runnable' = Scheduled(runnable, a)
      PROVE  Working'
  <2>1. allocator \in Queue /\ runnable \in Queue /\ Disjoint(runnable)
        /\ subs \in [Attempts -> Subs]
    BY TypeParts DEF QueueTypes, Working
  <2>2. /\ Disjoint(runnable')
        /\ Members(runnable') = Members(runnable) \union {a}
        /\ Members(allocator') = Members(allocator) \union {a}
    BY <1>3, <2>1, Scheduling
  <2>3. /\ subs'[a].phase = "scanning"
        /\ \A b \in Attempts \ {a} : subs'[b] = subs[b]
    BY <1>3, <2>1
  <2>4. ScheduledAt(a)'
    BY <2>2, <2>3 DEF ScheduledAt, NeedsTurns, Members
  <2>5. ASSUME NEW b \in Attempts \ {a}
        PROVE  ScheduledAt(b)'
    <3>1. Kept(b)
      BY <1>1, <2>2, <2>3 DEF Kept, Members
    <3> QED BY <3>1, ScheduledStill DEF Working
  <2>6. Disjoint(runnable)' /\ \A b \in Attempts : ScheduledAt(b)'
    BY <2>2, <2>4, <2>5 DEF Disjoint, Members
  <2> QED BY <1>1, <2>6 DEF Working, InHand, Lifeless
<1> QED BY <1>1, <1>2, <1>3, FirstWork DEF WorkCommand

LEMMA PromotionWorking ==
  ASSUME TypeOK, Working, PromotionTurn
  PROVE  Working'
<1> DEFINE round == Turned(allocator)
           live == {a \in round.current : subs[a].phase # "none"}
<1>1. worker = "running" /\ worker' = worker
  BY NoPanicInPromotion DEF PromotionTurn
<1>2. /\ allocator' = [current |-> {}, next |-> round.next \union live]
      /\ turn' = "topology" /\ turn = "promotion" /\ hand = NoHand
      /\ UNCHANGED <<control, work, hand, subs, runnable>>
  BY <1>1 DEF PromotionTurn, Panic, Working, InHand, channels
<1>3. round \in Queue /\ Members(round) = Members(allocator)
  BY Turning, TypeParts DEF QueueTypes
<1> HIDE DEF round
<1>4. /\ Members(allocator') \subseteq Members(allocator)
      /\ \A b \in Members(allocator) :
           subs[b].phase # "none" => b \in Members(allocator')
  BY <1>2, <1>3 DEF Members, Queue
<1>5. \A b \in Attempts : ScheduledAt(b)'
  BY <1>2, <1>4 DEF Working, ScheduledAt, NeedsTurns, Members
<1> QED BY <1>1, <1>2, <1>5 DEF Working, InHand, Lifeless, Disjoint

\* What is first in the queue needs its turn.
LEMMA IdleWorking ==
  ASSUME TypeOK, Working, IdleTopologyTurn
  PROVE  Working'
<1>1. Members(runnable) = {}
  <2>1. SUFFICES ASSUME Members(runnable) # {} PROVE FALSE
    OBVIOUS
  <2>2. /\ FirstOf(runnable) \in Attempts
        /\ FirstOf(runnable) \in Members(runnable)
    BY <2>1, Popping, TypeParts DEF QueueTypes
  <2>3. subs[FirstOf(runnable)].phase \in NeedsTurns
    BY <2>2 DEF Working, ScheduledAt
  <2> QED BY <2>1, <2>3 DEF IdleTopologyTurn, NeedsTurns
<1>2. worker = "running" /\ turn = "topology" /\ turn' = "control"
      /\ UNCHANGED <<worker, control, work, hand, subs, allocator, runnable>>
  BY <1>1 DEF IdleTopologyTurn, TurnEnds, channels
<1> QED BY <1>2 DEF Working, InHand, Lifeless, ScheduledAt, Disjoint, Members

\* With no subscription left nothing is scheduled.
LEMMA StoppedWorking ==
  ASSUME TypeOK, Placed, Leased, Channelled, Working,
         ShutdownAllocator \/ Stop
  PROVE  Working'
<1>1. worker = "shutting" /\ hand = NoHand /\ turn # "commit" /\ control = <<>>
  BY DEF ShutdownAllocator, Stop, Working, InHand, Lifeless
<1>2. work = <<>> /\ \A a \in Attempts : subs[a] = NoSub
  BY <1>1, WorkerStops, ShuttingIsEmpty
<1>3. CASE Panic
  <2>1. /\ Members(allocator') = {} /\ Members(runnable') = {}
        /\ Disjoint(runnable') /\ control' = <<>> /\ work' = <<>>
        /\ worker' = "panicked" /\ hand' = hand /\ turn' = turn
        /\ \A a \in Attempts : subs'[a].phase = "none"
    BY <1>3 DEF Panic, EmptyQueue, Members, Disjoint, NoSub
  <2>2. \A a \in Attempts : ScheduledAt(a)'
    BY <2>1 DEF ScheduledAt, NeedsTurns, Members
  <2> QED BY <1>1, <2>1, <2>2 DEF Working, InHand, Lifeless, Disjoint, Members
<1>4. CASE Stop /\ ~Panic
  BY <1>1, <1>2, <1>4
  DEF Stop, engine, channels, Working, InHand, Lifeless, ScheduledAt, Disjoint,
      Members
<1>5. CASE ShutdownAllocator /\ ~Panic
  <2>1. FirstOf(allocator) \in Attempts
    BY <1>5, Popping, TypeParts DEF ShutdownAllocator, QueueTypes
  <2>2. subs[FirstOf(allocator)].phase = "none"
    BY <1>2, <2>1 DEF NoSub
  <2> QED BY <1>5, <2>2 DEF ShutdownAllocator
<1> QED BY <1>3, <1>4, <1>5

LEMMA WorkingKept ==
  ASSUME TypeOK, Placed, Leased, Channelled, Working, [Next]_vars
  PROVE  Working'
<1>1. CASE UNCHANGED vars
  BY <1>1
  DEF vars, engine, channels, Working, InHand, Lifeless, ScheduledAt, Disjoint,
      Members
<1>2. CASE ControlTurnEnds \/ WorkTurnEnds
  BY <1>2
  DEF ControlTurnEnds, WorkTurnEnds, engine, channels, Working, InHand,
      Lifeless, ScheduledAt, Disjoint, Members
<1> QED BY <1>1, <1>2, ThreadsWorking, TurnsWorking, ControlWorking,
           WorkWorking, PromotionWorking, IdleWorking, StoppedWorking
    DEF Next, WorkerStep

-----------------------------------------------------------------------------
(* The token is decided once.                                              *)

Cancelling == {"cancel-requested-unbound", "cancel-requested-bound",
               "cancelled"}

\* u is a token that t may become.
Decides(t, u) ==
  /\ t \in Cancelling => u \in Cancelling
  /\ t \in Terminal => u = t

LEMMA TokensDecide ==
  ASSUME NEW t
  PROVE  /\ Decides(t, t) /\ Decides(t, RequestedCancel(t))
         /\ Decides(t, CommittedFailure(t)) /\ Decides(t, AfterFinish(t))
         /\ Decides(t, AfterFailure(t)) /\ Decides("created", "bound")
         /\ Decides("cancel-requested-unbound", "cancelled")
         /\ Decides("bound", "failed") /\ Decides("bound", "succeeded")
BY DEF Decides, Cancelling, Terminal, RequestedCancel, CommittedFailure,
       AfterFinish, AfterFailure

LEMMA ThreadsDecide ==
  ASSUME TypeOK, NEW a \in Attempts,
         Cancel(a) \/ DropPending(a) \/ Dispose(a) \/ Thread(a)
  PROVE  Decides(token[a], token'[a])
<1>1. token \in [Attempts -> Tokens]
  BY TypeParts DEF CallerTypes
<1>2. CASE Bind(a)
  BY <1>1, <1>2, TokensDecide DEF Bind
<1>3. CASE ~Bind(a)
  <2>1. \/ token' = token
        \/ token' = [token EXCEPT ![a] = RequestedCancel(@)]
        \/ token' = [token EXCEPT ![a] = AfterFinish(@)]
        \/ token' = [token EXCEPT ![a] = AfterFailure(@)]
    BY <1>3 DEF Cancel, DropPending, Dispose, Thread, Resolve, AcquireRuntime,
       AcquireFails, Admit, SendSubscribe, Answered, DisposalAcknowledged,
       ReleaseRuntime, SendShutdown, Join
  <2> QED BY <1>1, <2>1, TokensDecide
<1> QED BY <1>2, <1>3

LEMMA TurnsDecide ==
  ASSUME TypeOK, NEW a \in Attempts, Turn(a)
  PROVE  Decides(token[a], token'[a])
<1>1. token \in [Attempts -> Tokens]
  BY TypeParts DEF CallerTypes
<1>2. CASE TeardownTurn(a) \/ DisposalTurn(a)
  <2>1. \/ token' = token
        \/ token' = [token EXCEPT ![a] = AfterFinish(@)]
        \/ token' = [token EXCEPT ![a] = @]
    BY <1>2 DEF TeardownTurn, DisposalTurn, TeardownQuantum, TakeDown
  <2> QED BY <1>1, <2>1, TokensDecide
<1>3. CASE AbandonScan(a) \/ CommitFails(a)
  <2>1. \/ token' = [token EXCEPT ![a] = CommittedFailure(@)]
        \/ token' = [token EXCEPT ![a] = AfterFailure(@)]
    BY <1>3 DEF AbandonScan, CommitFails, TeardownQuantum, TakeDown,
       AfterFailure
  <2> QED BY <1>1, <2>1, TokensDecide
<1>4. CASE ScanTurn(a) \/ ValidateRoot(a) \/ CommitSuccess(a)
  BY <1>1, <1>4, TokensDecide DEF ScanTurn, ValidateRoot, CommitSuccess
<1> QED BY <1>2, <1>3, <1>4 DEF Turn

LEMMA EverythingDecides ==
  ASSUME IInv, [Next]_vars
  PROVE  \A a \in Attempts : Decides(token[a], token'[a])
<1> USE DEF IInv
<1>1. token \in [Attempts -> Tokens]
  BY TypeParts DEF CallerTypes
<1>2. CASE token' = token
  BY <1>2, TokensDecide
<1>3. ASSUME NEW a \in Attempts, Only(a), Decides(token[a], token'[a])
      PROVE  \A b \in Attempts : Decides(token[b], token'[b])
  BY <1>3, TokensDecide DEF Only, Same
<1>4. ASSUME NEW a \in Attempts,
             \/ Cancel(a) \/ DropPending(a) \/ Dispose(a) \/ Thread(a)
             \/ Turn(a)
      PROVE  \A b \in Attempts : Decides(token[b], token'[b])
  BY <1>3, <1>4, ThreadsDecide, ThreadsAreApart, TurnsDecide, TurnsAreApart
<1>5. ASSUME NEW a \in Attempts, BeginDisposal(a)
      PROVE  \A b \in Attempts : Decides(token[b], token'[b])
  BY <1>1, <1>5, TokensDecide DEF BeginDisposal
<1>6. CASE ControlCommand
  <2>1. token' = token \/ (BeginDisposal(Head(control).of) /\ control # <<>>)
    BY <1>6 DEF ControlCommand
  <2>2. control # <<>> => Head(control).of \in Attempts
    BY FirstCommand DEF Commands
  <2> QED BY <1>2, <1>5, <2>1, <2>2
<1>7. CASE WorkCommand
  <2>1. token' = token
        \/ /\ token' = [token EXCEPT ![Head(work)] =
                          AfterFinish(AfterFailure(token[Head(work)]))]
           /\ work # <<>>
    BY <1>7 DEF WorkCommand, TakeDown
  <2>2. work # <<>> => Head(work) \in Attempts
    BY FirstWork
  <2>3. \A t : AfterFinish(AfterFailure(t)) = AfterFailure(t)
    BY DEF AfterFinish, AfterFailure
  <2> QED BY <1>1, <1>2, <2>1, <2>2, <2>3, TokensDecide
<1>8. CASE ShutdownAllocator
  <2>1. token' = token \/ BeginDisposal(FirstOf(allocator))
    BY <1>8 DEF ShutdownAllocator, Panic
  <2>2. FirstOf(allocator) \in Attempts
    BY <1>8, Popping, TypeParts DEF ShutdownAllocator, QueueTypes
  <2> QED BY <1>2, <1>5, <2>1, <2>2
<1>9. CASE \/ UNCHANGED vars \/ ControlTurnEnds \/ WorkTurnEnds
           \/ PromotionTurn \/ IdleTopologyTurn \/ Stop
  BY <1>2, <1>9 DEF vars, ControlTurnEnds, WorkTurnEnds, PromotionTurn, Panic,
     IdleTopologyTurn, Stop
<1> QED BY <1>4, <1>6, <1>7, <1>8, <1>9 DEF Next, WorkerStep

-----------------------------------------------------------------------------
(* The theorems.                                                           *)

LEMMA InitHolds ==
  ASSUME Init
  PROVE  IInv
<1>1. TypeOK
  <2>1. CallerTypes /\ RuntimeTypes /\ ReplyTypes /\ WorkerTypes
    BY DEF Init, CallerTypes, RuntimeTypes, ReplyTypes, Answers, WorkerTypes,
       Tokens, Stages, Outcomes, NoHand, Hands
  <2>2. ChannelTypes
    BY ConstantsAssumption, EmptySeq DEF Init, ChannelTypes
  <2>3. QueueTypes
    BY ConstantsAssumption
    DEF Init, QueueTypes, NoSub, Subs, EmptyQueue, Queue
  <2> QED BY <2>1, <2>2, <2>3, TypeParts
<1>2. Placed
  BY DEF Init, Placed, PlacedAt, Unread, NoSub, Finished
<1>3. Channelled
  BY EmptySeq DEF Init, Channelled
<1>4. Leased
  <2>1. Holders = {}
    BY DEF Init, Holders, HoldsLease
  <2>2. Counted
    BY <2>1, FS_EmptySet DEF Init, Counted
  <2>3. Registry
    BY ConstantsAssumption DEF Init, Registry
  <2> QED BY <2>2, <2>3 DEF Leased
<1>5. Working
  BY DEF Init, Working, Disjoint, ScheduledAt, Members, EmptyQueue, NoSub,
         NeedsTurns, InHand, Lifeless
<1> QED BY <1>1, <1>2, <1>3, <1>4, <1>5 DEF IInv

LEMMA AlwaysIInv == Spec => []IInv
<1>1. ASSUME IInv, [Next]_vars
      PROVE  IInv'
  BY <1>1, Typing, PlacedKept, ChannelledKept, LeasedKept, WorkingKept DEF IInv
<1> QED BY <1>1, InitHolds, PTL DEF Spec

\* Every variable of the attempts, the registry, the channels and the worker
\* keeps its type.
THEOREM TypesHold == Spec => []TypeOK
<1>1. IInv => TypeOK
  BY DEF IInv
<1> QED BY <1>1, AlwaysIInv, PTL

\* The caller and the token agree on one outcome, whoever of the canceller and
\* the worker was first (try_commit_success, request_cancel).
THEOREM OutcomesAgree == Spec => []OneOutcome
<1>1. IInv => OneOutcome
  BY DEF IInv, OneOutcome, Ended, Placed, PlacedAt, Finished, Settled, Terminal
<1> QED BY <1>1, AlwaysIInv, PTL

\* The leases are those who hold one, and the worker runs for as long as there
\* is one (acquire_runtime, release_runtime).
THEOREM LeasesAreCounted == Spec => []LeasesCounted
<1>1. IInv => LeasesCounted
  <2> SUFFICES ASSUME IInv PROVE LeasesCounted
    OBVIOUS
  <2>1. leases = Cardinality({a \in Attempts : HoldsLease(a)})
    BY DEF IInv, Leased, Counted, Holders
  <2>2. lock \in Attempts \union {None}
    BY DEF IInv, TypeOK
  <2> QED BY <2>1, <2>2 DEF IInv, Leased, Registry, LeasesCounted
<1> QED BY <1>1, AlwaysIInv, PTL

\* Nobody who was refused or has disposed of a subscription leaves one in the
\* worker, and whoever has one finds it there.
THEOREM NobodyOrphaned == Spec => []NoOrphans
<1>1. IInv => NoOrphans
  <2> SUFFICES ASSUME IInv, NEW a \in Attempts
               PROVE  /\ subs[a].phase \in {"scanning", "tearing"} =>
                           at[a] = "pending" /\ answer[a] = "none"
                      /\ subs[a].phase = "live" =>
                           at[a] \in {"pending", "established", "disposing"}
                      /\ at[a] = "established" => subs[a].phase = "live"
                      /\ at[a] \in Finished => subs[a].phase = "none"
                                               /\ a \notin Members(runnable)
    BY DEF NoOrphans, Finished
  <2>1. PlacedAt(a) /\ ScheduledAt(a) /\ at[a] \in Stages
    BY DEF IInv, Placed, Working, TypeOK
  <2> QED BY <2>1
      DEF PlacedAt, WaitingFor, Unread, ScheduledAt, NeedsTurns, Finished,
          Stages
<1> QED BY <1>1, AlwaysIInv, PTL

\* Whatever still needs a turn of the worker gets one, and the allocator knows
\* every subscription that is not yet being disposed of.
THEOREM EverybodyIsScheduled == Spec => []EverybodyScheduled
<1>1. IInv => EverybodyScheduled
  BY DEF IInv, Working, ScheduledAt, NeedsTurns, EverybodyScheduled
<1> QED BY <1>1, AlwaysIInv, PTL

\* A worker that stopped in order has nothing left, which the assertions at the
\* end of Worker::run insist on.
THEOREM NothingIsLeft == Spec => []StoppedIsEmpty
<1>1. IInv => StoppedIsEmpty
  <2> SUFFICES ASSUME IInv, worker = "stopped" PROVE StoppedIsEmpty
    BY DEF StoppedIsEmpty
  <2>1. \A a \in Attempts : subs[a] = NoSub
    BY WorkerStops, ShuttingIsEmpty DEF IInv
  <2>2. turn # "commit" /\ hand = NoHand
    BY DEF IInv, Working, InHand
  <2> QED BY <2>1, <2>2 DEF IInv, Working, Lifeless, StoppedIsEmpty
<1> QED BY <1>1, AlwaysIInv, PTL

\* In a debug build the shutdown's "allocator membership must name a live
\* subscription" (linux.rs:4411) holds, because the removals that stand inside
\* debug_assert! are made; the release build panics there.
THEOREM DebugBuildNeverPanics ==
  ASSUME DebugAssertions
  PROVE  Spec => []WorkerNeverPanics
<1>1. Init => WorkerNeverPanics
  BY DEF Init, WorkerNeverPanics
<1>2. ASSUME IInv, WorkerNeverPanics, [Next]_vars
      PROVE  WorkerNeverPanics'
  <2>1. CASE UNCHANGED vars
    BY <1>2, <2>1 DEF vars, WorkerNeverPanics
  <2>2. ASSUME ThreadStep
        PROVE  worker' \in {worker, "running", "none"}
    BY <2>2 DEF ThreadStep, Thread, Cancel, Bind, Resolve, AcquireRuntime,
       AcquireFails, Admit, SendSubscribe, DropPending, Answered, Dispose,
       DisposalAcknowledged, ReleaseRuntime, SendShutdown, Join
  <2>3. CASE WorkerStep /\ worker # "shutting"
    BY <1>2, <2>3, WorkerMoves DEF IInv, WorkerNeverPanics
  <2>4. ASSUME WorkerStep, worker = "shutting"
        PROVE  WorkerNeverPanics'
    <3>1. \A a \in Attempts : subs[a].phase = "none"
      BY <1>2, <2>4, WorkerStops, ShuttingIsEmpty DEF IInv, NoSub
    <3>2. Members(allocator) = {}
      BY <1>2, <3>1, TypeParts
      DEF IInv, Working, ScheduledAt, QueueTypes, Queue, Members
    <3>3. ~ShutdownAllocator
      BY <3>2 DEF ShutdownAllocator
    <3>4. Stop => worker' = "stopped"
      BY <3>1 DEF Stop
    <3>5. ~Stop => worker' = worker
      BY <2>4, <3>3 DEF WorkerStep, ControlCommand, ControlTurnEnds,
         WorkCommand, WorkTurnEnds, PromotionTurn, IdleTopologyTurn, Turn,
         TeardownTurn, AbandonScan, TeardownQuantum, ScanTurn, ValidateRoot,
         CommitSuccess, CommitFails, DisposalTurn
    <3> QED BY <2>4, <3>4, <3>5 DEF WorkerNeverPanics
  <2> QED BY <1>2, <2>1, <2>2, <2>3, <2>4
      DEF Next, ThreadStep, WorkerNeverPanics
<1> QED BY <1>1, <1>2, AlwaysIInv, PTL DEF Spec

\* Around failures, cancellations and the last lease nothing is left over, goes
\* missing or is forgotten.
THEOREM NothingIsLeftBehind == Spec => []NothingLeftBehind
BY NobodyOrphaned, EverybodyIsScheduled, NothingIsLeft, PTL
   DEF NothingLeftBehind

\* A token once cancelled never commits success, and is decided only once
\* (EstablishmentCancellationState, whose transitions are compare-and-swaps);
\* what it was decided to be is what the caller was told.
THEOREM TokensAreDecidedOnce == Spec => DecidedOnce
<1>1. IInv /\ [Next]_vars => TokensKept
  BY EverythingDecides DEF Decides, Cancelling, CancelRequested, TokensKept
<1>2. (IInv /\ [Next]_vars) /\ OneOutcome' => [TokensKept /\ OneOutcome']_vars
  BY <1>1
<1> QED BY <1>2, AlwaysIInv, OutcomesAgree, PTL DEF Spec, DecidedOnce

=============================================================================
