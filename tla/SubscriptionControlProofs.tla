--------------------- MODULE SubscriptionControlProofs ---------------------
(***************************************************************************)
(* Theorems about SubscriptionControl, for any number of threads, any      *)
(* capacity of the control channel and any number of calls.                *)
(*                                                                         *)
(* The inductive invariant says who may be where (Exclusive), what the     *)
(* channel, the worker and the acknowledgements hold for whoever waits     *)
(* (Ordered), and which call still has a committed generation to publish   *)
(* (Unpublished).                                                          *)
(***************************************************************************)
EXTENDS SubscriptionControl, SequenceTheorems, TLAPS

Commands == [kind : {"transaction", "dispose"}, of : Threads, generation : Nat]

\* One call holds the gate, one thread the mutex, one thread disposes.
Exclusive ==
  /\ \A t \in Threads : at[t] \in InCall => gate
  /\ \A t, u \in Threads : at[t] \in InCall /\ at[u] \in InCall => t = u
  /\ \A t \in Threads : at[t] \in Holding <=> lock = t
  /\ \A t \in Threads : at[t] = "sending" => lifecycle = "active"
  /\ \A t \in Threads : at[t] \in InDisposal => lifecycle = "disposing"
  /\ \A t, u \in Threads : at[t] \in InDisposal /\ at[u] \in InDisposal => t = u

\* The thread whose transaction is on the channel, or in the worker's hands.
Waits(t) == at[t] = "waiting" /\ answer[t] = "none"

\* At most one transaction is on the channel, in front; then nothing runs.
Transactions ==
  \A i \in 1..Len(control) :
    control[i].kind = "transaction" =>
      /\ i = 1
      /\ Waits(control[i].of)
      /\ control[i].generation = asked[control[i].of]
      /\ worker.running = None

\* At most one dispose is on the channel, at its end.
Disposals ==
  \A i \in 1..Len(control) :
    control[i].kind = "dispose" =>
      /\ i = Len(control)
      /\ at[control[i].of] = "disposing" /\ answer[control[i].of] = "none"

\* Nobody is answered before its command is sent.
Unanswered ==
  \A t \in Threads :
    at[t] \in {"gated", "sending", "requesting"} => answer[t] = "none"

\* The thread of a running transaction waits for it.
Running ==
  worker.running # None =>
    /\ Waits(worker.running)
    /\ asked[worker.running] > 0 => asked[worker.running] > worker.generation

\* Once disposal began in the worker, nothing follows.
Gone ==
  worker.phase # "live" =>
    /\ control = <<>> /\ worker.running = None
    /\ lifecycle # "active"
    /\ \A t \in Threads : at[t] # "requesting"

Ordered == Transactions /\ Disposals /\ Unanswered /\ Running /\ Gone

\* A replacement was committed, and its thread has not published it yet.
Unpublished(t) ==
  \/ at[t] = "publishing"
  \/ at[t] = "waiting" /\ answer[t] = "ok" /\ asked[t] > 0

Current ==
  /\ \A t \in Threads : Unpublished(t) =>
       asked[t] = worker.generation /\ published <= worker.generation
  /\ (\A t \in Threads : ~Unpublished(t)) => published = worker.generation

IInv == TypeOK /\ Exclusive /\ Ordered /\ Current

----------------------------------------------------------------------------

\* Every command on the channel names the thread that waits for its answer.
LEMMA OnChannel ==
  ASSUME TypeOK
  PROVE  /\ control \in Seq(Commands) /\ Len(control) \in Nat
         /\ \A i \in 1..Len(control) :
              /\ control[i].kind \in {"transaction", "dispose"}
              /\ control[i].of \in Threads /\ control[i].generation \in Nat
<1>1. control \in Seq(Commands) /\ Len(control) \in Nat
  BY DEF TypeOK, Commands
<1>2. \A i \in 1..Len(control) : control[i] \in Commands
  BY <1>1, ElementOfSeq
<1> QED BY <1>1, <1>2 DEF Commands

\* The command the worker takes, and what it leaves on the channel.
LEMMA FirstCommand ==
  ASSUME TypeOK, control # <<>>
  PROVE  /\ 1 \in 1..Len(control)
         /\ Head(control) = control[1] /\ Head(control) \in Commands
         /\ Tail(control) \in Seq(Commands)
         /\ Len(Tail(control)) = Len(control) - 1
         /\ \A i \in 1..Len(Tail(control)) : Tail(control)[i] = control[i + 1]
<1> QED BY OnChannel, HeadTailProperties

LEMMA Typing ==
  ASSUME TypeOK, [Next]_vars
  PROVE  TypeOK'
<1>1. ASSUME NEW t \in Threads, NEW g \in 0..MaxGeneration, Begin(t, g)
      PROVE  TypeOK'
  BY <1>1 DEF Begin, Move, TypeOK, Stages, InCall, Answers
<1>2. ASSUME NEW t \in Threads, Refused(t)
      PROVE  TypeOK'
  BY <1>2 DEF Refused, Move, TypeOK, Stages, InCall
<1>3. ASSUME NEW t \in Threads, Admitted(t)
      PROVE  TypeOK'
  BY <1>3 DEF Admitted, Move, TypeOK, Stages, InCall
<1>4. ASSUME NEW t \in Threads, Send(t)
      PROVE  TypeOK'
  BY <1>4, BoundsAssumption DEF Send, Move, Transaction, TypeOK, Stages, InCall
<1>5. ASSUME NEW t \in Threads, Answered(t)
      PROVE  TypeOK'
  BY <1>5 DEF Answered, Move, TypeOK, Stages, InCall
<1>6. ASSUME NEW t \in Threads, Publish(t)
      PROVE  TypeOK'
  BY <1>6 DEF Publish, Move, TypeOK, Stages, InCall
<1>7. ASSUME NEW t \in Threads, Leave(t)
      PROVE  TypeOK'
  BY <1>7 DEF Leave, Move, TypeOK, Stages
<1>8. ASSUME NEW t \in Threads, Notify(t)
      PROVE  TypeOK'
  BY <1>8 DEF Notify, TypeOK, Stages, InDisposal
<1>9. ASSUME NEW t \in Threads, BeginDispose(t)
      PROVE  TypeOK'
  BY <1>9 DEF BeginDispose, Move, TypeOK, Stages, InDisposal, Answers
<1>10. ASSUME NEW t \in Threads, JoinDisposal(t)
      PROVE  TypeOK'
  BY <1>10 DEF JoinDisposal, Move, TypeOK, Stages
<1>11. ASSUME NEW t \in Threads, Rejoin(t)
      PROVE  TypeOK'
  BY <1>11 DEF Rejoin, Move, TypeOK, Stages
<1>12. ASSUME NEW t \in Threads, RequestDisposal(t)
      PROVE  TypeOK'
  BY <1>12, BoundsAssumption DEF RequestDisposal, Move, Disposal, TypeOK,
       Stages, InDisposal
<1>13. ASSUME NEW t \in Threads, DisposalAcknowledged(t)
      PROVE  TypeOK'
  BY <1>13 DEF DisposalAcknowledged, Move, TypeOK, Stages, InDisposal
<1>14. ASSUME NEW t \in Threads, Relock(t)
      PROVE  TypeOK'
  BY <1>14 DEF Relock, Move, TypeOK, Stages, InDisposal
<1>15. ASSUME NEW t \in Threads, SeesGate(t)
      PROVE  TypeOK'
  BY <1>15 DEF SeesGate, Move, TypeOK, Stages, InDisposal
<1>16. ASSUME NEW t \in Threads, Park(t)
      PROVE  TypeOK'
  BY <1>16 DEF Park, Move, TypeOK, Stages, InDisposal
<1>17. ASSUME NEW t \in Threads, Disposed(t)
      PROVE  TypeOK'
  BY <1>17 DEF Disposed, TypeOK, Stages
<1>18. ASSUME NEW t \in Threads, SpuriousWakeup(t)
      PROVE  TypeOK'
  BY <1>18 DEF SpuriousWakeup, Move, TypeOK, Stages, InDisposal
<1>19. CASE Accept
  <2>1. Head(control) \in Commands /\ Tail(control) \in Seq(Commands)
        /\ Len(Tail(control)) <= Capacity
    BY <1>19, FirstCommand, OnChannel, BoundsAssumption DEF Accept,
         TransactionNext, TypeOK
  <2>2. worker' \in [phase : {"live", "disposing", "gone"},
                    running : Threads \cup {None}, generation : Nat]
    BY <1>19, <2>1 DEF Accept, TypeOK, Commands
  <2> QED BY <1>19, <2>1, <2>2 DEF Accept, TypeOK, Commands
<1>20. CASE Reject
  BY <1>20, FirstCommand, BoundsAssumption DEF Reject, Commands, Answer,
       TransactionNext, TypeOK, Answers
<1>21. ASSUME NEW result \in {"ok", "failed"}, End(result)
      PROVE  TypeOK'
  BY <1>21 DEF End, Answer, TypeOK, Answers
<1>22. CASE HandleDispose
  <2>1. Tail(control) \in Seq(Commands) /\ Len(Tail(control)) <= Capacity
    BY <1>22, FirstCommand, OnChannel, BoundsAssumption DEF HandleDispose,
         TypeOK
  <2>2. worker' \in [phase : {"live", "disposing", "gone"},
                    running : Threads \cup {None}, generation : Nat]
    BY <1>22 DEF HandleDispose, TypeOK
  <2>3. answer' \in [Threads -> Answers]
    BY <1>22 DEF HandleDispose, Answer, TypeOK, Answers
  <2> QED BY <1>22, <2>1, <2>2, <2>3 DEF HandleDispose, TypeOK, Commands
<1>23. CASE CompleteDisposal
  BY <1>23 DEF CompleteDisposal, Answer, TypeOK, Answers
<1>24. CASE UNCHANGED vars
  BY <1>24 DEF vars, TypeOK
<1> QED BY <1>1, <1>2, <1>3, <1>4, <1>5, <1>6, <1>7, <1>8, <1>9, <1>10, <1>11,
     <1>12, <1>13, <1>14, <1>15, <1>16, <1>17, <1>18, <1>19, <1>20, <1>21,
     <1>22, <1>23, <1>24
  DEF Next, Call, Step, Acquire, Worker

LEMMA ExclusiveKept ==
  ASSUME TypeOK, Exclusive, [Next]_vars
  PROVE  Exclusive'
<1>1. ASSUME NEW t \in Threads, NEW g \in 0..MaxGeneration, Begin(t, g)
      PROVE  Exclusive'
  BY <1>1 DEF Begin, Move, Exclusive, InDisposal, Holding
<1>2. ASSUME NEW t \in Threads, Refused(t)
      PROVE  Exclusive'
  BY <1>2 DEF Refused, Move, Exclusive, InCall, InDisposal, Holding
<1>3. ASSUME NEW t \in Threads, Admitted(t)
      PROVE  Exclusive'
  BY <1>3 DEF Admitted, Move, Exclusive, TypeOK, InCall, InDisposal, Holding
<1>4. ASSUME NEW t \in Threads, Send(t)
      PROVE  Exclusive'
  BY <1>4, ThreadsAssumption DEF Send, Move, Exclusive, TypeOK, InCall,
       InDisposal, Holding
<1>5. ASSUME NEW t \in Threads, Answered(t)
      PROVE  Exclusive'
  BY <1>5 DEF Answered, Move, Exclusive, InCall, InDisposal, Holding
<1>6. ASSUME NEW t \in Threads, Publish(t)
      PROVE  Exclusive'
  BY <1>6 DEF Publish, Move, Exclusive, InCall, InDisposal, Holding
<1>7. ASSUME NEW t \in Threads, Leave(t)
      PROVE  Exclusive'
  BY <1>7 DEF Leave, Move, Exclusive, TypeOK, InCall, InDisposal, Holding
<1>8. ASSUME NEW t \in Threads, Notify(t)
      PROVE  Exclusive'
  BY <1>8 DEF Notify, Exclusive, InCall, InDisposal, Holding
<1>9. ASSUME NEW t \in Threads, BeginDispose(t)
      PROVE  Exclusive'
  BY <1>9, ThreadsAssumption DEF BeginDispose, Move, Exclusive, InCall, Holding
<1>10. ASSUME NEW t \in Threads, JoinDisposal(t)
      PROVE  Exclusive'
  BY <1>10 DEF JoinDisposal, Move, Exclusive, InCall, InDisposal, Holding
<1>11. ASSUME NEW t \in Threads, Rejoin(t)
      PROVE  Exclusive'
  BY <1>11 DEF Rejoin, Move, Exclusive, InCall, InDisposal, Holding
<1>12. ASSUME NEW t \in Threads, RequestDisposal(t)
      PROVE  Exclusive'
  BY <1>12 DEF RequestDisposal, Move, Exclusive, InCall, InDisposal, Holding
<1>13. ASSUME NEW t \in Threads, DisposalAcknowledged(t)
      PROVE  Exclusive'
  BY <1>13 DEF DisposalAcknowledged, Move, Exclusive, InCall, InDisposal,
       Holding
<1>14. ASSUME NEW t \in Threads, Relock(t)
      PROVE  Exclusive'
  BY <1>14 DEF Relock, Move, Exclusive, TypeOK, InCall, InDisposal, Holding
<1>15. ASSUME NEW t \in Threads, SeesGate(t)
      PROVE  Exclusive'
  BY <1>15 DEF SeesGate, Move, Exclusive, InCall, InDisposal, Holding
<1>16. ASSUME NEW t \in Threads, Park(t)
      PROVE  Exclusive'
  BY <1>16, ThreadsAssumption DEF Park, Move, Exclusive, TypeOK, InCall,
       InDisposal, Holding
<1>17. ASSUME NEW t \in Threads, Disposed(t)
      PROVE  Exclusive'
  BY <1>17, ThreadsAssumption DEF Disposed, Exclusive, InCall, InDisposal,
       Holding
<1>18. ASSUME NEW t \in Threads, SpuriousWakeup(t)
      PROVE  Exclusive'
  BY <1>18 DEF SpuriousWakeup, Move, Exclusive, InCall, InDisposal, Holding
<1>19. CASE Accept
  BY <1>19 DEF Accept, Exclusive
<1>20. CASE Reject
  BY <1>20 DEF Reject, Exclusive
<1>21. ASSUME NEW result \in {"ok", "failed"}, End(result)
      PROVE  Exclusive'
  BY <1>21 DEF End, Exclusive
<1>22. CASE HandleDispose
  BY <1>22 DEF HandleDispose, Exclusive
<1>23. CASE CompleteDisposal
  BY <1>23 DEF CompleteDisposal, Exclusive
<1>24. CASE UNCHANGED vars
  BY <1>24 DEF vars, Exclusive
<1> QED BY <1>1, <1>2, <1>3, <1>4, <1>5, <1>6, <1>7, <1>8, <1>9, <1>10, <1>11,
     <1>12, <1>13, <1>14, <1>15, <1>16, <1>17, <1>18, <1>19, <1>20, <1>21,
     <1>22, <1>23, <1>24
  DEF Next, Call, Step, Acquire, Worker

LEMMA OrderedKept ==
  ASSUME TypeOK, Exclusive, Ordered, [Next]_vars
  PROVE  Ordered'
<1>1. ASSUME NEW t \in Threads, NEW g \in 0..MaxGeneration, Begin(t, g)
      PROVE  Ordered'
  BY <1>1 DEF Begin, Move, Ordered, Transactions, Disposals, Unanswered,
       Running, Gone, Waits, TypeOK
<1>2. ASSUME NEW t \in Threads, Refused(t)
      PROVE  Ordered'
  BY <1>2 DEF Refused, Move, Ordered, Transactions, Disposals, Unanswered,
       Running, Gone, Waits
<1>3. ASSUME NEW t \in Threads, Admitted(t)
      PROVE  Ordered'
  BY <1>3 DEF Admitted, Move, Ordered, Transactions, Disposals, Unanswered,
       Running, Gone, Waits
<1>4. ASSUME NEW t \in Threads, Send(t)
      PROVE  Ordered'
  <2>1. at[t] = "sending" /\ lifecycle = "active"
    BY <1>4 DEF Send, Exclusive
  <2>2. control = <<>>
    <3>1. SUFFICES ASSUME control # <<>> PROVE FALSE
      OBVIOUS
    <3>2. 1 \in 1..Len(control)
      BY <3>1, FirstCommand
    <3>3. CASE control[1].kind = "transaction"
      BY <2>1, <3>2, <3>3, OnChannel DEF Ordered, Transactions, Waits,
           Exclusive, InCall
    <3>4. CASE control[1].kind = "dispose"
      BY <2>1, <3>2, <3>4, OnChannel DEF Ordered, Disposals, Exclusive,
           InDisposal
    <3> QED BY <3>2, <3>3, <3>4, OnChannel
  <2>3. control' = <<Transaction(t, asked[t])>>
    BY <1>4, <2>2 DEF Send
  <2>4. worker.running = None /\ worker' = worker
    BY <1>4, <2>1 DEF Send, Ordered, Running, Waits, Exclusive, InCall, TypeOK
  <2>5. at'[t] = "waiting" /\ answer'[t] = "none" /\ asked' = asked
    BY <1>4 DEF Send, Move, TypeOK, Ordered, Unanswered
  <2>6. Transactions' /\ Disposals'
    BY <2>3, <2>4, <2>5 DEF Transactions, Disposals, Transaction, Waits
  <2>7. Unanswered' /\ Running' /\ Gone'
    BY <1>4, <2>1, <2>4 DEF Send, Move, Ordered, Unanswered, Running, Gone,
         TypeOK
  <2> QED BY <2>6, <2>7 DEF Ordered
<1>5. ASSUME NEW t \in Threads, Answered(t)
      PROVE  Ordered'
  BY <1>5 DEF Answered, Move, Ordered, Transactions, Disposals, Unanswered,
       Running, Gone, Waits
<1>6. ASSUME NEW t \in Threads, Publish(t)
      PROVE  Ordered'
  BY <1>6 DEF Publish, Move, Ordered, Transactions, Disposals, Unanswered,
       Running, Gone, Waits
<1>7. ASSUME NEW t \in Threads, Leave(t)
      PROVE  Ordered'
  BY <1>7 DEF Leave, Move, Ordered, Transactions, Disposals, Unanswered,
       Running, Gone, Waits
<1>8. ASSUME NEW t \in Threads, Notify(t)
      PROVE  Ordered'
  BY <1>8, OnChannel DEF Notify, Ordered, Transactions, Disposals, Unanswered,
       Running, Gone, Waits, TypeOK
<1>9. ASSUME NEW t \in Threads, BeginDispose(t)
      PROVE  Ordered'
  BY <1>9 DEF BeginDispose, Move, Ordered, Transactions, Disposals,
       Unanswered, Running, Gone, Waits, TypeOK
<1>10. ASSUME NEW t \in Threads, JoinDisposal(t)
      PROVE  Ordered'
  BY <1>10 DEF JoinDisposal, Move, Ordered, Transactions, Disposals,
       Unanswered, Running, Gone, Waits
<1>11. ASSUME NEW t \in Threads, Rejoin(t)
      PROVE  Ordered'
  BY <1>11 DEF Rejoin, Move, Ordered, Transactions, Disposals, Unanswered,
       Running, Gone, Waits
<1>12. ASSUME NEW t \in Threads, RequestDisposal(t)
      PROVE  Ordered'
  BY <1>12, OnChannel, SMTT(30) DEF RequestDisposal, Move, Disposal, Ordered,
       Transactions, Disposals, Unanswered, Running, Gone, Waits, Exclusive,
       TypeOK, InDisposal
<1>13. ASSUME NEW t \in Threads, DisposalAcknowledged(t)
      PROVE  Ordered'
  BY <1>13 DEF DisposalAcknowledged, Move, Ordered, Transactions, Disposals,
       Unanswered, Running, Gone, Waits
<1>14. ASSUME NEW t \in Threads, Relock(t)
      PROVE  Ordered'
  BY <1>14 DEF Relock, Move, Ordered, Transactions, Disposals, Unanswered,
       Running, Gone, Waits
<1>15. ASSUME NEW t \in Threads, SeesGate(t)
      PROVE  Ordered'
  BY <1>15 DEF SeesGate, Move, Ordered, Transactions, Disposals, Unanswered,
       Running, Gone, Waits
<1>16. ASSUME NEW t \in Threads, Park(t)
      PROVE  Ordered'
  BY <1>16 DEF Park, Move, Ordered, Transactions, Disposals, Unanswered,
       Running, Gone, Waits
<1>17. ASSUME NEW t \in Threads, Disposed(t)
      PROVE  Ordered'
  BY <1>17, OnChannel DEF Disposed, Ordered, Transactions, Disposals,
       Unanswered, Running, Gone, Waits, TypeOK
<1>18. ASSUME NEW t \in Threads, SpuriousWakeup(t)
      PROVE  Ordered'
  BY <1>18 DEF SpuriousWakeup, Move, Ordered, Transactions, Disposals,
       Unanswered, Running, Gone, Waits
<1>19. CASE Accept
  <2> DEFINE c == control[1]
  <2>1. 1 \in 1..Len(control) /\ Head(control) = c /\ c.kind = "transaction"
        /\ c.of \in Threads
    BY <1>19, FirstCommand, OnChannel DEF Accept, TransactionNext
  <2>2. Waits(c.of) /\ c.generation = asked[c.of] /\ worker.running = None
    BY <2>1 DEF Ordered, Transactions
  <2>3. worker.phase = "live" /\ (c.generation > 0 => c.generation > worker.generation)
    BY <1>19, <2>1 DEF Accept, Acceptable
  <2>4. worker' = [worker EXCEPT !.running = c.of]
    BY <1>19, <2>1 DEF Accept
  <2>5. worker'.running = c.of /\ worker'.phase = "live"
        /\ worker'.generation = worker.generation
    BY <2>3, <2>4 DEF TypeOK
  <2>6. \A i \in 1..Len(control') : control'[i] = control[i + 1]
        /\ i + 1 \in 1..Len(control)
    BY <1>19, FirstCommand, OnChannel DEF Accept, TransactionNext
  <2>7. Transactions'
    BY <2>6 DEF Ordered, Transactions
  <2>8. Disposals'
    BY <1>19, <2>6, FirstCommand, OnChannel DEF Ordered, Disposals, Accept,
         TransactionNext
  <2>9. Unanswered' /\ Running' /\ Gone'
    BY <1>19, <2>2, <2>3, <2>5 DEF Accept, Ordered, Unanswered, Running, Gone,
         Waits
  <2> QED BY <2>7, <2>8, <2>9 DEF Ordered
<1>20. CASE Reject
  BY <1>20, SMTT(30) DEF Reject, Answer, TransactionNext, Ordered, Transactions,
       Disposals, Unanswered, Running, Gone, Waits, TypeOK
<1>21. ASSUME NEW result \in {"ok", "failed"}, End(result)
      PROVE  Ordered'
  BY <1>21 DEF End, Answer, Ordered, Transactions, Disposals, Unanswered,
       Running, Gone, Waits
<1>22. CASE HandleDispose
  <2> DEFINE c == control[1]
  <2>1. 1 \in 1..Len(control) /\ Head(control) = c /\ c.kind = "dispose"
        /\ c.of \in Threads
    BY <1>22, FirstCommand, OnChannel DEF HandleDispose
  <2>2. 1 = Len(control) /\ at[c.of] = "disposing"
    BY <2>1 DEF Ordered, Disposals
  <2>3. control' = <<>>
    BY <1>22, <2>2, OnChannel DEF HandleDispose
  <2>4. lifecycle = "disposing" /\ \A t \in Threads : at[t] # "requesting"
    BY <2>1, <2>2 DEF Exclusive, InDisposal
  <2>5. worker'.phase = "disposing" /\ worker'.running = None
    BY <1>22 DEF HandleDispose, TypeOK
  <2>6. Transactions' /\ Disposals' /\ Running' /\ Gone'
    BY <1>22, <2>3, <2>4, <2>5 DEF HandleDispose, Transactions, Disposals,
         Running, Gone
  <2>7. Unanswered'
    BY <1>22 DEF HandleDispose, Answer, Ordered, Running, Unanswered, Waits,
         TypeOK
  <2> QED BY <2>6, <2>7 DEF Ordered
<1>23. CASE CompleteDisposal
  BY <1>23 DEF CompleteDisposal, Answer, Ordered, Transactions, Disposals,
       Unanswered, Running, Gone
<1>24. CASE UNCHANGED vars
  BY <1>24 DEF vars, Ordered, Transactions, Disposals, Unanswered, Running,
       Gone, Waits
<1> QED BY <1>1, <1>2, <1>3, <1>4, <1>5, <1>6, <1>7, <1>8, <1>9, <1>10, <1>11,
     <1>12, <1>13, <1>14, <1>15, <1>16, <1>17, <1>18, <1>19, <1>20, <1>21,
     <1>22, <1>23, <1>24
  DEF Next, Call, Step, Acquire, Worker

LEMMA CurrentKept ==
  ASSUME TypeOK, Exclusive, Ordered, Current, [Next]_vars
  PROVE  Current'
<1>1. ASSUME NEW t \in Threads, NEW g \in 0..MaxGeneration, Begin(t, g)
      PROVE  Current'
  BY <1>1 DEF Begin, Move, Current, Unpublished
<1>2. ASSUME NEW t \in Threads, Refused(t)
      PROVE  Current'
  BY <1>2 DEF Refused, Move, Current, Unpublished
<1>3. ASSUME NEW t \in Threads, Admitted(t)
      PROVE  Current'
  BY <1>3 DEF Admitted, Move, Current, Unpublished
<1>4. ASSUME NEW t \in Threads, Send(t)
      PROVE  Current'
  BY <1>4 DEF Send, Move, Current, Unpublished, Ordered, Unanswered
<1>5. ASSUME NEW t \in Threads, Answered(t)
      PROVE  Current'
  BY <1>5 DEF Answered, Move, Current, Unpublished
<1>6. ASSUME NEW t \in Threads, Publish(t)
      PROVE  Current'
  BY <1>6 DEF Publish, Move, Current, Unpublished, TypeOK
<1>7. ASSUME NEW t \in Threads, Leave(t)
      PROVE  Current'
  BY <1>7 DEF Leave, Move, Current, Unpublished
<1>8. ASSUME NEW t \in Threads, Notify(t)
      PROVE  Current'
  BY <1>8 DEF Notify, Current, Unpublished
<1>9. ASSUME NEW t \in Threads, BeginDispose(t)
      PROVE  Current'
  BY <1>9 DEF BeginDispose, Move, Current, Unpublished
<1>10. ASSUME NEW t \in Threads, JoinDisposal(t)
      PROVE  Current'
  BY <1>10 DEF JoinDisposal, Move, Current, Unpublished
<1>11. ASSUME NEW t \in Threads, Rejoin(t)
      PROVE  Current'
  BY <1>11 DEF Rejoin, Move, Current, Unpublished
<1>12. ASSUME NEW t \in Threads, RequestDisposal(t)
      PROVE  Current'
  BY <1>12 DEF RequestDisposal, Move, Current, Unpublished
<1>13. ASSUME NEW t \in Threads, DisposalAcknowledged(t)
      PROVE  Current'
  BY <1>13 DEF DisposalAcknowledged, Move, Current, Unpublished
<1>14. ASSUME NEW t \in Threads, Relock(t)
      PROVE  Current'
  BY <1>14 DEF Relock, Move, Current, Unpublished
<1>15. ASSUME NEW t \in Threads, SeesGate(t)
      PROVE  Current'
  BY <1>15 DEF SeesGate, Move, Current, Unpublished
<1>16. ASSUME NEW t \in Threads, Park(t)
      PROVE  Current'
  BY <1>16 DEF Park, Move, Current, Unpublished
<1>17. ASSUME NEW t \in Threads, Disposed(t)
      PROVE  Current'
  BY <1>17 DEF Disposed, Current, Unpublished
<1>18. ASSUME NEW t \in Threads, SpuriousWakeup(t)
      PROVE  Current'
  BY <1>18 DEF SpuriousWakeup, Move, Current, Unpublished
<1>19. CASE Accept
  BY <1>19 DEF Accept, Current, Unpublished
<1>20. CASE Reject
  BY <1>20 DEF Reject, Answer, TransactionNext, Current, Unpublished, Ordered,
       Transactions, Waits
<1>21. ASSUME NEW result \in {"ok", "failed"}, End(result)
      PROVE  Current'
  BY <1>21 DEF End, Answer, Current, Unpublished, Ordered, Running, Waits,
       Exclusive, TypeOK, InCall
<1>22. CASE HandleDispose
  BY <1>22 DEF HandleDispose, Answer, Current, Unpublished, Ordered, Running,
       TypeOK
<1>23. CASE CompleteDisposal
  BY <1>23 DEF CompleteDisposal, Answer, Current, Unpublished
<1>24. CASE UNCHANGED vars
  BY <1>24 DEF vars, Current, Unpublished
<1> QED BY <1>1, <1>2, <1>3, <1>4, <1>5, <1>6, <1>7, <1>8, <1>9, <1>10, <1>11,
     <1>12, <1>13, <1>14, <1>15, <1>16, <1>17, <1>18, <1>19, <1>20, <1>21,
     <1>22, <1>23, <1>24
  DEF Next, Call, Step, Acquire, Worker

----------------------------------------------------------------------------

LEMMA InitHolds == Init => IInv
<1> SUFFICES ASSUME Init PROVE IInv
  OBVIOUS
<1>1. TypeOK
  <2>1. control \in Seq(Commands) /\ Len(control) <= Capacity
    BY BoundsAssumption, EmptySeq DEF Init
  <2>2. /\ at \in [Threads -> Stages] /\ asked \in [Threads -> Nat]
        /\ answer \in [Threads -> Answers]
    BY DEF Init, Stages, Answers
  <2> QED BY <2>1, <2>2 DEF Init, TypeOK, Commands
<1>2. Exclusive
  BY ThreadsAssumption DEF Init, Exclusive, InCall, InDisposal, Holding
<1>3. Ordered /\ Current
  BY DEF Init, Ordered, Transactions, Disposals, Unanswered, Running, Gone,
         Current, Unpublished
<1> QED BY <1>1, <1>2, <1>3 DEF IInv

LEMMA NextHolds == IInv /\ [Next]_vars => IInv'
BY Typing, ExclusiveKept, OrderedKept, CurrentKept DEF IInv

LEMMA AlwaysIInv == Spec => []IInv
BY InitHolds, NextHolds, PTL DEF Spec

\* The control block keeps its types, whatever the threads do.
THEOREM TypesHold == Spec => []TypeOK
BY AlwaysIInv, PTL DEF IInv

\* Because the gate is kept until the worker has answered, the worker never
\* meets a transaction while another one of the subscription runs.
THEOREM NoConflict == Spec => []NeverInConflict
<1>1. IInv => NeverInConflict
  BY FirstCommand DEF IInv, NeverInConflict, TransactionNext, Ordered,
       Transactions
<1> QED BY <1>1, AlwaysIInv, PTL

\* Because commands are sent under the lifecycle mutex, none follows the dispose
\* command: the worker answers every transaction before the subscription goes.
THEOREM QuietAfterDisposal == Spec => []ClosedIsQuiet
<1>1. IInv => ClosedIsQuiet
  BY DEF IInv, ClosedIsQuiet, Ordered, Gone
<1> QED BY <1>1, AlwaysIInv, PTL

\* When no call holds the gate, the generation the handles return is the one the
\* worker last committed.
THEOREM PublishedIsCommitted == Spec => []GenerationsAgree
<1>1. IInv => GenerationsAgree
  BY DEF IInv, GenerationsAgree, Exclusive, Current, Unpublished, InCall
<1> QED BY <1>1, AlwaysIInv, PTL

\* The three together: what the threads and the worker know of one another's
\* transactions never disagrees.
THEOREM GateIsKept == Spec => []GateKept
BY NoConflict, QuietAfterDisposal, PublishedIsCommitted, PTL DEF GateKept

----------------------------------------------------------------------------
(* The control block implements the abstract gate.                         *)

Admits == {t \in Threads : at[t] \in {"waiting", "publishing"}}

\* Steps that move no thread into or out of a transaction are not seen.
LEMMA Unseen ==
  ASSUME Admits' = Admits, lifecycle' = lifecycle, published' = published
  PROVE  [Gate!Next]_(Gate!gateVars)
BY DEF Admits, Gate!gateVars

LEMMA StepImplements ==
  ASSUME IInv, [Next]_vars
  PROVE  [Gate!Next]_(Gate!gateVars)
<1> USE DEF IInv
<1>1. ASSUME NEW t \in Threads, Send(t)
      PROVE  Gate!Next
  <2>1. Admits = {} /\ lifecycle = "active"
    BY <1>1 DEF Send, Admits, Exclusive, InCall
  <2>2. Admits' = {t}
    BY <1>1, <2>1 DEF Send, Move, Admits, TypeOK
  <2>3. Gate!Start(t)
    BY <1>1, <2>1, <2>2 DEF Send, Admits, Gate!Start
  <2> QED BY <2>3 DEF Gate!Next
<1>2. ASSUME NEW t \in Threads, Answered(t)
      PROVE  [Gate!Next]_(Gate!gateVars)
  <2>1. Admits = {t} /\ lifecycle' = lifecycle /\ published' = published
    BY <1>2 DEF Answered, Admits, Exclusive, InCall
  <2>2. CASE at'[t] = "publishing"
    <3>1. Admits' = Admits
      BY <1>2, <2>1, <2>2 DEF Answered, Move, Admits, TypeOK
    <3> QED BY <2>1, <3>1, Unseen
  <2>3. CASE at'[t] = "leaving"
    <3>1. Admits' = {}
      BY <1>2, <2>1, <2>3 DEF Answered, Move, Admits, TypeOK
    <3>2. Gate!Finish(t)
      BY <2>1, <3>1 DEF Admits, Gate!Finish, TypeOK
    <3> QED BY <3>2 DEF Gate!Next
  <2> QED BY <1>2, <2>2, <2>3 DEF Answered, Move, TypeOK
<1>3. ASSUME NEW t \in Threads, Publish(t)
      PROVE  Gate!Next
  <2>1. Admits = {t} /\ Admits' = {} /\ lifecycle' = lifecycle
    BY <1>3 DEF Publish, Move, Admits, Exclusive, InCall, TypeOK
  <2>2. published' \in Nat /\ published' >= published
    BY <1>3 DEF Publish, Current, Unpublished, TypeOK
  <2>3. Gate!Finish(t)
    BY <2>1, <2>2 DEF Admits, Gate!Finish
  <2> QED BY <2>3 DEF Gate!Next
<1>4. ASSUME NEW t \in Threads, BeginDispose(t)
      PROVE  Gate!Next
  <2>1. Admits' = Admits
    BY <1>4 DEF BeginDispose, Move, Admits, TypeOK
  <2>2. Gate!StartClosing
    BY <1>4, <2>1 DEF BeginDispose, Admits, Gate!StartClosing
  <2> QED BY <2>2 DEF Gate!Next
<1>5. ASSUME NEW t \in Threads, Disposed(t)
      PROVE  Gate!Next
  <2>1. Admits = {} /\ Admits' = {}
    BY <1>5 DEF Disposed, Admits, Exclusive, InCall, TypeOK
  <2>2. lifecycle = "disposing"
    BY <1>5 DEF Disposed, Exclusive, InDisposal
  <2>3. Gate!Close
    BY <1>5, <2>1, <2>2 DEF Disposed, Admits, Gate!Close
  <2> QED BY <2>3 DEF Gate!Next
<1>6. ASSUME NEW t \in Threads,
             \/ \E g \in 0..MaxGeneration : Begin(t, g)
             \/ Refused(t) \/ Admitted(t) \/ Leave(t) \/ Notify(t)
             \/ JoinDisposal(t) \/ Rejoin(t) \/ RequestDisposal(t)
             \/ DisposalAcknowledged(t) \/ Relock(t) \/ SeesGate(t) \/ Park(t)
             \/ SpuriousWakeup(t)
      PROVE  [Gate!Next]_(Gate!gateVars)
  <2>1. /\ \A u \in Threads : at'[u] \in {"waiting", "publishing"}
                              <=> at[u] \in {"waiting", "publishing"}
        /\ lifecycle' = lifecycle /\ published' = published
    BY <1>6 DEF Begin, Refused, Admitted, Leave, Notify, JoinDisposal, Rejoin,
         RequestDisposal, DisposalAcknowledged, Relock, SeesGate, Park,
         SpuriousWakeup, Move, TypeOK
  <2> QED BY <2>1, Unseen DEF Admits
<1>7. CASE Worker \/ UNCHANGED vars
  <2>1. at' = at /\ lifecycle' = lifecycle /\ published' = published
    BY <1>7 DEF Worker, Accept, Reject, End, HandleDispose, CompleteDisposal,
         vars
  <2> QED BY <2>1, Unseen DEF Admits
<1> QED BY <1>1, <1>2, <1>3, <1>4, <1>5, <1>6, <1>7
  DEF Next, Call, Step, Acquire

\* The gate, the mutex, the channel and the worker together give every thread
\* what TransactionGate promises: one transaction at a time, none that starts
\* once disposal began, a generation that only grows, and a disposal that is
\* complete only when the last transaction has ended.
THEOREM Implements == Spec => ImplementsGate
<1>1. Init => Gate!Init
  BY DEF Init, Gate!Init
<1> QED BY <1>1, AlwaysIInv, StepImplements, PTL DEF Spec, ImplementsGate,
     Gate!Spec

============================================================================
