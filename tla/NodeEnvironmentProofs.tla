------------------------- MODULE NodeEnvironmentProofs -------------------------
(***************************************************************************)
(* Theorems about NodeEnvironment, for any number of subscriptions and of  *)
(* threads.                                                                *)
(*                                                                         *)
(* What is held for its cleanup has an owner, or the dispatcher stays      *)
(* until who asks for the coordinator has its answer (Held): it stays for  *)
(* the registration's keepalive, or is the thread that asks (Claimed).  A  *)
(* thread stops serving only when nothing needs its kind, so a lifecycle   *)
(* that says Running, and a start that succeeded, speak of a thread that   *)
(* serves, or of an environment that closes with nothing left for the      *)
(* thread to do (Running). For this the mutex of a registration is held by *)
(* who asks for its cleanup (Locked), its record agrees with where its     *)
(* establishment is and with the entries selected of it (Records), and one *)
(* thread at a time owns a cleanup and one releases the bridge, maybe a    *)
(* dispatcher whose entry is stale (Owners). A lemma about one action      *)
(* speaks of the thread that acts and of whom it releases: the others are  *)
(* where they were.                                                        *)
(*                                                                         *)
(* Ends, on top of it, is for what a completed dispose() means: the thread *)
(* that releases the bridge is the one that finishes the cleanup, and a    *)
(* subscription whose engine side is cleaned gets no further delivery.     *)
(***************************************************************************)
EXTENDS NodeEnvironment, TLAPS

JsAt == {"loop", "registering", "assigning", "joiningDispatcher", "joiningCleanup",
         "tearingDown", "exited"}
WorkerAt == {"unborn", "establishing", "unpublishing", "failing", "publishing", "resolved",
             "owning", "cleaning", "draining", "releasing", "awaiting",
             "joiningDispatcher", "rejected"}
Serving == {"born", "selecting", "assigning", "owning", "cleaning", "draining", "releasing"}
InstanceAt == Serving \union {"unborn", "leaving", "gone"}
Stages == {"owning", "cleaning", "draining", "releasing"}
Starting == {"start", "reaping", "spawning", "spawned"}

\* Where each thread can be, and what it has with it there.
Positions ==
  /\ at[JS] \in JsAt
  /\ \A s \in Subs : at[Worker(s)] \in WorkerAt
  /\ \A i \in Instances :
       /\ at[i] \in InstanceAt
       /\ at[i] = "assigning" => i[1] = "dispatcher"
       /\ i[2] > born[i[1]] => at[i] = "unborn"
       /\ at[i] \in Stages => cur[i] \in Subs
  /\ \A p \in Procs : at[p] = "assigning" => cur[p] \in Subs
  /\ closing <=> at[JS] \in {"tearingDown", "exited"}
  /\ at[JS] = "registering" => next <= MaxSubscriptions
  /\ \A s \in Subs : s >= next => at[Worker(s)] = "unborn"

\* Who starts a thread does it for a registration, and knows the thread it started.
Calls ==
  \A p \in Procs :
    /\ call[p].at \in Starting =>
         at[p] \in IF call[p].kind = "cleanup" THEN {"assigning", "tearingDown"}
                                               ELSE {"registering", "publishing"}
    /\ at[p] \in {"assigning", "tearingDown", "registering", "publishing"} =>
         call[p].at \notin {"join", "joining"}
    /\ call[p].at = "spawned" => call[p].took # None

\* A registration's mutex is held by who publishes it or asks for its cleanup.
Locked ==
  /\ \A s \in Subs : lock[s] # <<>> =>
       \/ at[lock[s]] = "assigning" /\ cur[lock[s]] = s
       \/ at[lock[s]] = "publishing" /\ lock[s] = Worker(s)
  /\ \A p \in Procs : at[p] = "assigning" => lock[cur[p]] = p
  /\ \A s \in Subs : at[Worker(s)] = "publishing" => lock[s] = Worker(s)

Registering(s) == at[JS] = "registering" /\ s = next

\* What a registration's record says of where its establishment is.
RecordOf(s) ==
  /\ reg[s].hold \/ reg[s].active \/ reg[s].keep => reg[s].present /\ sub[s].published
  /\ reg[s].fallback => reg[s].hold
  /\ reg[s].pending => reg[s].present
  /\ sub[s].published => at[Worker(s)] \notin {"unborn", "establishing", "unpublishing"}
  /\ Registering(s) => reg[s].pending
  /\ at[Worker(s)] = "unborn" => ~sub[s].started /\ (reg[s].present => Registering(s))
  /\ at[Worker(s)] = "establishing" =>
       reg[s].present /\ ~sub[s].started /\ (closing \/ reg[s].pending)
  /\ at[Worker(s)] = "publishing" =>
       /\ reg[s].present /\ sub[s].published
       /\ closing \/ reg[s].active
       /\ sub[s].started => reg[s].hold
  /\ at[Worker(s)] = "resolved" /\ reg[s].present =>
       closing \/ reg[s].active \/ reg[s].hold
  /\ at[Worker(s)] = "awaiting" /\ reg[s].present => reg[s].hold
  /\ at[Worker(s)] \in {"unpublishing", "joiningDispatcher", "failing", "rejected"} =>
       ~reg[s].present
  /\ sub[s].finished => ~reg[s].present /\ at[Worker(s)] \notin {"unborn", "establishing"}

\* What stays true of an entry that thread i selected: a cleanup is of what is held,
\* and a dispatcher's is reassigned to it as long as nobody has begun it.
EntryOf(i, e) ==
  /\ sub[e[1]].published
  /\ i[1] = "cleanup" => e[2] = "cleanup"
  /\ e[2] = "cleanup" /\ reg[e[1]].present =>
       reg[e[1]].hold /\ (i[1] = "cleanup" \/ sub[e[1]].started \/ reg[e[1]].fallback)
Records ==
  /\ \A s \in Subs : RecordOf(s)
  /\ \A p \in Procs : at[p] = "assigning" => reg[cur[p]].hold
  /\ \A i \in Instances : \A e \in work[i] : EntryOf(i, e)

\* Thread p works on the cleanup of s.
On(p, s) == p = Worker(s) \/ (p \in Instances /\ cur[p] = s)

\* One thread owns a cleanup, and one releases the bridge; a managed thread only
\* works on what is held, the dispatcher on what was reassigned to it, but that it
\* may release the bridge of what has been taken from it since.
OwnersOf(s) ==
  /\ \A i \in Instances : at[i] \in Stages /\ cur[i] = s =>
       /\ sub[s].published
       /\ reg[s].present => reg[s].hold /\ (i[1] = "dispatcher" /\ at[i] # "releasing" => reg[s].fallback)
  /\ \A p \in Procs : On(p, s) =>
       /\ at[p] \in Stages => sub[s].started
       /\ at[p] \in {"draining", "releasing"} => sub[s].cleaned
       /\ at[p] \in {"owning", "cleaning"} => ~sub[s].cleaned
       /\ \A q \in Procs : On(q, s) /\ at[p] \in {"owning", "cleaning"} /\ at[q] \in Stages => q = p
  /\ sub[s].cleaned => sub[s].started
  /\ sub[s].finalizing /\ ~sub[s].finished =>
       \E p \in Procs : On(p, s) /\ at[p] = "releasing"
Owners == \A s \in Subs : OwnersOf(s)

\* A lifecycle that says Running speaks of a thread that serves, and so does a
\* start that returned, as long as there is something to serve.
Idle(k) == closing /\ (k = "cleanup" => ~Needed(k))
Runs(k) == Serves(k) \/ Idle(k)
Running ==
  /\ \A k \in Kinds : life[k] = "running" => Runs(k)
  /\ \A p \in Procs, k \in Kinds : call[p].at = "spawned" /\ call[p].kind = k =>
       at[<<k, call[p].took>>] \in Serving \/ Idle(k)
  /\ \A p \in Procs : Free(p) /\ call[p].ok =>
       /\ at[p] \in {"assigning", "tearingDown"} => Runs("cleanup")
       /\ at[p] = "registering" => Runs("dispatcher")

\* What claims the dispatcher has one.
Claims(s) == reg[s].active \/ reg[s].pending \/ reg[s].keep
Claimed ==
  ~closing => \A s \in Subs : Claims(s) => Serves("dispatcher") \/ Registering(s)

\* What is held for its cleanup is cleaned up by somebody, or the dispatcher
\* stays until who asks for the coordinator has its answer.
Owned(s) == Serves("cleanup") \/ (reg[s].fallback /\ Serves("dispatcher")) \/ Owning(s)
Asked(s) ==
  \/ at[JS] = "tearingDown" /\ reg[s].keep
  \/ \E p \in Procs : at[p] = "assigning" /\ lock[s] = p /\ (p \in Instances \/ reg[s].keep)
HeldOf(s) == reg[s].hold => Owned(s) \/ (Serves("dispatcher") /\ Asked(s))
Held == \A s \in Subs : HeldOf(s)

IInv ==
  /\ TypeOK /\ Positions /\ Calls /\ Locked /\ Records /\ Owners
  /\ Running /\ Claimed /\ Held

----------------------------------------------------------------------------
(* Threads and registrations.                                              *)

LEMMA ProcsAre ==
  /\ JS \in Procs /\ JS \notin Instances /\ <<>> \notin Procs
  /\ \A s \in Subs : Worker(s) \in Procs /\ Worker(s) # JS /\ Worker(s) \notin Instances
                     /\ Worker(s)[1] # "dispatcher"
  /\ \A s, r \in Subs : Worker(s) = Worker(r) => s = r
  /\ \A i \in Instances : i \in Procs /\ i[1] \in Kinds /\ i[2] \in 1..MaxSpawns
                          /\ i = <<i[1], i[2]>>
  /\ \A k \in Kinds, n \in 1..MaxSpawns :
       <<k, n>> \in Instances /\ <<k, n>>[1] = k /\ <<k, n>>[2] = n
  /\ \A p \in Procs : p = JS \/ p \in Instances \/ \E s \in Subs : p = Worker(s)
<1>1. /\ JS \in Procs /\ JS \notin Instances /\ <<>> \notin Procs
  BY DEF Procs, JS, Instances, Worker, Kinds
<1>2. \A s \in Subs : Worker(s) \in Procs /\ Worker(s) # JS /\ Worker(s) \notin Instances
                     /\ Worker(s)[1] # "dispatcher"
  BY DEF Procs, JS, Instances, Worker, Kinds
<1>3. \A s, r \in Subs : Worker(s) = Worker(r) => s = r
  BY DEF Worker
<1>4. \A i \in Instances : i \in Procs /\ i[1] \in Kinds /\ i[2] \in 1..MaxSpawns
                          /\ i = <<i[1], i[2]>>
  BY DEF Instances, Procs
<1>5. \A k \in Kinds, n \in 1..MaxSpawns :
       <<k, n>> \in Instances /\ <<k, n>>[1] = k /\ <<k, n>>[2] = n
  BY DEF Instances
<1>6. \A p \in Procs : p = JS \/ p \in Instances \/ \E s \in Subs : p = Worker(s)
  BY DEF Procs
<1> QED BY <1>1, <1>2, <1>3, <1>4, <1>5, <1>6

\* A thread serves as long as it has not decided to leave.
LEMMA ServesIs ==
  ASSUME Positions, NEW k \in Kinds
  PROVE  Serves(k) <=> \E i \in Instances : i[1] = k /\ at[i] \in Serving
<1>1. \A i \in Instances : at[i] \in Serving <=> at[i] \notin {"unborn", "gone", "leaving"}
  BY DEF Positions, InstanceAt, Serving
<1>2. ASSUME Serves(k) PROVE \E i \in Instances : i[1] = k /\ at[i] \in Serving
  <2>1. PICK n \in 1..MaxSpawns : at[<<k, n>>] \notin {"unborn", "gone", "leaving"}
    BY <1>2 DEF Serves, Alive
  <2> QED BY <1>1, <2>1, ProcsAre
<1>3. ASSUME NEW i \in Instances, i[1] = k, at[i] \in Serving PROVE Serves(k)
  <2>1. i[2] \in 1..MaxSpawns /\ at[<<k, i[2]>>] \notin {"unborn", "gone", "leaving"}
    BY <1>1, <1>3, ProcsAre
  <2> QED BY <2>1 DEF Serves, Alive
<1> QED BY <1>2, <1>3

LEMMA ServesIsNext ==
  ASSUME Positions', NEW k \in Kinds
  PROVE  Serves(k)' <=> \E i \in Instances : i[1] = k /\ at'[i] \in Serving
<1>1. \A i \in Instances : at'[i] \in Serving <=> at'[i] \notin {"unborn", "gone", "leaving"}
  BY DEF Positions, InstanceAt, Serving
<1>2. ASSUME Serves(k)' PROVE \E i \in Instances : i[1] = k /\ at'[i] \in Serving
  <2>1. PICK n \in 1..MaxSpawns : at'[<<k, n>>] \notin {"unborn", "gone", "leaving"}
    BY <1>2 DEF Serves, Alive
  <2> QED BY <1>1, <2>1, ProcsAre
<1>3. ASSUME NEW i \in Instances, i[1] = k, at'[i] \in Serving PROVE Serves(k)'
  <2>1. i[2] \in 1..MaxSpawns /\ at'[<<k, i[2]>>] \notin {"unborn", "gone", "leaving"}
    BY <1>1, <1>3, ProcsAre
  <2> QED BY <2>1 DEF Serves, Alive
<1> QED BY <1>2, <1>3

LEMMA ServesStays ==
  ASSUME Positions, Positions', NEW k \in Kinds,
         \A i \in Instances : i[1] = k /\ at[i] \in Serving => at'[i] \in Serving
  PROVE  Serves(k) => Serves(k)'
  BY ServesIs, ServesIsNext

\* So does who works on the cleanup as the libuv thread, and who releases the bridge.
LEMMA OwningStays ==
  ASSUME NEW s \in Subs, at[Worker(s)] \in Stages => at'[Worker(s)] \in Stages,
         \A i \in Instances :
           at[i] = "releasing" /\ cur[i] = s => at'[i] = "releasing" /\ cur'[i] = s
  PROVE  Owning(s) => Owning(s)'
  BY DEF Owning, Stages

----------------------------------------------------------------------------
(* Starting and joining a managed thread.                                  *)

LEMMA NobodyMoves ==
  ASSUME IInv, UNCHANGED <<closing, next, pcVars, subVars, born>>
  PROVE  /\ Positions' /\ Locked' /\ Records' /\ Owners' /\ Claimed' /\ Held'
         /\ \A k \in Kinds : Runs(k)' = Runs(k) /\ Idle(k)' = Idle(k)
<1> USE DEF IInv, pcVars, subVars
<1>1. Positions'
  BY DEF Positions
<1>2. Locked'
  BY DEF Locked
<1>3. Records'
  BY DEF Records, RecordOf, EntryOf, Registering
<1>4. Owners'
  BY DEF Owners, OwnersOf, On
<1>5. \A k \in Kinds : Serves(k)' = Serves(k) /\ Needed(k)' = Needed(k)
  BY DEF Serves, Alive, Needed
<1>6. Claimed'
  BY <1>5 DEF Claimed, Claims, Registering, Kinds
<1>7. Held'
  BY <1>5 DEF Held, HeldOf, Owned, Asked, Owning, Kinds
<1>8. \A k \in Kinds : Runs(k)' = Runs(k) /\ Idle(k)' = Idle(k)
  BY <1>5 DEF Runs, Idle
<1> QED BY <1>1, <1>2, <1>3, <1>4, <1>6, <1>7, <1>8

CallRecords ==
  [at : {"none", "start", "reaping", "spawning", "spawned", "join", "joining"},
   kind : Kinds, took : 0..MaxSpawns, ok : BOOLEAN]

\* The call p is in becomes c.
CallBecomes(p, c) ==
  /\ c \in CallRecords
  /\ call' \in [Procs -> CallRecords]
  /\ call'[p] = c
  /\ \A q \in Procs : q # p => call'[q] = call[q]

LEMMA CallIs ==
  ASSUME TypeOK, NEW p \in Procs, NEW c \in CallRecords, call' = [call EXCEPT ![p] = c]
  PROVE  CallBecomes(p, c)
  BY DEF TypeOK, CallBecomes, CallRecords

LEMMA ReturnIs ==
  ASSUME TypeOK, NEW p \in Procs, NEW ok \in BOOLEAN, Return(p, ok)
  PROVE  /\ CallBecomes(p, call'[p])
         /\ call'[p].at = "none" /\ call'[p].ok = ok
<1> DEFINE c == [NoCall EXCEPT !.ok = ok]
<1>1. NoCall \in CallRecords /\ NoCall.at = "none"
  BY BoundsAssumption DEF NoCall, CallRecords, Kinds, None
<1>2. c \in CallRecords /\ c.at = "none" /\ c.ok = ok
  BY <1>1 DEF CallRecords
<1>3. CallBecomes(p, c)
  BY <1>2, CallIs DEF Return
<1> QED BY <1>2, <1>3 DEF CallBecomes

\* What p does inside its start or join, but for creating a thread.
LEMMA CallAdvances ==
  ASSUME IInv, NEW p \in Procs, NEW c, CallBecomes(p, c),
         UNCHANGED <<closing, next, pcVars, subVars, born>>,
         handle' \in [Kinds -> 0..MaxSpawns],
         life' \in [Kinds -> {"stopped", "starting", "running", "stopping"}],
         \A k \in Kinds : life'[k] = "running" => handle'[k] # None /\ Runs(k),
         call[p].at # "none", c.at # "spawned",
         c.at \in Starting => call[p].at \in Starting /\ c.kind = call[p].kind,
         c.at \in {"join", "joining"} => call[p].at \in {"join", "joining"},
         c.at = "none" /\ c.ok /\ call[p].at \in Starting => Runs(call[p].kind)
  PROVE  IInv'
<1>1. /\ call[p].at \in Starting \union {"join", "joining"}
      /\ call[p].kind = "dispatcher" \/ call[p].kind = "cleanup"
  BY DEF IInv, TypeOK, Starting, Kinds
<1>2. TypeOK'
  BY DEF IInv, TypeOK, CallBecomes, CallRecords, pcVars, subVars
<1>3. Calls'
  BY <1>1 DEF IInv, Calls, CallBecomes, pcVars
<1>4. c.at = "none" /\ c.ok => /\ at[p] \in {"assigning", "tearingDown"} => Runs("cleanup")
                               /\ at[p] = "registering" => Runs("dispatcher")
  BY <1>1 DEF IInv, Calls
<1>5. Running'
  <2>1. \A k \in Kinds : life'[k] = "running" => Runs(k)'
    BY NobodyMoves
  <2>2. ASSUME NEW q \in Procs, NEW k \in Kinds, call'[q].at = "spawned", call'[q].kind = k
        PROVE  at'[<<k, call'[q].took>>] \in Serving \/ Idle(k)'
    BY <2>2, NobodyMoves DEF IInv, Running, CallBecomes, pcVars
  <2>3. ASSUME NEW q \in Procs, Free(q)', call'[q].ok
        PROVE  /\ at'[q] \in {"assigning", "tearingDown"} => Runs("cleanup")'
               /\ at'[q] = "registering" => Runs("dispatcher")'
    BY <1>4, <2>3, NobodyMoves DEF IInv, Running, CallBecomes, pcVars, Free, Kinds
  <2> QED BY <2>1, <2>2, <2>3 DEF Running
<1> QED BY <1>2, <1>3, <1>5, NobodyMoves DEF IInv

\* The types of what a start or a join works with.
LEMMA CallTypes ==
  ASSUME IInv, NEW p \in Procs
  PROVE  /\ call[p] \in CallRecords /\ call[p].kind \in Kinds /\ call[p].took \in 0..MaxSpawns
         /\ \A k \in Kinds :
              /\ handle[k] \in 0..MaxSpawns /\ None \in 0..MaxSpawns
              /\ life[k] = "running" => handle[k] # None /\ Runs(k)
         /\ handle \in [Kinds -> 0..MaxSpawns]
         /\ life \in [Kinds -> {"stopped", "starting", "running", "stopping"}]
<1>1. call \in [Procs -> CallRecords]
  BY DEF IInv, TypeOK, CallRecords
<1>2. call[p].kind \in Kinds /\ call[p].took \in 0..MaxSpawns
  BY <1>1 DEF CallRecords
<1> QED BY <1>1, <1>2, BoundsAssumption DEF IInv, TypeOK, Running, None

LEMMA StartTurnKeeps ==
  ASSUME IInv, NEW p \in Procs, StartTurn(p)
  PROVE  IInv'
<1> DEFINE k == call[p].kind
<1>0. /\ UNCHANGED <<closing, next, pcVars, subVars, born>>
      /\ call[p] \in CallRecords /\ k \in Kinds /\ call[p].at = "start"
      /\ call[p].at \in Starting /\ handle[k] \in 0..MaxSpawns
  BY CallTypes DEF StartTurn, threadVars, Starting
<1>1. CASE k = "dispatcher" /\ closing /\ Return(p, FALSE) /\ UNCHANGED threadVars
  <2>1. CallBecomes(p, call'[p]) /\ call'[p].at = "none" /\ call'[p].ok = FALSE
    BY <1>1, ReturnIs DEF IInv
  <2> QED BY <1>0, <1>1, <2>1, CallTypes, CallAdvances DEF threadVars, Starting
<1>2. CASE life[k] = "running" /\ Return(p, TRUE) /\ UNCHANGED threadVars
  <2>1. CallBecomes(p, call'[p]) /\ call'[p].at = "none" /\ call'[p].ok = TRUE
    BY <1>2, ReturnIs DEF IInv
  <2> QED BY <1>0, <1>2, <2>1, CallTypes, CallAdvances DEF threadVars, Starting
<1>3. CASE /\ life' = [life EXCEPT ![k] = "stopping"]
           /\ handle' = [handle EXCEPT ![k] = None]
           /\ call' = [call EXCEPT ![p].at = "reaping", ![p].took = handle[k]]
  <2> DEFINE c == [call[p] EXCEPT !.at = "reaping", !.took = handle[k]]
  <2>1. c \in CallRecords /\ c.at = "reaping" /\ c.kind = k /\ call' = [call EXCEPT ![p] = c]
    BY <1>0, <1>3 DEF CallRecords
  <2> HIDE DEF c
  <2>2. CallBecomes(p, c)
    BY <2>1, CallIs DEF IInv
  <2>3. /\ handle' \in [Kinds -> 0..MaxSpawns]
        /\ life' \in [Kinds -> {"stopped", "starting", "running", "stopping"}]
        /\ \A j \in Kinds : life'[j] = "running" => handle'[j] # None /\ Runs(j)
    BY <1>0, <1>3, CallTypes
  <2> QED BY <1>0, <2>1, <2>2, <2>3, CallAdvances
<1>4. CASE /\ life' = [life EXCEPT ![k] = "starting"]
           /\ call' = [call EXCEPT ![p].at = "spawning"]
           /\ UNCHANGED <<handle, born>>
  <2> DEFINE c == [call[p] EXCEPT !.at = "spawning"]
  <2>1. c \in CallRecords /\ c.at = "spawning" /\ c.kind = k /\ call' = [call EXCEPT ![p] = c]
    BY <1>0, <1>4 DEF CallRecords
  <2> HIDE DEF c
  <2>2. CallBecomes(p, c)
    BY <2>1, CallIs DEF IInv
  <2>3. /\ handle' \in [Kinds -> 0..MaxSpawns]
        /\ life' \in [Kinds -> {"stopped", "starting", "running", "stopping"}]
        /\ \A j \in Kinds : life'[j] = "running" => handle'[j] # None /\ Runs(j)
    BY <1>0, <1>4, CallTypes
  <2> QED BY <1>0, <2>1, <2>2, <2>3, CallAdvances
<1> QED BY <1>1, <1>2, <1>3, <1>4 DEF StartTurn

LEMMA ReapKeeps ==
  ASSUME IInv, NEW p \in Procs, Reap(p)
  PROVE  IInv'
<1> DEFINE k == call[p].kind
           c == [call[p] EXCEPT !.at = "start", !.took = None]
<1>1. /\ UNCHANGED <<closing, next, pcVars, subVars, born>>
      /\ call[p] \in CallRecords /\ k \in Kinds /\ call[p].at = "reaping"
      /\ call[p].at \in Starting /\ None \in 0..MaxSpawns
  BY CallTypes DEF Reap, Starting
<1>2. c \in CallRecords /\ c.at = "start" /\ c.kind = k /\ call' = [call EXCEPT ![p] = c]
  BY <1>1 DEF Reap, CallRecords
<1> HIDE DEF c
<1>3. CallBecomes(p, c)
  BY <1>2, CallIs DEF IInv
<1>4. /\ handle' \in [Kinds -> 0..MaxSpawns]
      /\ life' \in [Kinds -> {"stopped", "starting", "running", "stopping"}]
      /\ \A j \in Kinds : life'[j] = "running" => handle'[j] # None /\ Runs(j)
  BY <1>1, CallTypes DEF Reap
<1> QED BY <1>1, <1>2, <1>3, <1>4, CallAdvances

LEMMA SpawnFailsKeeps ==
  ASSUME IInv, NEW p \in Procs, SpawnFails(p)
  PROVE  IInv'
<1>1. /\ UNCHANGED <<closing, next, pcVars, subVars, born>>
      /\ call[p].kind \in Kinds /\ call[p].at = "spawning"
  BY CallTypes DEF SpawnFails
<1>2. CallBecomes(p, call'[p]) /\ call'[p].at = "none" /\ call'[p].ok = FALSE
  BY ReturnIs DEF IInv, SpawnFails
<1>3. /\ handle' \in [Kinds -> 0..MaxSpawns]
      /\ life' \in [Kinds -> {"stopped", "starting", "running", "stopping"}]
      /\ \A j \in Kinds : life'[j] = "running" => handle'[j] # None /\ Runs(j)
  BY <1>1, CallTypes DEF SpawnFails
<1> QED BY <1>1, <1>2, <1>3, CallAdvances DEF Starting

LEMMA StartedKeeps ==
  ASSUME IInv, NEW p \in Procs, Started(p)
  PROVE  IInv'
<1> DEFINE k == call[p].kind
<1>1. /\ UNCHANGED <<closing, next, pcVars, subVars, born>>
      /\ call[p].kind \in Kinds /\ call[p].at = "spawned"
      /\ call[p].took \in 0..MaxSpawns /\ call[p].took # None
  BY CallTypes DEF Started, IInv, Calls
<1>2. CallBecomes(p, call'[p]) /\ call'[p].at = "none" /\ call'[p].ok = TRUE
  BY ReturnIs DEF IInv, Started
<1>3. Runs(k)
  <2>1. CASE Idle(k)
    BY <2>1 DEF Runs
  <2>2. CASE at[<<k, call[p].took>>] \in Serving
    <3>1. <<k, call[p].took>> \in Instances /\ <<k, call[p].took>>[1] = k
      BY <1>1, ProcsAre, BoundsAssumption DEF None
    <3> QED BY <1>1, <2>2, <3>1, ServesIs DEF Runs, IInv
  <2> QED BY <1>1, <2>1, <2>2 DEF IInv, Running
<1>4. /\ handle' \in [Kinds -> 0..MaxSpawns]
      /\ life' \in [Kinds -> {"stopped", "starting", "running", "stopping"}]
      /\ \A j \in Kinds : life'[j] = "running" => handle'[j] # None /\ Runs(j)
  BY <1>1, <1>3, CallTypes DEF Started
<1> QED BY <1>1, <1>2, <1>3, <1>4, CallAdvances DEF Starting

LEMMA JoinTurnKeeps ==
  ASSUME IInv, NEW p \in Procs, JoinTurn(p)
  PROVE  IInv'
<1> DEFINE k == call[p].kind
<1>0. /\ UNCHANGED <<closing, next, pcVars, subVars, born>>
      /\ call[p] \in CallRecords /\ k \in Kinds /\ call[p].at = "join"
      /\ handle[k] \in 0..MaxSpawns
  BY CallTypes DEF JoinTurn, threadVars
<1>1. CASE Return(p, TRUE) /\ UNCHANGED threadVars
  <2>1. CallBecomes(p, call'[p]) /\ call'[p].at = "none"
    BY <1>1, ReturnIs DEF IInv
  <2> QED BY <1>0, <1>1, <2>1, CallTypes, CallAdvances DEF threadVars, Starting
<1>2. CASE /\ life[k] = "stopped"
           /\ life' = [life EXCEPT ![k] = IF handle[k] # None THEN "stopping" ELSE @]
           /\ handle' = [handle EXCEPT ![k] = None]
           /\ call' = [call EXCEPT ![p].at = "joining", ![p].took = handle[k]]
  <2> DEFINE c == [call[p] EXCEPT !.at = "joining", !.took = handle[k]]
  <2>1. c \in CallRecords /\ c.at = "joining" /\ call' = [call EXCEPT ![p] = c]
    BY <1>0, <1>2 DEF CallRecords
  <2> HIDE DEF c
  <2>2. CallBecomes(p, c)
    BY <2>1, CallIs DEF IInv
  <2>3. /\ handle' \in [Kinds -> 0..MaxSpawns]
        /\ life' \in [Kinds -> {"stopped", "starting", "running", "stopping"}]
        /\ \A j \in Kinds : life'[j] = "running" => handle'[j] # None /\ Runs(j)
    BY <1>0, <1>2, CallTypes
  <2> QED BY <1>0, <2>1, <2>2, <2>3, CallAdvances DEF Starting
<1> QED BY <1>1, <1>2 DEF JoinTurn

LEMMA JoinedKeeps ==
  ASSUME IInv, NEW p \in Procs, Joined(p)
  PROVE  IInv'
<1>1. /\ UNCHANGED <<closing, next, pcVars, subVars, born>>
      /\ call[p].kind \in Kinds /\ call[p].at = "joining"
  BY CallTypes DEF Joined
<1>2. CallBecomes(p, call'[p]) /\ call'[p].at = "none"
  BY ReturnIs DEF IInv, Joined
<1>3. /\ handle' \in [Kinds -> 0..MaxSpawns]
      /\ life' \in [Kinds -> {"stopped", "starting", "running", "stopping"}]
      /\ \A j \in Kinds : life'[j] = "running" => handle'[j] # None /\ Runs(j)
  BY <1>1, CallTypes DEF Joined
<1> QED BY <1>1, <1>2, <1>3, CallAdvances DEF Starting

----------------------------------------------------------------------------
(* Steps of other kinds.                                                   *)

\* What a step that starts or stops no thread owes to those that run.
LEMMA RunningStays ==
  ASSUME IInv, Positions', UNCHANGED life,
         \A i \in Instances : at[i] \in Serving => at'[i] \in Serving,
         \A k \in Kinds : Idle(k) => Idle(k)',
         \A p \in Procs : call'[p].at = "spawned" => call'[p] = call[p],
         \A p \in Procs :
           at'[p] \in {"assigning", "tearingDown", "registering"} /\ call'[p].at = "none" =>
             at'[p] = at[p] /\ call'[p] = call[p]
  PROVE  /\ Running'
         /\ \A k \in Kinds : Serves(k) => Serves(k)'
<1>1. \A k \in Kinds : Serves(k) => Serves(k)'
  BY ServesStays DEF IInv
<1>2. \A k \in Kinds : Runs(k) => Runs(k)'
  BY <1>1 DEF Runs
<1>3. \A k \in Kinds : life'[k] = "running" => Runs(k)'
  BY <1>2 DEF IInv, Running
<1>4. ASSUME NEW q \in Procs, NEW k \in Kinds, call'[q].at = "spawned", call'[q].kind = k
      PROVE  at'[<<k, call'[q].took>>] \in Serving \/ Idle(k)'
  <2>1. call'[q] = call[q]
    BY <1>4
  <2>2. at[<<k, call[q].took>>] \in Serving \/ Idle(k)
    BY <1>4, <2>1 DEF IInv, Running
  <2>3. <<k, call[q].took>> \in Instances
    BY <1>4, <2>1, CallTypes, ProcsAre, BoundsAssumption DEF IInv, Calls, None
  <2> QED BY <2>1, <2>2, <2>3
<1>5. ASSUME NEW q \in Procs, Free(q)', call'[q].ok
      PROVE  /\ at'[q] \in {"assigning", "tearingDown"} => Runs("cleanup")'
             /\ at'[q] = "registering" => Runs("dispatcher")'
  <2>1. CASE at'[q] \in {"assigning", "tearingDown", "registering"}
    <3>1. at'[q] = at[q] /\ call'[q] = call[q] /\ Free(q)
      BY <1>5, <2>1 DEF Free
    <3> QED BY <1>2, <1>5, <3>1 DEF IInv, Running, Kinds
  <2> QED BY <2>1
<1> QED BY <1>1, <1>3, <1>4, <1>5 DEF Running

Apart == {"unborn", "born", "selecting", "leaving", "gone"}

\* A managed thread moves while it works on nothing.
LEMMA IdleMoves ==
  ASSUME IInv, NEW i \in Instances, NEW pc \in Apart, at[i] \in Apart,
         at' = [at EXCEPT ![i] = pc],
         UNCHANGED <<closing, next, cur, subVars>>
  PROVE  /\ at' \in [Procs -> JsAt \union WorkerAt \union InstanceAt]
         /\ at'[i] = pc /\ \A q \in Procs : q # i => at'[q] = at[q]
         /\ Locked' /\ Owners'
         /\ \A s \in Subs : RecordOf(s)'
         /\ \A p \in Procs : at'[p] = "assigning" => reg'[cur'[p]].hold
<1> USE DEF IInv
<1>1. /\ at'[i] = pc /\ \A q \in Procs : q # i => at'[q] = at[q]
      /\ at' \in [Procs -> JsAt \union WorkerAt \union InstanceAt]
  BY ProcsAre DEF TypeOK, Apart, JsAt, WorkerAt, InstanceAt, Serving
<1>2. /\ \A q \in Procs : at'[q] = at[q] \/ (q = i /\ at[q] \in Apart /\ at'[q] \in Apart)
      /\ at'[JS] = at[JS] /\ \A s \in Subs : at'[Worker(s)] = at[Worker(s)]
  BY <1>1, ProcsAre
<1>3. Locked'
  BY <1>2, ProcsAre, SMTT(30) DEF Locked, subVars, Apart, TypeOK
<1>4. ASSUME NEW s \in Subs PROVE OwnersOf(s)'
  <2>1. OwnersOf(s) BY DEF Owners
  <2>2. \A q \in Procs : at'[q] \in Stages \union {"releasing"} <=> at[q] \in Stages \union {"releasing"}
    BY <1>2 DEF Apart, Stages
  <2>3. \A q \in Procs : at'[q] \in Stages => at'[q] = at[q]
    BY <1>2 DEF Apart, Stages
  <2>4. \A q \in Procs : at[q] \in Stages => at'[q] = at[q]
    BY <1>2 DEF Apart, Stages
  <2>5. \A q \in Procs : On(q, s)' <=> On(q, s)
    BY DEF On
  <2> QED BY <2>1, <2>3, <2>4, <2>5, ProcsAre DEF OwnersOf, subVars, Stages
<1>5. \A s \in Subs : RecordOf(s)'
  BY <1>2 DEF Records, RecordOf, Registering, subVars
<1>6. \A p \in Procs : at'[p] = "assigning" => reg'[cur'[p]].hold
  BY <1>2 DEF Records, subVars, Apart
<1> QED BY <1>1, <1>3, <1>4, <1>5, <1>6 DEF Owners

LEMMA SpawnKeeps ==
  ASSUME IInv, NEW p \in Procs, Spawn(p)
  PROVE  IInv'
<1>0. PICK k, n : k = call[p].kind /\ n = born[k] + 1
  OBVIOUS
<1> DEFINE c == [call[p] EXCEPT !.at = "spawned", !.took = n]
<1>1. /\ call[p] \in CallRecords /\ k \in Kinds /\ call[p].at = "spawning"
      /\ n \in 1..MaxSpawns /\ n > born[k] /\ n # None /\ n \in 0..MaxSpawns
      /\ call[p].at \in Starting
  <2>1. call[p] \in CallRecords /\ k \in Kinds /\ call[p].at = "spawning" /\ born[k] < MaxSpawns
    BY <1>0, CallTypes DEF Spawn
  <2>2. born[k] \in Nat
    BY <2>1 DEF IInv, TypeOK
  <2> QED BY <1>0, <2>1, <2>2, BoundsAssumption DEF None, Starting
<1>2. /\ <<k, n>> \in Instances /\ <<k, n>> \in Procs /\ <<k, n>>[1] = k /\ <<k, n>>[2] = n
  BY <1>1, ProcsAre
<1>3. at[<<k, n>>] = "unborn"
  BY <1>1, <1>2 DEF IInv, Positions
<1>4. /\ at' = [at EXCEPT ![<<k, n>>] = "born"] /\ born' = [born EXCEPT ![k] = n]
      /\ call' = [call EXCEPT ![p] = c]
      /\ UNCHANGED <<closing, next, life, handle, cur, work, subVars>>
  BY <1>0 DEF Spawn
<1>5. c \in CallRecords /\ c.at = "spawned" /\ c.kind = k /\ c.took = n
  BY <1>0, <1>1 DEF CallRecords
<1> HIDE DEF c
<1>6. CallBecomes(p, c)
  BY <1>4, <1>5, CallIs DEF IInv
<1>7. /\ at' \in [Procs -> JsAt \union WorkerAt \union InstanceAt]
      /\ at'[<<k, n>>] = "born" /\ \A q \in Procs : q # <<k, n>> => at'[q] = at[q]
      /\ Locked' /\ Owners' /\ \A s \in Subs : RecordOf(s)'
      /\ \A q \in Procs : at'[q] = "assigning" => reg'[cur'[q]].hold
  BY <1>2, <1>3, <1>4, IdleMoves DEF Apart
<1>8. TypeOK'
  BY <1>1, <1>4, <1>6, <1>7
     DEF IInv, TypeOK, CallBecomes, CallRecords, subVars, JsAt, WorkerAt, InstanceAt, Serving
<1>9. Positions'
  <2>1. at'[JS] = at[JS] /\ \A s \in Subs : at'[Worker(s)] = at[Worker(s)]
    BY <1>2, <1>7, ProcsAre
  <2>2. \A j \in Kinds : born'[j] >= born[j] /\ born[j] \in Nat /\ born'[k] = n
    BY <1>1, <1>4 DEF IInv, TypeOK
  <2>3. ASSUME NEW i \in Instances
        PROVE  /\ at'[i] \in InstanceAt
               /\ at'[i] = "assigning" => i[1] = "dispatcher"
               /\ i[2] > born'[i[1]] => at'[i] = "unborn"
               /\ at'[i] \in Stages => cur'[i] \in Subs
    <3>1. CASE i = <<k, n>>
      BY <1>1, <1>2, <1>7, <2>2, <3>1 DEF InstanceAt, Serving, Stages
    <3>2. CASE i # <<k, n>>
      <4>1. at'[i] = at[i] /\ born'[i[1]] >= born[i[1]] /\ i[2] \in Nat /\ born[i[1]] \in Nat
            /\ born'[i[1]] \in Nat
        BY <1>1, <1>4, <1>7, <2>2, <3>2, ProcsAre, SMTT(30) DEF IInv, TypeOK
      <4> QED BY <1>4, <4>1 DEF IInv, Positions
    <3> QED BY <3>1, <3>2
  <2>4. \A q \in Procs : at'[q] = "assigning" => cur'[q] \in Subs
    BY <1>4, <1>7 DEF IInv, Positions
  <2> QED BY <1>4, <2>1, <2>3, <2>4 DEF IInv, Positions
<1>10. p # <<k, n>>
  BY <1>1, <1>3 DEF IInv, Calls
<1>11. Calls'
  <2>1. call'[p] = c /\ at'[p] = at[p]
    BY <1>6, <1>7, <1>10 DEF CallBecomes
  <2>2. ASSUME NEW q \in Procs, q # p
        PROVE  call'[q] = call[q] /\ (at'[q] = at[q] \/ (at'[q] = "born" /\ at[q] = "unborn"))
    BY <1>3, <1>6, <1>7, <2>2 DEF CallBecomes
  <2> QED BY <1>0, <1>1, <1>5, <2>1, <2>2 DEF IInv, Calls
<1>12. Records'
  BY <1>4, <1>7 DEF IInv, Records, EntryOf, subVars
<1>13. Running' /\ \A j \in Kinds : Serves(j) => Serves(j)'
  <2>1. \A j \in Kinds : Serves(j) => Serves(j)'
    BY <1>2, <1>7, <1>9, ServesStays, ProcsAre DEF IInv, Serving
  <2>2. \A j \in Kinds : Idle(j)' = Idle(j)
    BY <1>4 DEF Idle, Needed, subVars
  <2>3. \A j \in Kinds : life'[j] = "running" => Runs(j)'
    BY <1>4, <2>1, <2>2 DEF IInv, Running, Runs
  <2>4. ASSUME NEW q \in Procs, NEW j \in Kinds, call'[q].at = "spawned", call'[q].kind = j
        PROVE  at'[<<j, call'[q].took>>] \in Serving \/ Idle(j)'
    <3>1. CASE q = p
      BY <1>5, <1>6, <1>7, <2>4, <3>1 DEF CallBecomes, Serving
    <3>2. CASE q # p
      <4>1. call'[q] = call[q] /\ call[q].took \in 1..MaxSpawns
        BY <1>6, <2>4, <3>2, CallTypes DEF CallBecomes, IInv, Calls, None
      <4>2. at'[<<j, call[q].took>>] = at[<<j, call[q].took>>] \/ at'[<<j, call[q].took>>] = "born"
        BY <1>7, <4>1, ProcsAre
      <4> QED BY <2>2, <2>4, <4>1, <4>2 DEF IInv, Running, Serving
    <3> QED BY <3>1, <3>2
  <2>5. ASSUME NEW q \in Procs, Free(q)', call'[q].ok
        PROVE  /\ at'[q] \in {"assigning", "tearingDown"} => Runs("cleanup")'
               /\ at'[q] = "registering" => Runs("dispatcher")'
    <3>1. call'[q] = call[q]
      BY <1>5, <1>6, <2>5 DEF CallBecomes, Free
    <3>2. at'[q] = at[q] \/ at'[q] = "born"
      BY <1>7
    <3> QED BY <2>1, <2>2, <2>5, <3>1, <3>2 DEF IInv, Running, Runs, Free, Kinds
  <2> QED BY <2>1, <2>3, <2>4, <2>5 DEF Running
<1>14. Claimed'
  BY <1>2, <1>4, <1>7, <1>13, ProcsAre DEF IInv, Claimed, Claims, Registering, subVars, Kinds
<1>15. Held'
  <2>1. \A q \in Procs : at[q] = "assigning" => at'[q] = "assigning"
    BY <1>3, <1>7
  <2>2. at'[JS] = at[JS] /\ \A s \in Subs : at'[Worker(s)] = at[Worker(s)]
    BY <1>2, <1>7, ProcsAre
  <2>4. ASSUME NEW s \in Subs PROVE Owning(s) => Owning(s)'
    <3>1. \A i \in Instances : at[i] = "releasing" => at'[i] = "releasing" /\ cur'[i] = cur[i]
      BY <1>3, <1>4, <1>7, ProcsAre
    <3> QED BY <2>2, <3>1, OwningStays
  <2>3. \A s \in Subs : (Asked(s) => Asked(s)') /\ (Owned(s) => Owned(s)')
    BY <1>4, <1>13, <2>1, <2>2, <2>4 DEF Asked, Owned, subVars, Kinds
  <2> QED BY <1>4, <1>13, <2>3 DEF IInv, Held, HeldOf, subVars, Kinds
<1> QED BY <1>8, <1>9, <1>11, <1>12, <1>7, <1>13, <1>14, <1>15 DEF IInv

----------------------------------------------------------------------------
(* The rounds of the managed threads.                                      *)

LEMMA NeededIs ==
  ASSUME IInv
  PROVE  /\ Needed("cleanup") <=> \E s \in Subs : reg[s].hold
         /\ Needed("dispatcher") <=> \E s \in Subs : Claims(s) \/ reg[s].fallback
<1>1. \A s \in Subs : (reg[s].hold \/ Claims(s) \/ reg[s].fallback => reg[s].present)
  BY DEF IInv, TypeOK, Records, RecordOf, Claims
<1> QED BY <1>1 DEF IInv, TypeOK, Needed, Claims

\* Where a thread waits for another to be started, there is a reason for it.
LEMMA NeededBy ==
  ASSUME IInv, NEW p \in Procs
  PROVE  /\ at[p] = "assigning" => Needed("cleanup")
         /\ at[p] = "tearingDown" => closing
         /\ at[p] = "registering" => Needed("dispatcher") /\ ~closing
         /\ at[p] = "publishing" => Needed("dispatcher") \/ closing
<1>1. at[p] = "assigning" => Needed("cleanup")
  BY NeededIs DEF IInv, Positions, Records
<1>2. at[p] \in {"tearingDown", "registering"} => p = JS
  BY ProcsAre DEF IInv, Positions, WorkerAt, InstanceAt, Serving
<1>3. at[p] = "publishing" => \E s \in Subs : p = Worker(s)
  BY ProcsAre DEF IInv, Positions, JsAt, InstanceAt, Serving
<1>4. at[JS] = "tearingDown" => closing
  BY DEF IInv, Positions
<1>5. at[JS] = "registering" => Needed("dispatcher") /\ ~closing
  <2> SUFFICES ASSUME at[JS] = "registering" PROVE Needed("dispatcher") /\ ~closing
    OBVIOUS
  <2>1. next \in Subs /\ ~closing
    BY DEF IInv, TypeOK, Positions, Subs
  <2>2. reg[next].pending
    BY <2>1 DEF IInv, Records, RecordOf, Registering
  <2> QED BY <2>1, <2>2, NeededIs DEF Claims
<1>6. \A s \in Subs : at[Worker(s)] = "publishing" => Needed("dispatcher") \/ closing
  BY NeededIs DEF IInv, Records, RecordOf, Claims
<1> QED BY <1>1, <1>2, <1>3, <1>4, <1>5, <1>6

\* Nothing is written to the call of anybody while one thread, which starts
\* and joins nothing, moves.
LEMMA CallsStay ==
  ASSUME IInv, NEW i \in Instances, NEW pc \in Apart, at[i] \in Apart,
         at' = [at EXCEPT ![i] = pc], UNCHANGED call
  PROVE  Calls'
<1>1. \A q \in Procs : at'[q] = at[q] \/ (q = i /\ at[q] \in Apart /\ at'[q] \in Apart)
  BY ProcsAre DEF IInv, TypeOK
<1>2. call[i].at \notin Starting
  BY ProcsAre DEF IInv, Calls, Apart
<1> QED BY <1>1, <1>2 DEF IInv, Calls, Apart

LEMMA EnterKeeps ==
  ASSUME IInv, NEW i \in Instances, Enter(i)
  PROVE  IInv'
<1>1. /\ at[i] = "born" /\ at' = [at EXCEPT ![i] = "selecting"] /\ i \in Procs
      /\ UNCHANGED <<closing, next, subVars, threadVars, cur, work, call>>
  BY ProcsAre DEF Enter, Goto
<1>2. /\ at' \in [Procs -> JsAt \union WorkerAt \union InstanceAt]
      /\ at'[i] = "selecting" /\ \A q \in Procs : q # i => at'[q] = at[q]
      /\ Locked' /\ Owners' /\ \A s \in Subs : RecordOf(s)'
      /\ \A q \in Procs : at'[q] = "assigning" => reg'[cur'[q]].hold
  BY <1>1, IdleMoves DEF Apart
<1>3. TypeOK'
  BY <1>1, <1>2 DEF IInv, TypeOK, subVars, threadVars, JsAt, WorkerAt, InstanceAt, Serving
<1>4. at'[JS] = at[JS] /\ \A s \in Subs : at'[Worker(s)] = at[Worker(s)]
  BY <1>2, ProcsAre
<1>5. Positions'
  BY <1>1, <1>2, <1>4, ProcsAre DEF IInv, Positions, threadVars, InstanceAt, Serving, Stages
<1>6. Calls'
  BY <1>1, CallsStay DEF Apart
<1>7. Records'
  BY <1>1, <1>2 DEF IInv, Records, EntryOf, subVars
<1>8. Running' /\ \A k \in Kinds : Serves(k) => Serves(k)'
  <2>1. \A j \in Instances : at[j] \in Serving => at'[j] \in Serving
    BY <1>2, ProcsAre DEF Serving
  <2>2. \A k \in Kinds : Idle(k)' = Idle(k)
    BY <1>1 DEF Idle, Needed, subVars
  <2> QED BY <1>1, <1>2, <1>5, <2>1, <2>2, RunningStays DEF threadVars
<1>9. Claimed'
  BY <1>1, <1>4, <1>8 DEF IInv, Claimed, Claims, Registering, subVars, Kinds
<1>10. Held'
  <2>1. \A q \in Procs : at[q] = "assigning" => at'[q] = "assigning"
    BY <1>1, <1>2
  <2>2. \A s \in Subs : (Asked(s) => Asked(s)') /\ (Owned(s) => Owned(s)')
    BY <1>1, <1>4, <1>8, <2>1 DEF Asked, Owned, Owning, subVars, Kinds
  <2> QED BY <1>1, <1>8, <2>2 DEF IInv, Held, HeldOf, subVars, Kinds
<1> QED BY <1>2, <1>3, <1>5, <1>6, <1>7, <1>8, <1>9, <1>10 DEF IInv

LEMMA LeaveKeeps ==
  ASSUME IInv, NEW i \in Instances, Leave(i)
  PROVE  IInv'
<1>1. /\ at[i] = "leaving" /\ at' = [at EXCEPT ![i] = "gone"] /\ i \in Procs /\ i[1] \in Kinds
      /\ life' = [life EXCEPT ![i[1]] = "stopped"]
      /\ UNCHANGED <<closing, next, subVars, handle, born, cur, work, call>>
  BY ProcsAre DEF Leave, Goto
<1>2. /\ at' \in [Procs -> JsAt \union WorkerAt \union InstanceAt]
      /\ at'[i] = "gone" /\ \A q \in Procs : q # i => at'[q] = at[q]
      /\ Locked' /\ Owners' /\ \A s \in Subs : RecordOf(s)'
      /\ \A q \in Procs : at'[q] = "assigning" => reg'[cur'[q]].hold
  BY <1>1, IdleMoves DEF Apart
<1>3. TypeOK'
  BY <1>1, <1>2 DEF IInv, TypeOK, subVars, JsAt, WorkerAt, InstanceAt, Serving
<1>4. at'[JS] = at[JS] /\ \A s \in Subs : at'[Worker(s)] = at[Worker(s)]
  BY <1>2, ProcsAre
<1>5. Positions'
  BY <1>1, <1>2, <1>4, ProcsAre DEF IInv, Positions, InstanceAt, Stages
<1>6. Calls'
  BY <1>1, CallsStay DEF Apart
<1>7. Records'
  BY <1>1, <1>2 DEF IInv, Records, EntryOf, subVars
<1>8. \A k \in Kinds : (Serves(k) => Serves(k)') /\ Idle(k)' = Idle(k)
  <2>1. \A j \in Instances : at[j] \in Serving => at'[j] \in Serving
    BY <1>1, <1>2, ProcsAre DEF Serving
  <2>2. \A k \in Kinds : Idle(k)' = Idle(k)
    BY <1>1 DEF Idle, Needed, subVars
  <2> QED BY <1>5, <2>1, <2>2, ServesStays DEF IInv
<1>9. Running'
  <2>1. \A k \in Kinds : Runs(k) => Runs(k)'
    BY <1>8 DEF Runs
  <2>2. \A k \in Kinds : life'[k] = "running" => Runs(k)'
    BY <1>1, <2>1 DEF IInv, TypeOK, Running
  <2>3. ASSUME NEW q \in Procs, NEW k \in Kinds, call'[q].at = "spawned", call'[q].kind = k
        PROVE  at'[<<k, call'[q].took>>] \in Serving \/ Idle(k)'
    <3>1. call'[q] = call[q] /\ <<k, call[q].took>> \in Procs
      BY <1>1, <2>3, CallTypes, ProcsAre DEF IInv, Calls, None
    <3>2. at[<<k, call[q].took>>] \in Serving \/ Idle(k)
      BY <2>3, <3>1 DEF IInv, Running
    <3> QED BY <1>1, <1>2, <1>8, <3>1, <3>2 DEF Serving
  <2>4. ASSUME NEW q \in Procs, Free(q)', call'[q].ok
        PROVE  /\ at'[q] \in {"assigning", "tearingDown"} => Runs("cleanup")'
               /\ at'[q] = "registering" => Runs("dispatcher")'
    BY <1>1, <1>2, <2>1, <2>4 DEF IInv, Running, Free, Kinds
  <2> QED BY <2>2, <2>3, <2>4 DEF Running
<1>10. Claimed'
  BY <1>1, <1>4, <1>8 DEF IInv, Claimed, Claims, Registering, subVars, Kinds
<1>11. Held'
  <2>1. \A q \in Procs : at[q] = "assigning" => at'[q] = "assigning"
    BY <1>1, <1>2
  <2>2. \A s \in Subs : (Asked(s) => Asked(s)') /\ (Owned(s) => Owned(s)')
    BY <1>1, <1>4, <1>8, <2>1 DEF Asked, Owned, Owning, subVars, Kinds
  <2> QED BY <1>1, <1>8, <2>2 DEF IInv, Held, HeldOf, subVars, Kinds
<1> QED BY <1>2, <1>3, <1>5, <1>6, <1>7, <1>9, <1>10, <1>11 DEF IInv

\* A managed thread stays, or decides to leave when nobody needs its kind.
LEMMA SelectKeeps ==
  ASSUME IInv, NEW i \in Instances, Select(i)
  PROVE  IInv'
<1>0. /\ at[i] = "selecting" /\ i \in Procs /\ i[1] \in Kinds
      /\ UNCHANGED <<closing, next, subVars, handle, born, cur, call>>
  BY ProcsAre DEF Select
<1>1. CASE work' = [work EXCEPT ![i] = Selected(i[1])] /\ UNCHANGED <<life, at>>
  <2>1. UNCHANGED <<closing, next, at, cur, subVars, born, call, life, handle>>
    BY <1>0, <1>1
  <2>2. Selected(i[1]) \in SUBSET Entries
    BY DEF Selected
  <2>3. TypeOK'
    BY <1>1, <2>1, <2>2 DEF IInv, TypeOK, subVars
  <2>4. Positions' /\ Calls' /\ Locked' /\ Owners'
    BY <2>1 DEF IInv, Positions, Calls, Locked, Owners, OwnersOf, On, subVars
  <2>5. Records'
    <3>1. /\ \A s \in Subs : RecordOf(s)'
          /\ \A p \in Procs : at'[p] = "assigning" => reg'[cur'[p]].hold
      BY <2>1 DEF IInv, Records, RecordOf, Registering, subVars
    <3>2. \A e \in Selected(i[1]) : EntryOf(i, e)
      <4>1. ASSUME NEW e \in Selected(i[1]) PROVE EntryOf(i, e)
        <5>1. /\ e[1] \in Subs /\ e[2] \in {"delivery", "cleanup"} /\ RecordOf(e[1])
              /\ IF e[2] = "cleanup" THEN reg[e[1]].hold /\ (i[1] = "cleanup" \/ reg[e[1]].fallback)
                                    ELSE reg[e[1]].active /\ i[1] = "dispatcher"
          BY DEF Selected, Entries, IInv, Records
        <5> QED BY <5>1 DEF EntryOf, RecordOf
      <4> QED BY <4>1
    <3>3. \A j \in Instances : work'[j] = work[j] \/ (j = i /\ work'[j] = Selected(i[1]))
      BY <1>1, ProcsAre DEF IInv, TypeOK
    <3>4. \A j \in Instances, e \in Entries : EntryOf(j, e)' <=> EntryOf(j, e)
      BY <2>1 DEF EntryOf, subVars
    <3>5. \A j \in Instances : work[j] \in SUBSET Entries
      BY ProcsAre DEF IInv, TypeOK
    <3> QED BY <2>2, <3>1, <3>2, <3>3, <3>4, <3>5 DEF IInv, Records
  <2>6. \A k \in Kinds : Serves(k)' = Serves(k) /\ Idle(k)' = Idle(k) /\ Runs(k)' = Runs(k)
    BY <2>1 DEF Serves, Alive, Idle, Needed, Runs, subVars
  <2>7. Running'
    BY <2>1, <2>6 DEF IInv, Running, Free, Kinds
  <2>8. Claimed' /\ Held'
    BY <2>1, <2>6 DEF IInv, Claimed, Claims, Registering, Held, HeldOf, Owned, Owning, Asked, subVars, Kinds
  <2> QED BY <2>3, <2>4, <2>5, <2>7, <2>8 DEF IInv
<1>2. CASE /\ ~Needed(i[1])
           /\ life' = [life EXCEPT ![i[1]] = "stopping"]
           /\ at' = [at EXCEPT ![i] = "leaving"] /\ UNCHANGED work
  <2>1. /\ at' \in [Procs -> JsAt \union WorkerAt \union InstanceAt]
        /\ at'[i] = "leaving" /\ \A q \in Procs : q # i => at'[q] = at[q]
        /\ Locked' /\ Owners' /\ \A s \in Subs : RecordOf(s)'
        /\ \A q \in Procs : at'[q] = "assigning" => reg'[cur'[q]].hold
    BY <1>0, <1>2, IdleMoves DEF Apart
  <2>2. TypeOK'
    BY <1>0, <1>2, <2>1 DEF IInv, TypeOK, subVars, JsAt, WorkerAt, InstanceAt, Serving
  <2>3. at'[JS] = at[JS] /\ \A s \in Subs : at'[Worker(s)] = at[Worker(s)]
    BY <2>1, ProcsAre
  <2>4. Positions'
    BY <1>0, <2>1, <2>3, ProcsAre DEF IInv, Positions, InstanceAt, Stages
  <2>5. Calls'
    BY <1>0, <1>2, CallsStay DEF Apart
  <2>6. Records'
    BY <1>0, <1>2, <2>1 DEF IInv, Records, EntryOf, subVars
  <2>7. \A k \in Kinds : Idle(k)' = Idle(k)
    BY <1>0 DEF Idle, Needed, subVars
  <2>8. \A k \in Kinds : k # i[1] => (Serves(k) => Serves(k)')
    BY <1>0, <2>1, <2>4, ProcsAre, ServesStays DEF IInv
  <2>9. \A k \in Kinds : Runs(k) => Runs(k)' \/ (k = i[1] /\ ~Idle(k))
    BY <2>7, <2>8 DEF Runs
  <2>10. ASSUME ~Idle(i[1])
         PROVE  \A q \in Procs :
                  /\ i[1] = "cleanup" => at[q] \notin {"assigning", "tearingDown"}
                  /\ i[1] = "dispatcher" => at[q] \notin {"registering", "publishing"}
    BY <1>2, <2>10, NeededBy DEF Idle
  <2>11. Running'
    <3>1. \A k \in Kinds : life'[k] = "running" => Runs(k)'
      BY <1>0, <1>2, <2>9 DEF IInv, TypeOK, Running
    <3>2. ASSUME NEW q \in Procs, NEW k \in Kinds, call'[q].at = "spawned", call'[q].kind = k
          PROVE  at'[<<k, call'[q].took>>] \in Serving \/ Idle(k)'
      <4>1. call'[q] = call[q] /\ <<k, call[q].took>> \in Procs /\ <<k, call[q].took>>[1] = k
        BY <1>0, <3>2, CallTypes, ProcsAre DEF IInv, Calls, None
      <4>2. at[<<k, call[q].took>>] \in Serving \/ Idle(k)
        BY <3>2, <4>1 DEF IInv, Running
      <4>3. at[q] \in IF k = "cleanup" THEN {"assigning", "tearingDown"}
                                       ELSE {"registering", "publishing"}
        BY <3>2, <4>1 DEF IInv, Calls, Starting
      <4>4. i[1] = k => Idle(k)
        BY <2>10, <4>3 DEF Kinds
      <4> QED BY <2>1, <2>7, <4>1, <4>2, <4>4
    <3>3. ASSUME NEW q \in Procs, Free(q)', call'[q].ok
          PROVE  /\ at'[q] \in {"assigning", "tearingDown"} => Runs("cleanup")'
                 /\ at'[q] = "registering" => Runs("dispatcher")'
      <4>1. at'[q] = at[q] \/ at'[q] = "leaving"
        BY <2>1
      <4>2. at[q] \in {"assigning", "tearingDown"} => Runs("cleanup")
        BY <1>0, <3>3 DEF IInv, Running, Free
      <4>3. at[q] = "registering" => Runs("dispatcher")
        BY <1>0, <3>3 DEF IInv, Running, Free
      <4>4. at'[q] \in {"assigning", "tearingDown"} => Runs("cleanup")'
        BY <2>9, <2>10, <4>1, <4>2 DEF Kinds
      <4>5. at'[q] = "registering" => Runs("dispatcher")'
        BY <2>9, <2>10, <4>1, <4>3 DEF Kinds
      <4> QED BY <4>4, <4>5
    <3> QED BY <3>1, <3>2, <3>3 DEF Running
  <2>12. CASE i[1] = "dispatcher"
    <3>1. \A s \in Subs : ~Claims(s) /\ ~reg[s].fallback
      BY <1>2, <2>12, NeededIs
    <3>2. Claimed'
      BY <1>0, <3>1 DEF Claimed, Claims, subVars
    <3>3. ASSUME NEW s \in Subs, reg'[s].hold
          PROVE  Owned(s)' \/ (Serves("dispatcher")' /\ Asked(s)')
      <4>1. Owned(s) \/ (Serves("dispatcher") /\ Asked(s))
        BY <1>0, <3>3 DEF IInv, Held, HeldOf, subVars
      <4>2. CASE Owned(s)
        <5>1. \A j \in Instances : at[j] = "releasing" => at'[j] = "releasing" /\ cur'[j] = cur[j]
          BY <1>0, <2>1, ProcsAre
        <5>2. Owning(s) => Owning(s)'
          BY <2>3, <5>1, OwningStays
        <5> QED BY <1>0, <2>8, <2>12, <3>1, <4>2, <5>2 DEF Owned, subVars, Kinds
      <4>3. CASE Asked(s)
        <5>1. PICK p \in Procs : at[p] = "assigning" /\ lock[s] = p /\ p \in Instances
          BY <3>1, <4>3 DEF Asked, Claims
        <5>2. at'[p] = "assigning" /\ p[1] = "dispatcher"
          BY <1>0, <2>1, <5>1 DEF IInv, Positions
        <5>3. Serves("dispatcher")'
          BY <2>4, <5>1, <5>2, ServesIsNext DEF Kinds, Serving
        <5> QED BY <1>0, <5>1, <5>2, <5>3 DEF Asked, subVars
      <4> QED BY <4>1, <4>2, <4>3
    <3> QED BY <3>2, <3>3, <2>1, <2>2, <2>4, <2>5, <2>6, <2>11 DEF IInv, Held, HeldOf
  <2>13. CASE i[1] = "cleanup"
    <3>1. \A s \in Subs : ~reg[s].hold
      BY <1>2, <2>13, NeededIs
    <3>2. Held'
      BY <1>0, <3>1 DEF Held, HeldOf, subVars
    <3>3. Claimed'
      BY <1>0, <2>3, <2>8, <2>13 DEF IInv, Claimed, Claims, Registering, subVars, Kinds
    <3> QED BY <3>2, <3>3, <2>1, <2>2, <2>4, <2>5, <2>6, <2>11 DEF IInv
  <2> QED BY <1>0, <2>12, <2>13 DEF Kinds
<1> QED BY <1>0, <1>1, <1>2 DEF Select, Goto

----------------------------------------------------------------------------
(* The JavaScript thread, but for what concerns registrations.             *)

SubRecords ==
  [tsfn : {"none", "live", "released", "finalized"}, owed : BOOLEAN,
   published : BOOLEAN, started : BOOLEAN, cleaned : BOOLEAN,
   finalizing : BOOLEAN, finished : BOOLEAN, held : BOOLEAN,
   promise : {"none", "asked", "queued", "joining", "settled", "aborted"}]

\* Nothing happened to the establishment or the cleanup of any subscription.
SameStages ==
  /\ sub' \in [Subs -> SubRecords]
  /\ \A s \in Subs :
       /\ sub'[s].published = sub[s].published /\ sub'[s].started = sub[s].started
       /\ sub'[s].cleaned = sub[s].cleaned /\ sub'[s].finalizing = sub[s].finalizing
       /\ sub'[s].finished = sub[s].finished

JsIdle == {"loop", "joiningDispatcher", "joiningCleanup"}

LEMMA JsMoves ==
  ASSUME IInv, NEW pc \in JsIdle, at[JS] \in JsIdle, at' = [at EXCEPT ![JS] = pc],
         UNCHANGED <<closing, next, reg, lock, threadVars, work>>, SameStages,
         cur' \in [Procs -> Subs \union {None}], \A p \in Procs : p # JS => cur'[p] = cur[p],
         call' \in [Procs -> CallRecords], \A p \in Procs : p # JS => call'[p] = call[p],
         call'[JS].at \notin Starting
  PROVE  IInv'
<1> USE DEF IInv
<1>1. /\ at' \in [Procs -> JsAt \union WorkerAt \union InstanceAt]
      /\ at'[JS] = pc /\ \A q \in Procs : q # JS => at'[q] = at[q]
  BY ProcsAre DEF TypeOK, JsIdle, JsAt, WorkerAt, InstanceAt, Serving
<1>2. TypeOK'
  BY <1>1 DEF TypeOK, threadVars, SameStages, SubRecords, CallRecords,
     JsAt, WorkerAt, InstanceAt, Serving
<1>3. /\ \A s \in Subs : at'[Worker(s)] = at[Worker(s)]
      /\ \A i \in Instances : at'[i] = at[i] /\ cur'[i] = cur[i] /\ i # JS
  BY <1>1, ProcsAre
<1>4. Positions'
  BY <1>1, <1>3 DEF Positions, threadVars, JsIdle, JsAt
<1>5. Calls'
  BY <1>1, ProcsAre DEF Calls, JsIdle, Starting
<1>6. Locked'
  BY <1>1, <1>3, ProcsAre DEF Locked, JsIdle, TypeOK
<1>7. Records'
  <2>1. \A s \in Subs : RecordOf(s)'
    BY <1>1, <1>3 DEF Records, RecordOf, Registering, SameStages, JsIdle
  <2>2. \A p \in Procs : at'[p] = "assigning" => reg'[cur'[p]].hold
    BY <1>1 DEF Records, JsIdle
  <2>3. \A i \in Instances : \A e \in work[i] : e[1] \in Subs
    BY ProcsAre DEF TypeOK, Entries
  <2> QED BY <2>1, <2>2, <2>3 DEF Records, EntryOf, SameStages
<1>8. Owners'
  <2>1. \A s \in Subs, p \in Procs : On(p, s)' <=> On(p, s)
    BY <1>3 DEF On
  <2>2. \A s \in Subs, p \in Procs : On(p, s) => p # JS
    BY ProcsAre DEF On
  <2>3. ASSUME NEW s \in Subs PROVE OwnersOf(s)'
    <3>1. OwnersOf(s)
      BY DEF Owners
    <3> QED BY <1>1, <1>3, <2>1, <2>2, <3>1 DEF OwnersOf, SameStages
  <2> QED BY <2>3 DEF Owners
<1>9. \A k \in Kinds : Idle(k)' = Idle(k)
  BY DEF Idle, Needed
<1>10. Running' /\ \A k \in Kinds : Serves(k) => Serves(k)'
  BY <1>1, <1>3, <1>4, <1>9, RunningStays DEF JsIdle, threadVars, Starting
<1>11. Claimed'
  BY <1>1, <1>10 DEF Claimed, Claims, Registering, JsIdle, Kinds
<1>12. Held'
  <2>1. \A q \in Procs : at[q] = "assigning" => at'[q] = "assigning"
    BY <1>1 DEF JsIdle
  <2>2. \A s \in Subs : (Asked(s) => Asked(s)') /\ (Owned(s) => Owned(s)')
    BY <1>3, <1>10, <2>1 DEF Asked, Owned, Owning, JsIdle, Kinds
  <2> QED BY <1>10, <2>2 DEF Held, HeldOf, Kinds
<1> QED BY <1>2, <1>4, <1>5, <1>6, <1>7, <1>8, <1>10, <1>11, <1>12

LEMMA JoinIs ==
  ASSUME TypeOK, NEW p \in Procs, NEW k \in Kinds, Join(p, k)
  PROVE  CallBecomes(p, call'[p]) /\ call'[p].at = "join"
<1> DEFINE c == [at |-> "join", kind |-> k, took |-> None, ok |-> TRUE]
<1>1. c \in CallRecords /\ c.at = "join"
  BY BoundsAssumption DEF CallRecords, None
<1> HIDE DEF c
<1>2. CallBecomes(p, c)
  BY <1>1, CallIs DEF Join, c
<1> QED BY <1>1, <1>2 DEF CallBecomes

LEMMA BridgeKeeps ==
  ASSUME IInv, NEW s \in Subs, FinalizeBridge(s) \/ Settle(s)
  PROVE  IInv'
<1>1. /\ at[JS] = "loop" /\ UNCHANGED <<closing, next, reg, lock, threadVars, at, cur, work, call>>
      /\ Free(JS) /\ JS \in Procs
  BY ProcsAre DEF FinalizeBridge, Settle, InLoop, pcVars
<1>2. SameStages
  <2>1. sub \in [Subs -> SubRecords]
    BY DEF IInv, TypeOK, SubRecords
  <2>2. CASE FinalizeBridge(s)
    <3> DEFINE d == [sub[s] EXCEPT !.tsfn = "finalized", !.owed = FALSE]
    <3>1. sub' = [sub EXCEPT ![s] = d]
      BY <2>2 DEF FinalizeBridge
    <3>2. /\ d \in SubRecords /\ d.published = sub[s].published /\ d.started = sub[s].started
          /\ d.cleaned = sub[s].cleaned /\ d.finalizing = sub[s].finalizing
          /\ d.finished = sub[s].finished
      BY <2>1, ZenonT(60) DEF SubRecords
    <3> HIDE DEF d
    <3> QED BY <2>1, <3>1, <3>2 DEF SameStages
  <2>3. CASE Settle(s)
    BY <2>1, <2>3, ZenonT(60) DEF Settle, SameStages, SubRecords
  <2> QED BY <2>2, <2>3
<1>3. at' = [at EXCEPT ![JS] = "loop"] /\ cur \in [Procs -> Subs \union {None}]
      /\ call \in [Procs -> CallRecords]
  BY <1>1 DEF IInv, TypeOK, CallRecords
<1> QED BY <1>1, <1>2, <1>3, JsMoves DEF JsIdle, Free, Starting

LEMMA CompletionKeeps ==
  ASSUME IInv, (\E s \in Subs : Complete(s)) \/ CompleteJoinsCleanup \/ Settled
  PROVE  IInv'
<1>0. JS \in Procs /\ call \in [Procs -> CallRecords]
      /\ cur \in [Procs -> Subs \union {None}] /\ sub \in [Subs -> SubRecords]
  BY ProcsAre DEF IInv, TypeOK, CallRecords, SubRecords
<1>1. ASSUME NEW s \in Subs, Complete(s) PROVE IInv'
  <2>1. CallBecomes(JS, call'[JS]) /\ call'[JS].at = "join"
    BY <1>0, <1>1, JoinIs DEF Complete, IInv, Kinds
  <2>2. SameStages
    BY <1>0, <1>1 DEF Complete, SameStages, SubRecords
  <2>3. cur' \in [Procs -> Subs \union {None}] /\ \A p \in Procs : p # JS => cur'[p] = cur[p]
    BY <1>0, <1>1 DEF Complete, WorkOn
  <2> QED BY <1>0, <1>1, <2>1, <2>2, <2>3, JsMoves
       DEF Complete, InLoop, JsIdle, Starting, CallBecomes, Goto
<1>2. CASE CompleteJoinsCleanup
  <2>1. CallBecomes(JS, call'[JS]) /\ call'[JS].at = "join"
    BY <1>0, <1>2, JoinIs DEF CompleteJoinsCleanup, IInv, Kinds
  <2>2. SameStages
    BY <1>0, <1>2 DEF CompleteJoinsCleanup, SameStages, subVars
  <2> QED BY <1>0, <1>2, <2>1, <2>2, JsMoves
       DEF CompleteJoinsCleanup, JsIdle, Starting, CallBecomes, Goto, subVars
<1>3. CASE Settled
  <2>1. SameStages
    BY <1>0, <1>3, ZenonT(60) DEF Settled, SameStages, SubRecords
  <2>2. cur' \in [Procs -> Subs \union {None}] /\ \A p \in Procs : p # JS => cur'[p] = cur[p]
    BY <1>0, <1>3 DEF Settled, WorkOn, Leaves
  <2> QED BY <1>0, <1>3, <2>1, <2>2, JsMoves DEF Settled, JsIdle, Starting, Free, Goto
<1> QED BY <1>1, <1>2, <1>3

----------------------------------------------------------------------------
(* A libuv thread once its registration is gone.                           *)

LEMMA WorkerMoves ==
  ASSUME IInv, NEW s \in Subs, NEW pc \in {"joiningDispatcher", "failing", "rejected"},
         at[Worker(s)] \in {"unpublishing", "awaiting", "joiningDispatcher", "failing"},
         at' = [at EXCEPT ![Worker(s)] = pc], ~reg[s].present,
         UNCHANGED <<closing, next, subVars, threadVars, cur, work>>,
         call' \in [Procs -> CallRecords], \A p \in Procs : p # Worker(s) => call'[p] = call[p],
         call'[Worker(s)].at \notin Starting
  PROVE  IInv'
<1> USE DEF IInv
<1>0. Worker(s) \in Procs /\ Worker(s) # JS /\ Worker(s) \notin Instances
  BY ProcsAre
<1>1. /\ at' \in [Procs -> JsAt \union WorkerAt \union InstanceAt]
      /\ at'[Worker(s)] = pc /\ \A q \in Procs : q # Worker(s) => at'[q] = at[q]
  BY <1>0 DEF TypeOK, JsAt, WorkerAt, InstanceAt, Serving
<1>2. TypeOK'
  BY <1>1 DEF TypeOK, threadVars, subVars, CallRecords, JsAt, WorkerAt, InstanceAt, Serving
<1>3. /\ at'[JS] = at[JS] /\ \A i \in Instances : at'[i] = at[i]
      /\ \A r \in Subs : r # s => at'[Worker(r)] = at[Worker(r)]
  BY <1>0, <1>1, ProcsAre
<1>4. Positions'
  BY <1>1, <1>3 DEF Positions, threadVars, WorkerAt
<1>5. Calls'
  BY <1>0, <1>1 DEF Calls, Starting
<1>6. Locked'
  BY <1>0, <1>1, <1>3, ProcsAre DEF Locked, TypeOK, subVars
<1>7. Records'
  <2>1. ASSUME NEW r \in Subs PROVE RecordOf(r)'
    <3>1. RecordOf(r)
      BY DEF Records
    <3>2. CASE r = s
      BY <1>1, <1>3, <3>1, <3>2 DEF RecordOf, Registering, subVars
    <3>3. CASE r # s
      BY <1>1, <1>3, <3>1, <3>3 DEF RecordOf, Registering, subVars
    <3> QED BY <3>2, <3>3
  <2>2. \A p \in Procs : at'[p] = "assigning" => reg'[cur'[p]].hold
    BY <1>1 DEF Records, subVars
  <2> QED BY <2>1, <2>2 DEF Records, EntryOf, subVars
<1>8. Owners'
  <2>1. \A r \in Subs, p \in Procs : On(p, r)' <=> On(p, r)
    BY DEF On
  <2>2. \A p \in Procs : at'[p] \in Stages => p # Worker(s) /\ at'[p] = at[p]
    BY <1>1 DEF Stages
  <2>3. \A p \in Procs : at[p] = "releasing" => at'[p] = at[p]
    BY <1>1
  <2>4. ASSUME NEW r \in Subs PROVE OwnersOf(r)'
    <3>1. OwnersOf(r)
      BY DEF Owners
    <3> QED BY <1>3, <2>1, <2>2, <2>3, <3>1 DEF OwnersOf, subVars, Stages
  <2> QED BY <2>4 DEF Owners
<1>9. \A k \in Kinds : Idle(k)' = Idle(k)
  BY DEF Idle, Needed, subVars
<1>10. Running' /\ \A k \in Kinds : Serves(k) => Serves(k)'
  BY <1>1, <1>3, <1>4, <1>9, RunningStays DEF threadVars, Starting
<1>11. Claimed'
  BY <1>3, <1>10 DEF Claimed, Claims, Registering, subVars, Kinds
<1>12. Held'
  <2>1. \A q \in Procs : at[q] = "assigning" => at'[q] = "assigning"
    BY <1>1
  <2>2. \A r \in Subs : (Asked(r) => Asked(r)') /\ (Owned(r) => Owned(r)')
    BY <1>1, <1>3, <1>10, <2>1 DEF Asked, Owned, Owning, subVars, Kinds
  <2> QED BY <1>10, <2>2 DEF Held, HeldOf, Kinds, subVars
<1> QED BY <1>2, <1>4, <1>5, <1>6, <1>7, <1>8, <1>10, <1>11, <1>12

LEMMA GoneKeeps ==
  ASSUME IInv, NEW s \in Subs,
         Unpublish(s) \/ WorkerAwaits(s) \/ WorkerJoinsCleanup(s) \/ Rejected(s)
  PROVE  IInv'
<1>0. Worker(s) \in Procs /\ call \in [Procs -> CallRecords] /\ RecordOf(s)
  BY ProcsAre DEF IInv, TypeOK, CallRecords, Records
<1>1. ~reg[s].present
  BY <1>0 DEF RecordOf, Unpublish, WorkerAwaits, WorkerJoinsCleanup, Rejected
<1>2. CASE Unpublish(s)
  <2>1. CallBecomes(Worker(s), call'[Worker(s)]) /\ call'[Worker(s)].at = "join"
    BY <1>0, <1>2, JoinIs DEF Unpublish, IInv, Kinds
  <2> QED BY <1>1, <1>2, <2>1, WorkerMoves DEF Unpublish, Goto, CallBecomes, Starting
<1>3. CASE WorkerAwaits(s)
  <2>1. CallBecomes(Worker(s), call'[Worker(s)]) /\ call'[Worker(s)].at = "join"
    BY <1>0, <1>3, JoinIs DEF WorkerAwaits, IInv, Kinds
  <2> QED BY <1>1, <1>3, <2>1, WorkerMoves DEF WorkerAwaits, Goto, CallBecomes, Starting
<1>4. CASE WorkerJoinsCleanup(s)
  <2>1. CallBecomes(Worker(s), call'[Worker(s)]) /\ call'[Worker(s)].at = "join"
    BY <1>0, <1>4, JoinIs DEF WorkerJoinsCleanup, IInv, Kinds
  <2> QED BY <1>1, <1>4, <2>1, WorkerMoves DEF WorkerJoinsCleanup, Goto, CallBecomes, Starting
<1>5. CASE Rejected(s)
  BY <1>0, <1>1, <1>5, WorkerMoves DEF Rejected, Goto, Free, Starting
<1> QED BY <1>2, <1>3, <1>4, <1>5

----------------------------------------------------------------------------
(* Registration and publication.                                           *)

LEMMA StartIs ==
  ASSUME TypeOK, NEW p \in Procs, NEW k \in Kinds, Start(p, k)
  PROVE  CallBecomes(p, call'[p]) /\ call'[p].at = "start" /\ call'[p].kind = k
<1> DEFINE c == [at |-> "start", kind |-> k, took |-> None, ok |-> TRUE]
<1>1. c \in CallRecords /\ c.at = "start" /\ c.kind = k
  BY BoundsAssumption DEF CallRecords, None
<1> HIDE DEF c
<1>2. CallBecomes(p, c)
  BY <1>1, CallIs DEF Start, c
<1> QED BY <1>1, <1>2 DEF CallBecomes

LEMMA ForgetIs ==
  ASSUME TypeOK, NEW p \in Procs, Forget(p)
  PROVE  CallBecomes(p, call'[p]) /\ call'[p].at = "none"
<1>1. NoCall \in CallRecords /\ NoCall.at = "none"
  BY BoundsAssumption DEF NoCall, CallRecords, Kinds, None
<1>2. CallBecomes(p, NoCall)
  BY <1>1, CallIs DEF Forget
<1> QED BY <1>1, <1>2 DEF CallBecomes

RegRecords == [present : BOOLEAN, pending : BOOLEAN, active : BOOLEAN,
               keep : BOOLEAN, fallback : BOOLEAN, hold : BOOLEAN]

LEMMA NoRegistrationIs ==
  /\ NoRegistration \in RegRecords
  /\ ~NoRegistration.present /\ ~NoRegistration.pending /\ ~NoRegistration.active
  /\ ~NoRegistration.keep /\ ~NoRegistration.fallback /\ ~NoRegistration.hold
  BY DEF NoRegistration, RegRecords

LEMMA RecordTypes ==
  ASSUME TypeOK, NEW s \in Subs
  PROVE  /\ reg[s] \in RegRecords /\ sub[s] \in SubRecords
         /\ reg[s].present \in BOOLEAN /\ reg[s].pending \in BOOLEAN /\ reg[s].active \in BOOLEAN
         /\ reg[s].keep \in BOOLEAN /\ reg[s].fallback \in BOOLEAN /\ reg[s].hold \in BOOLEAN
         /\ sub[s].owed \in BOOLEAN /\ sub[s].published \in BOOLEAN /\ sub[s].started \in BOOLEAN
         /\ sub[s].cleaned \in BOOLEAN /\ sub[s].finalizing \in BOOLEAN
         /\ sub[s].finished \in BOOLEAN /\ sub[s].held \in BOOLEAN
<1>1. reg[s] \in RegRecords /\ sub[s] \in SubRecords
  BY DEF TypeOK, RegRecords, SubRecords
<1> QED BY <1>1 DEF RegRecords, SubRecords

LEMMA RegisterKeeps ==
  ASSUME IInv, Register
  PROVE  IInv'
<1> USE DEF IInv
<1> DEFINE d == [NoRegistration EXCEPT !.present = TRUE, !.pending = TRUE]
<1>0. /\ JS \in Procs /\ next \in Subs /\ ~closing /\ at[JS] = "loop"
      /\ UNCHANGED <<closing, next, lock, sub, threadVars, cur, work>>
  BY ProcsAre DEF Register, InLoop, TypeOK, Subs
<1>1. /\ d \in RegRecords /\ d.present /\ d.pending /\ ~d.active /\ ~d.keep
      /\ ~d.fallback /\ ~d.hold
  BY NoRegistrationIs DEF RegRecords
<1>2. reg' = [reg EXCEPT ![next] = d]
  BY DEF Register
<1> HIDE DEF d
<1>3. /\ reg' \in [Subs -> RegRecords] /\ reg'[next] = d
      /\ \A s \in Subs : s # next => reg'[s] = reg[s]
  BY <1>0, <1>1, <1>2 DEF TypeOK, RegRecords
<1>4. CallBecomes(JS, call'[JS]) /\ call'[JS].at = "start" /\ call'[JS].kind = "dispatcher"
  BY <1>0, StartIs DEF Register, Kinds
<1>5. /\ at' \in [Procs -> JsAt \union WorkerAt \union InstanceAt]
      /\ at'[JS] = "registering" /\ \A q \in Procs : q # JS => at'[q] = at[q]
  BY <1>0 DEF Register, Goto, TypeOK, JsAt, WorkerAt, InstanceAt, Serving
<1>6. /\ \A s \in Subs : at'[Worker(s)] = at[Worker(s)] /\ Worker(s) # JS
      /\ \A i \in Instances : at'[i] = at[i] /\ i # JS
  BY <1>5, ProcsAre
<1>7. /\ at[Worker(next)] = "unborn" /\ ~sub[next].published /\ ~sub[next].started
      /\ ~reg[next].hold /\ ~sub[next].finished
  <2>1. RecordOf(next) /\ ~Registering(next) /\ at[Worker(next)] = "unborn"
    BY <1>0 DEF Records, Registering, Positions, TypeOK
  <2> QED BY <1>0, <2>1 DEF RecordOf, TypeOK
<1>8. TypeOK'
  BY <1>0, <1>3, <1>4, <1>5 DEF TypeOK, threadVars, CallBecomes, CallRecords, RegRecords,
     JsAt, WorkerAt, InstanceAt, Serving
<1>9. Positions'
  BY <1>0, <1>5, <1>6 DEF Positions, threadVars, JsAt, Subs
<1>10. Calls'
  BY <1>0, <1>4, <1>5 DEF Calls, CallBecomes
<1>11. Locked'
  BY <1>0, <1>5, <1>6, ProcsAre DEF Locked, TypeOK
<1>12. Records'
  <2>1. ASSUME NEW s \in Subs PROVE RecordOf(s)'
    <3>1. CASE s = next
      BY <1>0, <1>1, <1>3, <1>5, <1>6, <1>7, <3>1 DEF RecordOf, Registering
    <3>2. CASE s # next
      BY <1>0, <1>3, <1>6, <3>2 DEF Records, RecordOf, Registering
    <3> QED BY <3>1, <3>2
  <2>2. \A p \in Procs : at'[p] = "assigning" => reg'[cur'[p]].hold
    BY <1>0, <1>3, <1>5, <1>7 DEF Records, Positions
  <2>3. \A i \in Instances : \A e \in work[i] : e[1] \in Subs
    BY ProcsAre DEF TypeOK, Entries
  <2> QED BY <1>0, <1>3, <1>7, <2>1, <2>2, <2>3 DEF Records, EntryOf
<1>13. Owners'
  <2>1. \A s \in Subs, p \in Procs : (On(p, s)' <=> On(p, s)) /\ (On(p, s) => p # JS)
    BY <1>0, <1>6, ProcsAre DEF On
  <2>2. ASSUME NEW s \in Subs PROVE OwnersOf(s)'
    <3>1. OwnersOf(s)
      BY DEF Owners
    <3>2. \A i \in Instances : at[i] \in Stages /\ cur[i] = s => s # next
      BY <1>7, <3>1 DEF OwnersOf
    <3> QED BY <1>0, <1>3, <1>5, <1>6, <2>1, <3>1, <3>2 DEF OwnersOf
  <2> QED BY <2>2 DEF Owners
<1>14. Running' /\ \A k \in Kinds : Serves(k) => Serves(k)'
  <2>1. \A k \in Kinds : ~Idle(k)
    BY <1>0 DEF Idle
  <2>2. \A p \in Procs : call'[p].at = "spawned" => call'[p] = call[p]
    BY <1>4 DEF CallBecomes
  <2>3. \A p \in Procs :
          at'[p] \in {"assigning", "tearingDown", "registering"} /\ call'[p].at = "none" =>
            at'[p] = at[p] /\ call'[p] = call[p]
    BY <1>4, <1>5 DEF CallBecomes
  <2> QED BY <1>0, <1>6, <1>9, <2>1, <2>2, <2>3, RunningStays DEF threadVars
<1>15. Claimed'
  BY <1>0, <1>3, <1>5, <1>14 DEF Claimed, Claims, Registering, Kinds
<1>16. Held'
  <2>1. \A q \in Procs : at[q] = "assigning" => at'[q] = "assigning"
    BY <1>0, <1>5
  <2>2. \A s \in Subs : s # next => (Asked(s) => Asked(s)') /\ (Owned(s) => Owned(s)')
    BY <1>0, <1>3, <1>6, <1>14, <2>1 DEF Asked, Owned, Owning, Kinds
  <2> QED BY <1>1, <1>3, <1>14, <2>2 DEF Held, HeldOf, Kinds
<1> QED BY <1>8, <1>9, <1>10, <1>11, <1>12, <1>13, <1>14, <1>15, <1>16

\* Without a dispatcher, without a bridge: the registration goes, and leaves
\* nothing behind.
LEMMA RegisteredInVain ==
  ASSUME IInv, at[JS] = "registering",
         reg' = [reg EXCEPT ![next] = NoRegistration], at' = [at EXCEPT ![JS] = "loop"],
         next' = next + 1, UNCHANGED <<closing, lock, sub, threadVars, cur, work>>,
         CallBecomes(JS, call'[JS]), call'[JS].at \in {"none", "join"}
  PROVE  IInv'
<1> USE DEF IInv
<1>0. JS \in Procs /\ next \in Subs /\ ~closing
  BY ProcsAre DEF Positions, TypeOK, Subs
<1>1. /\ reg' \in [Subs -> RegRecords] /\ reg'[next] = NoRegistration
      /\ \A s \in Subs : s # next => reg'[s] = reg[s]
  BY <1>0, NoRegistrationIs DEF TypeOK, RegRecords
<1>2. /\ at' \in [Procs -> JsAt \union WorkerAt \union InstanceAt]
      /\ at'[JS] = "loop" /\ \A q \in Procs : q # JS => at'[q] = at[q]
  BY <1>0 DEF TypeOK, JsAt, WorkerAt, InstanceAt, Serving
<1>3. /\ \A s \in Subs : at'[Worker(s)] = at[Worker(s)] /\ Worker(s) # JS
      /\ \A i \in Instances : at'[i] = at[i] /\ i # JS
  BY <1>2, ProcsAre
<1>4. /\ at[Worker(next)] = "unborn" /\ ~sub[next].published /\ ~sub[next].started
      /\ ~reg[next].hold /\ ~sub[next].finished
  <2>1. RecordOf(next) /\ at[Worker(next)] = "unborn"
    BY <1>0 DEF Records, Positions, TypeOK
  <2> QED BY <1>0, <2>1, RecordTypes DEF RecordOf
<1>5. TypeOK'
  <2>1. next' \in 1..(MaxSubscriptions + 1)
    BY <1>0, BoundsAssumption DEF Subs
  <2> QED BY <1>0, <1>1, <1>2, <2>1 DEF TypeOK, threadVars, CallBecomes, CallRecords, RegRecords,
       JsAt, WorkerAt, InstanceAt, Serving
<1>6. Positions'
  <2>1. \A s \in Subs : s >= next + 1 => s >= next
    BY <1>0 DEF Subs
  <2> QED BY <1>0, <1>2, <1>3, <2>1 DEF Positions, threadVars, JsAt
<1>7. Calls'
  BY <1>0, <1>2 DEF Calls, CallBecomes, Starting
<1>8. Locked'
  BY <1>0, <1>2, <1>3, ProcsAre DEF Locked, TypeOK
<1>9. Records'
  <2>1. ASSUME NEW s \in Subs PROVE RecordOf(s)'
    <3>1. RecordOf(s)
      BY DEF Records
    <3>2. CASE s = next
      BY <1>0, <1>1, <1>2, <1>3, <1>4, <3>2, NoRegistrationIs DEF RecordOf, Registering
    <3>3. CASE s # next
      BY <1>0, <1>1, <1>2, <1>3, <3>1, <3>3 DEF RecordOf, Registering
    <3> QED BY <3>2, <3>3
  <2>2. \A p \in Procs : at'[p] = "assigning" => reg'[cur'[p]].hold
    BY <1>0, <1>1, <1>2, <1>4 DEF Records, Positions
  <2>3. \A i \in Instances : \A e \in work[i] : e[1] \in Subs
    BY ProcsAre DEF TypeOK, Entries
  <2> QED BY <1>0, <1>1, <1>4, <2>1, <2>2, <2>3 DEF Records, EntryOf
<1>10. Owners'
  <2>1. \A s \in Subs, p \in Procs : (On(p, s)' <=> On(p, s)) /\ (On(p, s) => p # JS)
    BY <1>0, <1>3, ProcsAre DEF On
  <2>2. ASSUME NEW s \in Subs PROVE OwnersOf(s)'
    <3>1. OwnersOf(s)
      BY DEF Owners
    <3>2. \A i \in Instances : at[i] \in Stages /\ cur[i] = s => s # next
      BY <1>4, <3>1 DEF OwnersOf
    <3> QED BY <1>0, <1>1, <1>2, <1>3, <2>1, <3>1, <3>2 DEF OwnersOf
  <2> QED BY <2>2 DEF Owners
<1>11. Running' /\ \A k \in Kinds : Serves(k) => Serves(k)'
  <2>1. \A k \in Kinds : ~Idle(k)
    BY <1>0 DEF Idle
  <2>2. \A p \in Procs : call'[p].at = "spawned" => call'[p] = call[p]
    BY DEF CallBecomes
  <2>3. \A p \in Procs :
          at'[p] \in {"assigning", "tearingDown", "registering"} /\ call'[p].at = "none" =>
            at'[p] = at[p] /\ call'[p] = call[p]
    BY <1>2 DEF CallBecomes
  <2> QED BY <1>0, <1>3, <1>6, <2>1, <2>2, <2>3, RunningStays DEF threadVars
<1>12. Claimed'
  BY <1>0, <1>1, <1>11, NoRegistrationIs DEF Claimed, Claims, Registering, Kinds
<1>13. Held'
  <2>1. \A q \in Procs : at[q] = "assigning" => at'[q] = "assigning"
    BY <1>0, <1>2
  <2>2. \A s \in Subs : s # next => (Asked(s) => Asked(s)') /\ (Owned(s) => Owned(s)')
    BY <1>0, <1>1, <1>3, <1>11, <2>1 DEF Asked, Owned, Owning, Kinds
  <2> QED BY <1>1, <1>11, <2>2, NoRegistrationIs DEF Held, HeldOf, Kinds
<1> QED BY <1>5, <1>6, <1>7, <1>8, <1>9, <1>10, <1>11, <1>12, <1>13

LEMMA SubIs ==
  ASSUME TypeOK, NEW s \in Subs, NEW d \in SubRecords, sub' = [sub EXCEPT ![s] = d]
  PROVE  sub' \in [Subs -> SubRecords] /\ sub'[s] = d /\ \A r \in Subs : r # s => sub'[r] = sub[r]
  BY DEF TypeOK, SubRecords

\* The bridge is there and the establishment goes to a libuv thread.
LEMMA RegisteredOk ==
  ASSUME IInv, at[JS] = "registering", Free(JS), call[JS].ok,
         sub' = [sub EXCEPT ![next].tsfn = "live"],
         at' = [at EXCEPT ![JS] = "loop", ![Worker(next)] = "establishing"],
         next' = next + 1,
         UNCHANGED <<closing, lock, reg, call, threadVars, cur, work>>
  PROVE  IInv'
<1> USE DEF IInv
<1> DEFINE d == [sub[next] EXCEPT !.tsfn = "live"]
<1>0. JS \in Procs /\ next \in Subs /\ ~closing /\ Worker(next) \in Procs /\ Worker(next) # JS
  BY ProcsAre DEF Positions, TypeOK, Subs
<1>1. /\ d \in SubRecords /\ d.published = sub[next].published /\ d.started = sub[next].started
      /\ d.cleaned = sub[next].cleaned /\ d.finalizing = sub[next].finalizing
      /\ d.finished = sub[next].finished
  BY <1>0, RecordTypes DEF SubRecords
<1> HIDE DEF d
<1>2. SameStages
  <2>1. sub' = [sub EXCEPT ![next] = d]
    BY DEF d
  <2> QED BY <1>0, <1>1, <2>1, SubIs DEF SameStages
<1>3. /\ at' \in [Procs -> JsAt \union WorkerAt \union InstanceAt]
      /\ at'[JS] = "loop" /\ at'[Worker(next)] = "establishing"
      /\ \A q \in Procs : q # JS /\ q # Worker(next) => at'[q] = at[q]
  BY <1>0 DEF TypeOK, JsAt, WorkerAt, InstanceAt, Serving
<1>4. /\ \A s \in Subs : Worker(s) # JS /\ (s # next => at'[Worker(s)] = at[Worker(s)])
      /\ \A i \in Instances : at'[i] = at[i] /\ i # JS
  BY <1>0, <1>3, ProcsAre
<1>5. /\ at[Worker(next)] = "unborn" /\ ~sub[next].published /\ ~sub[next].started
      /\ ~reg[next].hold /\ ~sub[next].finished /\ reg[next].pending /\ reg[next].present
  <2>1. RecordOf(next) /\ at[Worker(next)] = "unborn" /\ Registering(next)
    BY <1>0 DEF Records, Positions, TypeOK, Registering
  <2> QED BY <1>0, <2>1, RecordTypes DEF RecordOf
<1>6. TypeOK'
  <2>1. next' \in 1..(MaxSubscriptions + 1)
    BY <1>0, BoundsAssumption DEF Subs
  <2> QED BY <1>0, <1>2, <1>3, <2>1, ZenonT(60) DEF TypeOK, threadVars, SameStages, SubRecords,
       JsAt, WorkerAt, InstanceAt, Serving
<1>7. Positions'
  <2>1. \A s \in Subs : s >= next + 1 => s >= next /\ s # next
    BY <1>0 DEF Subs
  <2>2. \A s \in Subs : s >= next' => at'[Worker(s)] = "unborn"
    BY <1>4, <2>1 DEF Positions
  <2>3. \A s \in Subs : at'[Worker(s)] \in WorkerAt
    BY <1>3, <1>4 DEF Positions, WorkerAt
  <2>4. \A i \in Instances :
          /\ at'[i] \in InstanceAt
          /\ at'[i] = "assigning" => i[1] = "dispatcher"
          /\ i[2] > born'[i[1]] => at'[i] = "unborn"
          /\ at'[i] \in Stages => cur'[i] \in Subs
    BY <1>4 DEF Positions, threadVars
  <2>5. \A p \in Procs : at'[p] = "assigning" => cur'[p] \in Subs
    BY <1>3 DEF Positions
  <2> QED BY <1>0, <1>3, <2>2, <2>3, <2>4, <2>5 DEF Positions, JsAt
<1>8. Calls'
  <2>1. call[JS].at = "none" /\ call[Worker(next)].at \notin Starting
    BY <1>0, <1>5 DEF Calls, Free
  <2> QED BY <1>0, <1>3, <2>1 DEF Calls, Starting
<1>9. Locked'
  BY <1>0, <1>3, <1>4, <1>5, ProcsAre DEF Locked, TypeOK
<1>10. Records'
  <2>1. ASSUME NEW s \in Subs PROVE RecordOf(s)'
    <3>1. RecordOf(s)
      BY DEF Records
    <3>2. CASE s = next
      BY <1>0, <1>2, <1>3, <1>5, <3>1, <3>2 DEF RecordOf, Registering, SameStages
    <3>3. CASE s # next
      BY <1>0, <1>2, <1>3, <1>4, <3>1, <3>3 DEF RecordOf, Registering, SameStages
    <3> QED BY <3>2, <3>3
  <2>2. \A p \in Procs : at'[p] = "assigning" => reg'[cur'[p]].hold
    BY <1>3 DEF Records
  <2>3. ASSUME NEW i \in Instances, NEW e \in work'[i] PROVE EntryOf(i, e)'
    <3>1. EntryOf(i, e) /\ e[1] \in Subs
      BY ProcsAre DEF Records, TypeOK, Entries
    <3>2. sub'[e[1]].published = sub[e[1]].published /\ sub'[e[1]].started = sub[e[1]].started
      BY <1>2, <3>1 DEF SameStages
    <3> QED BY <3>1, <3>2 DEF EntryOf
  <2> QED BY <2>1, <2>2, <2>3 DEF Records
<1>11. Owners'
  <2>1. \A s \in Subs, p \in Procs : (On(p, s)' <=> On(p, s)) /\ (On(p, s) => p # JS)
    BY <1>0, <1>4, ProcsAre DEF On
  <2>2. \A p \in Procs : p # JS => (at'[p] = at[p] \/ (at'[p] = "establishing" /\ at[p] = "unborn"))
    BY <1>3, <1>5
  <2>3. ASSUME NEW s \in Subs PROVE OwnersOf(s)'
    <3>1. OwnersOf(s)
      BY DEF Owners
    <3>2. \A p \in Procs : On(p, s) => (at'[p] \in Stages => at'[p] = at[p])
                                       /\ (at[p] = "releasing" => at'[p] = at[p])
      BY <2>1, <2>2 DEF Stages
    <3>3. \A i \in Instances : i \in Procs /\ at'[i] = at[i]
      BY <1>4, ProcsAre
    <3>4. sub'[s].finalizing /\ ~sub'[s].finished =>
            \E p \in Procs : On(p, s)' /\ at'[p] = "releasing"
      BY <1>2, <2>1, <3>1, <3>2 DEF OwnersOf, SameStages
    <3>5. \A p \in Procs : On(p, s)' =>
            /\ at'[p] \in Stages => On(p, s) /\ at'[p] = at[p]
            /\ at'[p] \in {"draining", "releasing", "owning", "cleaning"} => at'[p] \in Stages
      BY <2>1, <3>2 DEF Stages
    <3>6. /\ sub'[s].published = sub[s].published /\ sub'[s].started = sub[s].started
          /\ sub'[s].cleaned = sub[s].cleaned
      BY <1>2 DEF SameStages
    <3>7. \A i \in Instances : at'[i] \in Stages /\ cur'[i] = s =>
            /\ sub'[s].published
            /\ reg'[s].present =>
               reg'[s].hold /\ (i[1] = "dispatcher" /\ at'[i] # "releasing" => reg'[s].fallback)
      BY <3>1, <3>3, <3>6 DEF OwnersOf
    <3>8. \A p \in Procs : On(p, s)' =>
            /\ at'[p] \in Stages => sub'[s].started
            /\ at'[p] \in {"draining", "releasing"} => sub'[s].cleaned
            /\ at'[p] \in {"owning", "cleaning"} => ~sub'[s].cleaned
            /\ \A q \in Procs :
                 On(q, s)' /\ at'[p] \in {"owning", "cleaning"} /\ at'[q] \in Stages => q = p
      BY <3>1, <3>5, <3>6 DEF OwnersOf
    <3> QED BY <3>1, <3>4, <3>6, <3>7, <3>8 DEF OwnersOf
  <2> QED BY <2>3 DEF Owners
<1>12. Running' /\ \A k \in Kinds : Serves(k) => Serves(k)'
  <2>1. \A k \in Kinds : ~Idle(k)
    BY <1>0 DEF Idle
  <2>2. \A p \in Procs : at'[p] \in {"assigning", "tearingDown", "registering"} => at'[p] = at[p]
    BY <1>3
  <2> QED BY <1>0, <1>4, <1>7, <2>1, <2>2, RunningStays DEF threadVars
<1>13. Serves("dispatcher")
  BY <1>0 DEF Running, Runs, Idle
<1>14. Claimed'
  BY <1>12, <1>13 DEF Claimed, Kinds
<1>15. Held'
  <2>1. \A q \in Procs : at[q] = "assigning" => at'[q] = "assigning"
    BY <1>0, <1>3, <1>5
  <2>2. \A s \in Subs : s # next => (Asked(s) => Asked(s)') /\ (Owned(s) => Owned(s)')
    BY <1>0, <1>4, <1>12, <2>1 DEF Asked, Owned, Owning, Kinds
  <2> QED BY <1>5, <1>12, <2>2 DEF Held, HeldOf, Kinds
<1> QED BY <1>6, <1>7, <1>8, <1>9, <1>10, <1>11, <1>12, <1>14, <1>15

LEMMA RegisteredKeeps ==
  ASSUME IInv, Registered
  PROVE  IInv'
<1>1. JS \in Procs
  BY ProcsAre
<1>2. CASE Forget(JS) /\ reg' = [reg EXCEPT ![next] = NoRegistration] /\ UNCHANGED sub
           /\ Goto(JS, "loop")
  BY <1>1, <1>2, ForgetIs, RegisteredInVain DEF Registered, Goto, IInv
<1>3. CASE Join(JS, "dispatcher") /\ reg' = [reg EXCEPT ![next] = NoRegistration] /\ UNCHANGED sub
           /\ Goto(JS, "loop")
  BY <1>1, <1>3, JoinIs, RegisteredInVain DEF Registered, Goto, IInv, Kinds
<1>4. CASE /\ call[JS].ok /\ sub' = [sub EXCEPT ![next].tsfn = "live"]
           /\ at' = [at EXCEPT ![JS] = "loop", ![Worker(next)] = "establishing"]
           /\ UNCHANGED <<reg, call>>
  BY <1>4, RegisteredOk DEF Registered
<1> QED BY <1>2, <1>3, <1>4 DEF Registered

----------------------------------------------------------------------------
(* Steps of one thread on one subscription.                                *)

LEMMA TypesAre ==
  ASSUME TypeOK, UNCHANGED <<closing, next, threadVars>>,
         reg' \in [Subs -> RegRecords], sub' \in [Subs -> SubRecords],
         lock' \in [Subs -> {<<>>} \union Procs],
         at' \in [Procs -> JsAt \union WorkerAt \union InstanceAt],
         cur' \in [Procs -> Subs \union {None}], work' \in [Procs -> SUBSET Entries],
         call' \in [Procs -> CallRecords]
  PROVE  TypeOK'
  BY DEF TypeOK, threadVars, RegRecords, SubRecords, CallRecords,
     JsAt, WorkerAt, InstanceAt, Serving

\* Thread p makes a step of its own, and if it works on the cleanup of anything
\* before or after it, then of s.
StepOf(p, s) ==
  /\ UNCHANGED <<closing, next, threadVars>>
  /\ at' \in [Procs -> JsAt \union WorkerAt \union InstanceAt]
  /\ cur' \in [Procs -> Subs \union {None}]
  /\ call' \in [Procs -> CallRecords]
  /\ reg' \in [Subs -> RegRecords] /\ sub' \in [Subs -> SubRecords]
  /\ lock' \in [Subs -> {<<>>} \union Procs]
  /\ \A q \in Procs : q # p => at'[q] = at[q] /\ cur'[q] = cur[q] /\ call'[q] = call[q]
  /\ \A r \in Subs : r # s =>
       reg'[r] = reg[r] /\ sub'[r] = sub[r] /\ lock'[r] = lock[r] /\ p # Worker(r)
  /\ p = JS => {at[p], at'[p]} \subseteq {"loop", "assigning"}
  /\ p = Worker(s) => at[p] # "unborn" /\ at'[p] \in WorkerAt
  /\ p \in Instances =>
       /\ {at[p], at'[p]} \subseteq Serving
       /\ at[p] \in Stages => cur[p] = s
       /\ at'[p] \in Stages => cur'[p] = s
       /\ at'[p] = "assigning" => p[1] = "dispatcher"
  /\ at[p] = "assigning" => cur[p] = s
  /\ at'[p] = "assigning" => cur'[p] = s

LEMMA StepOfStays ==
  ASSUME IInv, NEW p \in Procs, NEW s \in Subs, StepOf(p, s),
         work' \in [Procs -> SUBSET Entries]
  PROVE  /\ TypeOK' /\ Positions'
         /\ \A k \in Kinds : Serves(k) => Serves(k)'
         /\ \A r \in Subs : r # s => RecordOf(r)' /\ OwnersOf(r)' /\ HeldOf(r)'
<1> USE DEF IInv
<1>0. p = JS \/ p \in Instances \/ p = Worker(s)
  BY ProcsAre DEF StepOf
<1>1. TypeOK'
  BY TypesAre DEF StepOf
<1>2. /\ at'[JS] = at[JS] \/ (p = JS /\ {at[JS], at'[JS]} \subseteq {"loop", "assigning"})
      /\ \A r \in Subs : r # s => at'[Worker(r)] = at[Worker(r)]
      /\ at'[Worker(s)] = at[Worker(s)] \/ (p = Worker(s) /\ at[p] # "unborn" /\ at'[p] \in WorkerAt)
      /\ \A i \in Instances : (at'[i] = at[i] /\ cur'[i] = cur[i]) \/ i = p
      /\ Worker(s) \in Procs /\ JS \in Procs
  BY ProcsAre DEF StepOf
<1>3. Positions'
  <2>1. ASSUME NEW i \in Instances
        PROVE  /\ at'[i] \in InstanceAt
               /\ at'[i] = "assigning" => i[1] = "dispatcher"
               /\ i[2] > born'[i[1]] => at'[i] = "unborn"
               /\ at'[i] \in Stages => cur'[i] \in Subs
    <3>1. CASE i = p
      BY <2>1, <3>1 DEF StepOf, Positions, InstanceAt, Serving, threadVars
    <3>2. CASE i # p
      BY <1>2, <2>1, <3>2 DEF StepOf, Positions, threadVars
    <3> QED BY <3>1, <3>2
  <2>2. \A q \in Procs : at'[q] = "assigning" => cur'[q] \in Subs
    BY DEF StepOf, Positions
  <2>3. \A r \in Subs : at'[Worker(r)] \in WorkerAt /\ (r >= next' => at'[Worker(r)] = "unborn")
    BY <1>2 DEF StepOf, Positions
  <2>4. /\ at'[JS] \in JsAt /\ (closing' <=> at'[JS] \in {"tearingDown", "exited"})
        /\ at'[JS] = "registering" => next' <= MaxSubscriptions
    BY <1>2 DEF StepOf, Positions, JsAt
  <2> QED BY <2>1, <2>2, <2>3, <2>4 DEF Positions
<1>4. \A k \in Kinds : Serves(k) => Serves(k)'
  <2>1. \A i \in Instances : at[i] \in Serving => at'[i] \in Serving
    BY <1>2 DEF StepOf
  <2> QED BY <1>3, <2>1, ServesStays
<1>5. ASSUME NEW r \in Subs, r # s PROVE RecordOf(r)'
  <2>1. RecordOf(r) /\ (Registering(r)' <=> Registering(r))
    BY <1>2 DEF Records, Registering, StepOf
  <2> QED BY <1>2, <1>5, <2>1 DEF RecordOf, StepOf
<1>6. ASSUME NEW r \in Subs, r # s PROVE OwnersOf(r)'
  <2>1. OwnersOf(r)
    BY DEF Owners
  <2>2. \A q \in Procs : On(q, r)' /\ at'[q] \in Stages => On(q, r) /\ at'[q] = at[q]
    BY <1>0, <1>6, ProcsAre DEF On, StepOf
  <2>3. \A q \in Procs : On(q, r) /\ at[q] \in Stages => On(q, r)' /\ at'[q] = at[q]
    BY <1>0, <1>6, ProcsAre DEF On, StepOf
  <2>4. \A i \in Instances : i \in Procs /\ (cur'[i] = r => On(i, r)') /\ (On(i, r) /\ at[i] \in Stages => cur[i] = r)
    BY ProcsAre DEF On
  <2>5. reg'[r] = reg[r] /\ sub'[r] = sub[r]
    BY <1>6 DEF StepOf
  <2> QED BY <2>1, <2>2, <2>3, <2>4, <2>5 DEF OwnersOf, Stages
<1>7. ASSUME NEW r \in Subs, r # s PROVE HeldOf(r)'
  <2>1. HeldOf(r) /\ reg'[r] = reg[r] /\ lock'[r] = lock[r] /\ at'[Worker(r)] = at[Worker(r)]
    BY <1>2, <1>7 DEF Held, StepOf
  <2>2. Owned(r) => Owned(r)'
    <3>1. \A i \in Instances : at[i] = "releasing" /\ cur[i] = r => i # p
      BY <1>7 DEF StepOf, Stages
    <3>2. Owning(r) => Owning(r)'
      BY <1>2, <2>1, <3>1, OwningStays
    <3> QED BY <1>4, <2>1, <3>2 DEF Owned, Kinds
  <2>3. Asked(r) => Asked(r)'
    <3>1. \A q \in Procs : at[q] = "assigning" /\ lock[r] = q => q # p
      BY <1>7, ProcsAre DEF Locked, StepOf
    <3> QED BY <1>2, <2>1, <3>1 DEF Asked, StepOf
  <2> QED BY <1>4, <2>1, <2>2, <2>3 DEF HeldOf, Kinds
<1> QED BY <1>1, <1>3, <1>4, <1>5, <1>6, <1>7

\* What of the other parts is left to show for such a step.
LEMMA StepOfKeeps ==
  ASSUME IInv, NEW p \in Procs, NEW s \in Subs, StepOf(p, s),
         work' \in [Procs -> SUBSET Entries],
         \A i \in Instances : work'[i] \subseteq work[i],
         sub[s].published => sub'[s].published, sub[s].started => sub'[s].started,
         reg[s].hold \/ ~reg[s].present => reg'[s].hold \/ ~reg'[s].present,
         reg'[s].present => reg[s].present /\ (reg[s].fallback => reg'[s].fallback \/ sub'[s].started),
         at'[p] = "assigning" => reg'[s].hold,
         \A q \in Procs : q # p /\ at[q] = "assigning" /\ lock[s] = q => reg'[s].hold,
         closing => (reg'[s].hold => reg[s].hold),
         RecordOf(s)', OwnersOf(s)', HeldOf(s)',
         Calls', Locked',
         call'[p].at = "spawned" => call'[p] = call[p],
         at'[p] = "assigning" /\ call'[p].at = "none" =>
           at'[p] = at[p] /\ call'[p] = call[p],
         ~closing /\ Claims(s)' => Serves("dispatcher")' \/ Claims(s)
  PROVE  IInv'
<1> USE DEF IInv
<1>1. /\ TypeOK' /\ Positions'
      /\ \A k \in Kinds : Serves(k) => Serves(k)'
      /\ \A r \in Subs : RecordOf(r)' /\ OwnersOf(r)' /\ HeldOf(r)'
  BY StepOfStays
<1>2. Records'
  <2>1. ASSUME NEW q \in Procs, at'[q] = "assigning" PROVE reg'[cur'[q]].hold
    <3>1. CASE q = p
      BY <2>1, <3>1 DEF StepOf
    <3>2. CASE q # p
      <4>1. at[q] = "assigning" /\ cur'[q] = cur[q] /\ cur[q] \in Subs /\ reg[cur[q]].hold /\ lock[cur[q]] = q
        BY <2>1, <3>2 DEF StepOf, Records, Positions, Locked
      <4> QED BY <3>2, <4>1 DEF StepOf
    <3> QED BY <3>1, <3>2
  <2>2. ASSUME NEW i \in Instances, NEW e \in work'[i] PROVE EntryOf(i, e)'
    <3>1. e \in work[i] /\ e[1] \in Subs
      BY ProcsAre DEF TypeOK, Entries
    <3>2. EntryOf(i, e)
      BY <3>1 DEF Records
    <3>3. CASE e[1] = s
      BY <3>2, <3>3 DEF EntryOf
    <3>4. CASE e[1] # s
      BY <3>1, <3>2, <3>4 DEF EntryOf, StepOf
    <3> QED BY <3>3, <3>4
  <2> QED BY <1>1, <2>1, <2>2 DEF Records
<1>3. \A i \in Instances : at[i] \in Serving => at'[i] \in Serving
  BY ProcsAre DEF StepOf
<1>4. Running'
  <2>1. \A k \in Kinds : Idle(k) => Idle(k)'
    <3>1. \A r \in Subs : closing => (reg'[r].hold => reg[r].hold)
      BY DEF StepOf
    <3>2. closing /\ ~Needed("cleanup") => ~Needed("cleanup")'
      <4>1. \A r \in Subs : reg[r].hold => reg[r].present
        BY RecordTypes DEF Records, RecordOf
      <4> QED BY <3>1, <4>1 DEF Needed
    <3> QED BY <3>2 DEF Idle, StepOf, Kinds
  <2>2. \A q \in Procs : call'[q].at = "spawned" => call'[q] = call[q]
    BY DEF StepOf
  <2>3. \A q \in Procs :
          at'[q] \in {"assigning", "tearingDown", "registering"} /\ call'[q].at = "none" =>
            at'[q] = at[q] /\ call'[q] = call[q]
    <3>1. at'[p] \notin {"tearingDown", "registering"}
      BY ProcsAre DEF StepOf, WorkerAt, Serving
    <3> QED BY <3>1 DEF StepOf
  <2> QED BY <1>1, <1>3, <2>1, <2>2, <2>3, RunningStays DEF StepOf, threadVars
<1>5. Claimed'
  <2>1. \A r \in Subs : Registering(r)' <=> Registering(r)
    BY ProcsAre DEF Registering, StepOf
  <2>2. ASSUME NEW r \in Subs, ~closing, Claims(r)'
        PROVE  Serves("dispatcher")' \/ Registering(r)'
    <3>1. Serves("dispatcher")' \/ Claims(r)
      BY <2>2 DEF StepOf, Claims
    <3> QED BY <1>1, <2>1, <2>2, <3>1 DEF Claimed, Kinds
  <2> QED BY <2>2 DEF Claimed, StepOf
<1> QED BY <1>1, <1>2, <1>4, <1>5 DEF Owners, Held

\* A registration's mutex is taken and released by the thread that makes the step.
LEMMA LockedKeeps ==
  ASSUME IInv, NEW p \in Procs, NEW s \in Subs, StepOf(p, s),
         \/ /\ lock'[s] = lock[s] /\ lock[s] # p
            /\ at'[p] \notin {"assigning", "publishing"}
         \/ /\ lock[s] \in {<<>>, p} /\ lock'[s] = <<>>
            /\ at'[p] \notin {"assigning", "publishing"}
         \/ /\ lock[s] = <<>> /\ lock'[s] = p
            /\ at'[p] = "assigning" \/ (at'[p] = "publishing" /\ p = Worker(s))
  PROVE  Locked'
<1> USE DEF IInv
<1>1. <<>> \notin Procs /\ \A r \in Subs : Worker(r) \in Procs
  BY ProcsAre
<1>2. \A q \in Procs : q # p => at'[q] = at[q] /\ cur'[q] = cur[q]
  BY DEF StepOf
<1>3. \A r \in Subs : r # s => lock'[r] = lock[r] /\ p # Worker(r)
  BY DEF StepOf
<1>4. /\ at[p] = "assigning" => cur[p] = s
      /\ at'[p] = "assigning" => cur'[p] = s
      /\ \A r \in Subs : lock[r] \in Procs \union {<<>>}
  BY DEF StepOf, TypeOK
<1>5. ASSUME NEW r \in Subs, lock'[r] # <<>>
      PROVE  \/ at'[lock'[r]] = "assigning" /\ cur'[lock'[r]] = r
             \/ at'[lock'[r]] = "publishing" /\ lock'[r] = Worker(r)
  <2>1. CASE r = s
    <3>1. CASE lock'[s] = p
      BY <1>1, <1>4, <1>5, <2>1, <3>1
    <3>2. CASE lock'[s] = lock[s] /\ lock[s] # p
      <4>1. lock[s] \in Procs
        BY <1>4, <1>5, <2>1, <3>2
      <4>2. \/ at[lock[s]] = "assigning" /\ cur[lock[s]] = s
            \/ at[lock[s]] = "publishing" /\ lock[s] = Worker(s)
        BY <1>5, <2>1, <3>2 DEF Locked
      <4> QED BY <1>2, <2>1, <3>2, <4>1, <4>2
    <3> QED BY <1>5, <2>1, <3>1, <3>2
  <2>2. CASE r # s
    <3>1. lock'[r] = lock[r] /\ lock[r] \in Procs
      BY <1>3, <1>4, <1>5, <2>2
    <3>2. \/ at[lock[r]] = "assigning" /\ cur[lock[r]] = r
          \/ at[lock[r]] = "publishing" /\ lock[r] = Worker(r)
      BY <1>5, <3>1 DEF Locked
    <3>3. lock[r] # p
      BY <1>3, <1>4, <2>2, <3>2
    <3> QED BY <1>2, <3>1, <3>2, <3>3
  <2> QED BY <2>1, <2>2
<1>6. ASSUME NEW q \in Procs, at'[q] = "assigning" PROVE lock'[cur'[q]] = q
  <2>1. CASE q = p
    BY <1>4, <1>6, <2>1
  <2>2. CASE q # p
    <3>1. at[q] = "assigning" /\ cur'[q] = cur[q] /\ lock[cur[q]] = q /\ cur[q] \in Subs
      BY <1>2, <1>6, <2>2 DEF Locked, Positions
    <3>2. cur[q] = s => lock'[s] = q
      BY <1>1, <2>2, <3>1
    <3> QED BY <1>3, <3>1, <3>2
  <2> QED BY <2>1, <2>2
<1>7. ASSUME NEW r \in Subs, at'[Worker(r)] = "publishing" PROVE lock'[r] = Worker(r)
  <2>1. CASE Worker(r) = p
    BY <1>3, <1>7, <2>1
  <2>2. CASE Worker(r) # p
    <3>1. at[Worker(r)] = "publishing" /\ lock[r] = Worker(r)
      BY <1>1, <1>2, <1>7, <2>2 DEF Locked
    <3>2. r = s => lock'[s] = Worker(s)
      BY <1>1, <2>2, <3>1
    <3> QED BY <1>3, <3>1, <3>2
  <2> QED BY <2>1, <2>2
<1> QED BY <1>5, <1>6, <1>7 DEF Locked

LEMMA RegisteredBefore ==
  ASSUME IInv, NEW s \in Subs, at[Worker(s)] # "unborn"
  PROVE  ~Registering(s)
  BY DEF IInv, TypeOK, Positions, Registering, Subs

LEMMA EstablishmentFailsKeeps ==
  ASSUME IInv, NEW s \in Subs, EstablishmentFails(s)
  PROVE  IInv'
<1> USE DEF IInv
<1> DEFINE p == Worker(s)
           d == [sub[s] EXCEPT !.tsfn = IF sub[s].tsfn = "live" THEN "released" ELSE sub[s].tsfn]
<1>0. /\ p \in Procs /\ p # JS /\ p \notin Instances /\ at[p] = "establishing"
      /\ \A r \in Subs : r # s => p # Worker(r)
      /\ UNCHANGED <<closing, next, lock, threadVars, cur, work, call>>
      /\ RecordOf(s) /\ OwnersOf(s)
  BY ProcsAre DEF EstablishmentFails, Records, Owners
<1>1. /\ d \in SubRecords /\ d.published = sub[s].published /\ d.started = sub[s].started
      /\ d.cleaned = sub[s].cleaned /\ d.finalizing = sub[s].finalizing
      /\ d.finished = sub[s].finished /\ sub' = [sub EXCEPT ![s] = d]
  BY RecordTypes DEF SubRecords, EstablishmentFails
<1> HIDE DEF d
<1>2. /\ sub' \in [Subs -> SubRecords] /\ sub'[s] = d /\ \A r \in Subs : r # s => sub'[r] = sub[r]
  BY <1>1, SubIs
<1>3. /\ reg' \in [Subs -> RegRecords] /\ reg'[s] = NoRegistration
      /\ \A r \in Subs : r # s => reg'[r] = reg[r]
  BY NoRegistrationIs DEF EstablishmentFails, TypeOK, RegRecords
<1>4. /\ at' \in [Procs -> JsAt \union WorkerAt \union InstanceAt]
      /\ at'[p] = "unpublishing" /\ \A q \in Procs : q # p => at'[q] = at[q]
  BY <1>0 DEF EstablishmentFails, Goto, TypeOK, JsAt, WorkerAt, InstanceAt, Serving
<1> HIDE DEF p
<1>5. StepOf(p, s)
  BY <1>0, <1>2, <1>3, <1>4 DEF StepOf, TypeOK, CallRecords, threadVars, WorkerAt
<1>6. ~reg[s].hold /\ ~sub[s].published /\ ~sub[s].started /\ ~sub[s].finished
  BY <1>0, RecordTypes DEF RecordOf, p
<1>7. Calls'
  BY <1>0, <1>4 DEF Calls, Starting
<1>8. Locked'
  BY <1>0, <1>4, ProcsAre DEF Locked, TypeOK, p
<1>9. RecordOf(s)'
  <2>1. ~Registering(s)'
    BY <1>0, <1>4, RegisteredBefore, ProcsAre DEF Registering, p
  <2> QED BY <1>0, <1>1, <1>2, <1>3, <1>4, <1>6, <2>1, NoRegistrationIs DEF RecordOf, p
<1>10. OwnersOf(s)'
  <2>1. \A q \in Procs : (On(q, s)' <=> On(q, s)) /\ (On(q, s) => at[q] \notin Stages \/ q = p)
    BY <1>0, <1>6 DEF On, OwnersOf
  <2>2. \A q \in Procs : On(q, s)' => at'[q] \notin Stages
    BY <1>4, <2>1 DEF Stages
  <2>3. \A i \in Instances : i \in Procs /\ (cur'[i] = s => On(i, s)')
    BY ProcsAre DEF On
  <2>4. ~sub'[s].cleaned /\ ~sub'[s].finalizing
    <3>1. \A q \in Procs : On(q, s) => at[q] # "releasing"
      BY <1>0, <2>1 DEF Stages
    <3> QED BY <1>0, <1>1, <1>2, <1>6, <3>1, RecordTypes DEF OwnersOf
  <2> QED BY <2>2, <2>3, <2>4 DEF OwnersOf, Stages
<1>11. HeldOf(s)' /\ ~Claims(s)'
  BY <1>3, NoRegistrationIs DEF HeldOf, Claims
<1>12. \A q \in Procs : at[q] = "assigning" => lock[s] # q
  BY <1>0, <1>6, ProcsAre DEF Records, Locked
<1>13. /\ work' \in [Procs -> SUBSET Entries] /\ \A i \in Instances : work'[i] \subseteq work[i]
       /\ ~reg'[s].hold /\ ~reg'[s].present /\ at'[p] # "assigning"
       /\ sub[s].published => sub'[s].published
       /\ sub[s].started => sub'[s].started
       /\ call'[p].at = "spawned" => call'[p] = call[p]
  BY <1>0, <1>1, <1>2, <1>3, <1>4, NoRegistrationIs DEF TypeOK
<1> QED BY <1>0, <1>5, <1>7, <1>8, <1>9, <1>10, <1>11, <1>12, <1>13, StepOfKeeps

\* A step of the libuv thread of s: pc is where it goes, e, d and l are what it
\* leaves of the subscription.
WorkerDoes(s, pc, e, d, l) ==
  /\ pc \in WorkerAt /\ at[Worker(s)] # "unborn"
  /\ e \in RegRecords /\ d \in SubRecords /\ l \in {<<>>} \union Procs
  /\ at' = [at EXCEPT ![Worker(s)] = pc]
  /\ reg' = [reg EXCEPT ![s] = e] /\ sub' = [sub EXCEPT ![s] = d] /\ lock' = [lock EXCEPT ![s] = l]
  /\ UNCHANGED <<closing, next, threadVars, work>>
  /\ cur' \in [Procs -> Subs \union {None}]
  /\ \A q \in Procs : q # Worker(s) => cur'[q] = cur[q]
  /\ call' \in [Procs -> CallRecords]
  /\ \A q \in Procs : q # Worker(s) => call'[q] = call[q]

WorkerDone(s, pc, e, d, l) ==
  /\ StepOf(Worker(s), s) /\ Worker(s) \in Procs
  /\ at'[Worker(s)] = pc /\ reg'[s] = e /\ sub'[s] = d /\ lock'[s] = l
  /\ ~Registering(s)' /\ at'[JS] = at[JS]
  /\ \A i \in Instances : at'[i] = at[i] /\ cur'[i] = cur[i] /\ i # Worker(s) /\ i \in Procs
  /\ \A q \in Procs : On(q, s)' <=> On(q, s)
  /\ \A q \in Procs : q # Worker(s) => at'[q] = at[q] /\ call'[q] = call[q]
  /\ \A r \in Subs : r # s => lock'[r] = lock[r] /\ Worker(r) # Worker(s)
  /\ work' \in [Procs -> SUBSET Entries] /\ \A i \in Instances : work'[i] \subseteq work[i]

LEMMA WorkerStep ==
  ASSUME IInv, NEW s \in Subs, NEW pc, NEW e, NEW d, NEW l, WorkerDoes(s, pc, e, d, l)
  PROVE  WorkerDone(s, pc, e, d, l)
<1> USE DEF IInv, WorkerDoes
<1>1. /\ Worker(s) \in Procs /\ Worker(s) # JS /\ JS \in Procs /\ Worker(s) \notin Instances
      /\ \A r \in Subs : r # s => Worker(s) # Worker(r)
      /\ \A i \in Instances : i \in Procs /\ i # Worker(s)
  BY ProcsAre
<1>2. /\ at' \in [Procs -> JsAt \union WorkerAt \union InstanceAt]
      /\ at'[Worker(s)] = pc /\ \A q \in Procs : q # Worker(s) => at'[q] = at[q]
  BY <1>1 DEF TypeOK, JsAt, WorkerAt, InstanceAt, Serving
<1>3. /\ sub' \in [Subs -> SubRecords] /\ sub'[s] = d /\ \A r \in Subs : r # s => sub'[r] = sub[r]
  BY SubIs
<1>4. /\ reg' \in [Subs -> RegRecords] /\ reg'[s] = e /\ \A r \in Subs : r # s => reg'[r] = reg[r]
  BY DEF TypeOK, RegRecords
<1>5. /\ lock' \in [Subs -> {<<>>} \union Procs] /\ lock'[s] = l
      /\ \A r \in Subs : r # s => lock'[r] = lock[r]
  BY DEF TypeOK
<1>6. at[Worker(s)] # "assigning" /\ pc # "assigning"
  BY DEF Positions, WorkerAt
<1>7. StepOf(Worker(s), s)
  BY <1>1, <1>2, <1>3, <1>4, <1>5, <1>6 DEF StepOf
<1>8. ~Registering(s)' /\ at'[JS] = at[JS]
  BY <1>1, <1>2, RegisteredBefore DEF Registering
<1>9. \A q \in Procs : On(q, s)' <=> On(q, s)
  BY <1>1 DEF On
<1>10. work' \in [Procs -> SUBSET Entries] /\ \A i \in Instances : work'[i] \subseteq work[i]
  BY DEF TypeOK
<1> QED BY <1>1, <1>2, <1>3, <1>4, <1>5, <1>7, <1>8, <1>9, <1>10 DEF WorkerDone

LEMMA Unaltered ==
  ASSUME TypeOK, NEW s \in Subs
  PROVE  /\ UNCHANGED reg => reg' = [reg EXCEPT ![s] = reg[s]]
         /\ UNCHANGED sub => sub' = [sub EXCEPT ![s] = sub[s]]
         /\ UNCHANGED lock => lock' = [lock EXCEPT ![s] = lock[s]]
         /\ reg[s] \in RegRecords /\ sub[s] \in SubRecords /\ lock[s] \in {<<>>} \union Procs
         /\ cur \in [Procs -> Subs \union {None}] /\ call \in [Procs -> CallRecords]
  BY DEF TypeOK, RegRecords, SubRecords, CallRecords

\* A registration is published, unless the environment closes.
LEMMA PublishKeeps ==
  ASSUME IInv, NEW s \in Subs, Publish(s)
  PROVE  IInv'
<1> USE DEF IInv
<1> DEFINE p == Worker(s)
<1>0. /\ at[p] = "establishing" /\ lock[s] = <<>> /\ at[p] \notin Stages
      /\ UNCHANGED <<closing, next, threadVars, cur, work>>
      /\ RecordOf(s) /\ OwnersOf(s)
  BY DEF Publish, Records, Owners, Stages
<1>1. /\ ~reg[s].hold /\ ~sub[s].published /\ ~sub[s].started /\ ~sub[s].finished
      /\ reg[s].present /\ (closing \/ reg[s].pending) /\ ~sub[s].cleaned
      /\ ~reg[s].active /\ ~reg[s].keep /\ ~reg[s].fallback
  BY <1>0, RecordTypes DEF RecordOf, OwnersOf
<1>2. /\ \A q \in Procs : On(q, s) => at[q] \notin Stages
      /\ ~sub[s].finalizing
  <2>1. \A q \in Procs : On(q, s) => at[q] \notin Stages
    BY <1>0, <1>1 DEF OwnersOf
  <2> QED BY <1>0, <1>1, <2>1, RecordTypes DEF OwnersOf, Stages
<1>3. call[p].at \notin Starting /\ p \in Procs
  BY <1>0, ProcsAre DEF Calls
<1>4. \A q \in Procs : at[q] = "assigning" => lock[s] # q
  BY <1>0, ProcsAre
<1>5. CASE /\ closing /\ sub' = [sub EXCEPT ![s].started = TRUE]
           /\ at' = [at EXCEPT ![p] = "owning"] /\ UNCHANGED <<reg, lock, call>>
  <2> DEFINE d == [sub[s] EXCEPT !.started = TRUE]
  <2>1. /\ d \in SubRecords /\ d.published = sub[s].published /\ d.started
        /\ d.cleaned = sub[s].cleaned /\ d.finalizing = sub[s].finalizing
        /\ d.finished = sub[s].finished /\ sub' = [sub EXCEPT ![s] = d]
    BY <1>5, RecordTypes DEF SubRecords
  <2> HIDE DEF d
  <2>2. "owning" \in WorkerAt
    BY DEF WorkerAt
  <2>3. WorkerDone(s, "owning", reg[s], d, lock[s])
    <3>1. WorkerDoes(s, "owning", reg[s], d, lock[s])
      BY <1>0, <1>5, <2>1, <2>2, Unaltered DEF WorkerDoes
    <3> QED BY <3>1, WorkerStep
  <2>4. Calls'
    BY <1>3, <1>5, <2>3 DEF WorkerDone, Calls
  <2>5. Locked'
    BY <1>0, <1>5, <2>3, ProcsAre DEF WorkerDone, Locked
  <2>6. RecordOf(s)'
    BY <1>0, <1>1, <2>1, <2>3 DEF WorkerDone, RecordOf
  <2>7. OwnersOf(s)'
    <3>1. \A q \in Procs : On(q, s)' /\ at'[q] \in Stages => q = p
      BY <1>2, <2>3 DEF WorkerDone
    <3>2. \A i \in Instances : cur'[i] = s => at'[i] \notin Stages
      BY <1>2, <2>3 DEF WorkerDone, On
    <3> QED BY <1>1, <1>2, <2>1, <2>3, <3>1, <3>2 DEF WorkerDone, OwnersOf, Stages
  <2>9. HeldOf(s)'
    BY <1>1, <1>5, <2>3 DEF WorkerDone, HeldOf
  <2> QED BY <1>0, <1>1, <1>3, <1>4, <1>5, <2>1, <2>3, <2>4, <2>5, <2>6, <2>7, <2>9, StepOfKeeps DEF WorkerDone
<1>6. CASE /\ ~closing
           /\ reg' = [reg EXCEPT ![s].pending = FALSE, ![s].active = TRUE]
           /\ sub' = [sub EXCEPT ![s].published = TRUE]
           /\ lock' = [lock EXCEPT ![s] = p]
           /\ Start(p, "dispatcher")
           /\ at' = [at EXCEPT ![p] = "publishing"]
  <2> DEFINE d == [sub[s] EXCEPT !.published = TRUE]
             e == [reg[s] EXCEPT !.pending = FALSE, !.active = TRUE]
  <2>1. /\ d \in SubRecords /\ d.published /\ d.started = sub[s].started
        /\ d.cleaned = sub[s].cleaned /\ d.finalizing = sub[s].finalizing
        /\ d.finished = sub[s].finished /\ sub' = [sub EXCEPT ![s] = d]
    BY <1>6, RecordTypes DEF SubRecords
  <2>2. /\ e \in RegRecords /\ e.present = reg[s].present /\ ~e.pending /\ e.active
        /\ e.keep = reg[s].keep /\ e.fallback = reg[s].fallback /\ e.hold = reg[s].hold
        /\ reg' = [reg EXCEPT ![s] = e]
    BY <1>6, RecordTypes DEF RegRecords
  <2> HIDE DEF d, e
  <2>3. CallBecomes(p, call'[p]) /\ call'[p].at = "start" /\ call'[p].kind = "dispatcher"
    BY <1>3, <1>6, StartIs DEF Kinds
  <2>4. "publishing" \in WorkerAt
    BY DEF WorkerAt
  <2>5. WorkerDone(s, "publishing", e, d, p)
    <3>1. WorkerDoes(s, "publishing", e, d, p)
      BY <1>0, <1>3, <1>6, <2>1, <2>2, <2>3, <2>4, Unaltered DEF WorkerDoes, CallBecomes
    <3> QED BY <3>1, WorkerStep
  <2>6. Calls'
    BY <2>3, <2>5 DEF WorkerDone, Calls
  <2>7. Locked'
    BY <1>0, <1>3, <2>5, LockedKeeps DEF WorkerDone
  <2>8. RecordOf(s)'
    BY <1>0, <1>1, <2>1, <2>2, <2>5 DEF WorkerDone, RecordOf
  <2>9. OwnersOf(s)'
    <3>1. \A q \in Procs : On(q, s)' => at'[q] \notin Stages
      BY <1>2, <2>5 DEF WorkerDone, Stages
    <3>2. \A i \in Instances : cur'[i] = s => at'[i] \notin Stages
      BY <1>2, <2>5 DEF WorkerDone, On
    <3> QED BY <1>1, <1>2, <2>1, <2>5, <3>1, <3>2 DEF WorkerDone, OwnersOf, Stages
  <2>10. HeldOf(s)'
    BY <1>1, <2>2, <2>5 DEF WorkerDone, HeldOf
  <2>11. Claims(s)
    BY <1>1, <1>6 DEF Claims
  <2> QED BY <1>1, <1>4, <1>6, <2>1, <2>2, <2>3, <2>5, <2>6, <2>7, <2>8, <2>9, <2>10, <2>11, StepOfKeeps DEF WorkerDone
<1> QED BY <1>5, <1>6 DEF Publish, Goto

\* The dispatcher answered: the subscription is resolved, or it is cleaned up by
\* whoever is first.
LEMMA PublishedKeeps ==
  ASSUME IInv, NEW s \in Subs, Published(s)
  PROVE  IInv'
<1> USE DEF IInv
<1> DEFINE p == Worker(s)
<1>0. /\ at[p] = "publishing" /\ p \in Procs /\ lock[s] = p
      /\ UNCHANGED <<closing, next, threadVars, cur, work>>
      /\ RecordOf(s) /\ OwnersOf(s) /\ HeldOf(s)
  BY ProcsAre DEF Published, Records, Owners, Held, Locked
<1>1. CallBecomes(p, call'[p]) /\ call'[p].at = "none"
  BY <1>0, ForgetIs DEF Published
<1>2. /\ lock' = [lock EXCEPT ![s] = <<>>]
      /\ \A q \in Procs : at[q] = "assigning" => lock[s] # q
  BY <1>0 DEF Published
<1>3. /\ reg[s].present /\ sub[s].published /\ (closing \/ reg[s].active)
      /\ (sub[s].started => reg[s].hold)
  BY <1>0 DEF RecordOf
<1>4. CASE at' = [at EXCEPT ![p] = "resolved"] /\ UNCHANGED <<reg, sub>>
  <2>1. "resolved" \in WorkerAt
    BY DEF WorkerAt
  <2>2. WorkerDone(s, "resolved", reg[s], sub[s], <<>>)
    <3>1. WorkerDoes(s, "resolved", reg[s], sub[s], <<>>)
      BY <1>0, <1>1, <1>2, <1>4, <2>1, Unaltered DEF WorkerDoes, CallBecomes
    <3> QED BY <3>1, WorkerStep
  <2>3. Calls'
    BY <1>1, <2>2 DEF WorkerDone, Calls, Starting
  <2>4. Locked'
    BY <1>0, <2>2, LockedKeeps DEF WorkerDone
  <2>5. RecordOf(s)'
    BY <1>0, <1>3, <2>2 DEF WorkerDone, RecordOf, StepOf
  <2>6. OwnersOf(s)'
    BY <1>0, <2>2 DEF WorkerDone, OwnersOf, Stages
  <2>7. HeldOf(s)' /\ (Claims(s)' <=> Claims(s))
    <3>1. \A k \in Kinds : Serves(k) => Serves(k)'
      BY <2>2, StepOfStays DEF WorkerDone
    <3>2. Owning(s) => Owning(s)'
      BY <1>0, <2>2, OwningStays, ProcsAre DEF WorkerDone, Stages
    <3> QED BY <1>0, <1>2, <2>2, <3>1, <3>2 DEF WorkerDone, HeldOf, Owned, Asked, Claims, Kinds
  <2> QED BY <1>0, <1>1, <1>2, <2>2, <2>3, <2>4, <2>5, <2>6, <2>7, StepOfKeeps DEF WorkerDone
<1>5. ASSUME NEW pc \in WorkerAt, pc = IF sub[s].started THEN "awaiting" ELSE "owning",
             reg' = [reg EXCEPT ![s].active = FALSE, ![s].keep = TRUE],
             sub' = [sub EXCEPT ![s].started = TRUE], at' = [at EXCEPT ![p] = pc]
      PROVE  IInv'
  <2> DEFINE d == [sub[s] EXCEPT !.started = TRUE]
             e == [reg[s] EXCEPT !.active = FALSE, !.keep = TRUE]
  <2>1. /\ d \in SubRecords /\ d.published = sub[s].published /\ d.started
        /\ d.cleaned = sub[s].cleaned /\ d.finalizing = sub[s].finalizing
        /\ d.finished = sub[s].finished /\ sub' = [sub EXCEPT ![s] = d]
    BY <1>5, RecordTypes DEF SubRecords
  <2>2. /\ e \in RegRecords /\ e.present = reg[s].present /\ e.pending = reg[s].pending /\ ~e.active
        /\ e.keep /\ e.fallback = reg[s].fallback /\ e.hold = reg[s].hold
        /\ reg' = [reg EXCEPT ![s] = e]
    BY <1>5, RecordTypes DEF RegRecords
  <2> HIDE DEF d, e
  <2>3. WorkerDone(s, pc, e, d, <<>>)
    <3>1. WorkerDoes(s, pc, e, d, <<>>)
      BY <1>0, <1>1, <1>2, <1>5, <2>1, <2>2, Unaltered DEF WorkerDoes, CallBecomes
    <3> QED BY <3>1, WorkerStep
  <2>4. pc \in {"awaiting", "owning"}
    BY <1>5
  <2>5. Calls'
    BY <1>1, <2>3, <2>4 DEF WorkerDone, Calls, Starting
  <2>6. Locked'
    BY <1>0, <2>3, <2>4, LockedKeeps DEF WorkerDone
  <2>7. RecordOf(s)'
    BY <1>0, <1>3, <1>5, <2>1, <2>2, <2>3, <2>4 DEF WorkerDone, RecordOf
  <2>8. OwnersOf(s)'
    <3>1. CASE sub[s].started
      BY <1>0, <1>5, <2>1, <2>2, <2>3, <3>1 DEF WorkerDone, OwnersOf, Stages
    <3>2. CASE ~sub[s].started
      <4>1. /\ \A q \in Procs : On(q, s) => at[q] \notin Stages
            /\ ~sub[s].cleaned /\ ~(sub[s].finalizing /\ ~sub[s].finished)
        BY <1>0, <3>2 DEF OwnersOf, Stages
      <4>2. \A q \in Procs : On(q, s)' /\ at'[q] \in Stages => q = p /\ at'[q] = "owning"
        BY <1>5, <2>3, <3>2, <4>1 DEF WorkerDone
      <4>3. \A i \in Instances : cur'[i] = s => at'[i] \notin Stages
        BY <2>3, <4>1 DEF WorkerDone, On
      <4> QED BY <2>1, <2>3, <4>1, <4>2, <4>3 DEF WorkerDone, OwnersOf, Stages
    <3> QED BY <3>1, <3>2
  <2>9. HeldOf(s)'
    <3>1. \A k \in Kinds : Serves(k) => Serves(k)'
      BY <2>3, StepOfStays DEF WorkerDone
    <3>2. Owning(s) => Owning(s)'
      BY <1>0, <2>3, OwningStays, ProcsAre DEF WorkerDone, Stages
    <3> QED BY <1>0, <1>2, <2>2, <2>3, <3>1, <3>2 DEF WorkerDone, HeldOf, Owned, Asked, Kinds
  <2>10. ~closing => Claims(s)
    BY <1>3 DEF Claims
  <2>11. /\ StepOf(p, s) /\ work' \in [Procs -> SUBSET Entries]
         /\ \A i \in Instances : work'[i] \subseteq work[i]
         /\ at'[p] # "assigning" /\ call'[p].at # "spawned"
         /\ reg'[s].hold = reg[s].hold /\ reg'[s].present = reg[s].present
         /\ sub'[s].published = sub[s].published /\ sub'[s].started
    BY <1>1, <2>1, <2>2, <2>3, <2>4 DEF WorkerDone
  <2> HIDE DEF p
  <2> QED BY <1>0, <1>2, <2>5, <2>6, <2>7, <2>8, <2>9, <2>10, <2>11, StepOfKeeps
<1>6. CASE ~call[p].ok
  <2>1. (IF sub[s].started THEN "awaiting" ELSE "owning") \in WorkerAt
    BY DEF WorkerAt
  <2> QED BY <1>5, <1>6, <2>1 DEF Published, Goto
<1> QED BY <1>4, <1>6 DEF Published, Goto

----------------------------------------------------------------------------
(* Steps on the cleanup of a subscription, by any thread.                  *)

\* A step of thread p on s: pc is where it goes, c what it works on next; e, d and
\* l are what it leaves of the subscription.
ThreadDoes(p, s, pc, c, e, d, l) ==
  /\ at' = [at EXCEPT ![p] = pc] /\ cur' = [cur EXCEPT ![p] = c]
  /\ reg' = [reg EXCEPT ![s] = e] /\ sub' = [sub EXCEPT ![s] = d] /\ lock' = [lock EXCEPT ![s] = l]
  /\ pc \in JsAt \union WorkerAt \union InstanceAt /\ c \in Subs \union {None}
  /\ e \in RegRecords /\ d \in SubRecords /\ l \in {<<>>} \union Procs
  /\ UNCHANGED <<closing, next, threadVars>>
  /\ work' \in [Procs -> SUBSET Entries] /\ \A i \in Instances : work'[i] \subseteq work[i]
  /\ call' \in [Procs -> CallRecords] /\ \A q \in Procs : q # p => call'[q] = call[q]
  /\ \A r \in Subs : r # s => p # Worker(r)
  /\ p = JS => {at[p], pc} \subseteq {"loop", "assigning"}
  /\ p = Worker(s) => at[p] # "unborn" /\ pc \in WorkerAt
  /\ p \in Instances =>
       /\ {at[p], pc} \subseteq Serving
       /\ at[p] \in Stages => cur[p] = s
       /\ pc \in Stages => c = s
       /\ pc = "assigning" => p[1] = "dispatcher"
  /\ at[p] = "assigning" => cur[p] = s
  /\ pc = "assigning" => c = s

ThreadDone(p, s, pc, c, e, d, l) ==
  /\ StepOf(p, s)
  /\ at'[p] = pc /\ cur'[p] = c /\ reg'[s] = e /\ sub'[s] = d /\ lock'[s] = l
  /\ \A q \in Procs : q # p => at'[q] = at[q] /\ cur'[q] = cur[q] /\ call'[q] = call[q]
  /\ Registering(s)' <=> Registering(s)
  /\ p # JS => at'[JS] = at[JS]
  /\ p # Worker(s) => at'[Worker(s)] = at[Worker(s)]
  /\ at'[JS] = "tearingDown" <=> at[JS] = "tearingDown"
  /\ \A q \in Procs : q # p => (On(q, s)' <=> On(q, s))
  /\ \A i \in Instances : i \in Procs
  /\ work' \in [Procs -> SUBSET Entries] /\ \A i \in Instances : work'[i] \subseteq work[i]
  /\ \A k \in Kinds : Serves(k) => Serves(k)'

LEMMA ThreadStep ==
  ASSUME IInv, NEW p \in Procs, NEW s \in Subs, NEW pc, NEW c, NEW e, NEW d, NEW l,
         ThreadDoes(p, s, pc, c, e, d, l)
  PROVE  ThreadDone(p, s, pc, c, e, d, l)
<1> USE DEF IInv, ThreadDoes
<1>1. /\ Worker(s) \in Procs /\ Worker(s) # JS /\ JS \in Procs
      /\ \A i \in Instances : i \in Procs
  BY ProcsAre
<1>2. /\ at' \in [Procs -> JsAt \union WorkerAt \union InstanceAt]
      /\ at'[p] = pc /\ \A q \in Procs : q # p => at'[q] = at[q]
  BY DEF TypeOK, JsAt, WorkerAt, InstanceAt, Serving
<1>3. /\ sub' \in [Subs -> SubRecords] /\ sub'[s] = d /\ \A r \in Subs : r # s => sub'[r] = sub[r]
  BY SubIs
<1>4. /\ reg' \in [Subs -> RegRecords] /\ reg'[s] = e /\ \A r \in Subs : r # s => reg'[r] = reg[r]
  BY DEF TypeOK, RegRecords
<1>5. /\ lock' \in [Subs -> {<<>>} \union Procs] /\ lock'[s] = l
      /\ \A r \in Subs : r # s => lock'[r] = lock[r]
  BY DEF TypeOK
<1>6. /\ cur' \in [Procs -> Subs \union {None}] /\ cur'[p] = c
      /\ \A q \in Procs : q # p => cur'[q] = cur[q]
  BY DEF TypeOK
<1>7. StepOf(p, s)
  BY <1>1, <1>2, <1>3, <1>4, <1>5, <1>6 DEF StepOf
<1>8. (at'[JS] = "tearingDown" <=> at[JS] = "tearingDown")
      /\ (at'[JS] = "registering" <=> at[JS] = "registering")
  BY <1>1, <1>2
<1>9. \A q \in Procs : q # p => (On(q, s)' <=> On(q, s))
  BY <1>6 DEF On
<1>10. \A k \in Kinds : Serves(k) => Serves(k)'
  BY <1>7, StepOfStays
<1> QED BY <1>1, <1>2, <1>3, <1>4, <1>5, <1>6, <1>7, <1>8, <1>9, <1>10 DEF ThreadDone, Registering

\* Who owns a cleanup in s is on a subscription that was established.
LEMMA OwnerKnows ==
  ASSUME IInv, NEW p \in Procs, NEW s \in Subs, On(p, s), at[p] \in Stages
  PROVE  /\ sub[s].started /\ ~Registering(s)
         /\ at[Worker(s)] \notin {"unborn", "establishing", "unpublishing"}
         /\ p # JS /\ (p \in Instances \/ p = Worker(s)) /\ lock[s] # p
         /\ \A r \in Subs : r # s => p # Worker(r)
         /\ call[p].at \notin Starting
         /\ p \in Instances => /\ cur[p] = s /\ sub[s].published
                               /\ reg[s].present =>
                                  reg[s].hold /\ (p[1] = "dispatcher" /\ at[p] # "releasing" => reg[s].fallback)
<1> USE DEF IInv
<1>1. RecordOf(s) /\ OwnersOf(s) /\ (p \in Instances \/ p = Worker(s)) /\ p # JS
  BY ProcsAre DEF Records, Owners, On
<1>2. sub[s].started
  BY <1>1 DEF OwnersOf
<1>3. p \in Instances => p # Worker(s) /\ cur[p] = s
  BY ProcsAre DEF On
<1>4. p \in Instances => /\ cur[p] = s /\ sub[s].published
                         /\ reg[s].present =>
                                  reg[s].hold /\ (p[1] = "dispatcher" /\ at[p] # "releasing" => reg[s].fallback)
  BY <1>1, <1>3 DEF OwnersOf
<1>5. at[Worker(s)] \notin {"unborn", "establishing", "unpublishing"}
  BY <1>1, <1>2, <1>4 DEF RecordOf, Stages
<1>6. ~Registering(s)
  BY <1>5, RegisteredBefore
<1>7. lock[s] # p
  BY ProcsAre DEF Locked, Stages
<1>8. \A r \in Subs : r # s => p # Worker(r)
  BY <1>1, ProcsAre
<1>9. call[p].at \notin Starting
  BY <1>1, ProcsAre DEF Calls, Stages
<1> QED BY <1>1, <1>2, <1>4, <1>5, <1>6, <1>7, <1>8, <1>9

LEMMA CleanEngineKeeps ==
  ASSUME IInv, NEW p \in Procs, NEW s \in Subs, On(p, s), CleanEngine(p, s)
  PROVE  IInv'
<1> USE DEF IInv
<1> DEFINE e == [reg[s] EXCEPT !.active = FALSE, !.pending = FALSE, !.keep = FALSE,
                               !.fallback = reg[s].fallback /\ p[1] = "dispatcher"]
<1>0. /\ at[p] = "owning" /\ at[p] \in Stages /\ lock[s] = <<>>
      /\ UNCHANGED <<closing, next, lock, sub, threadVars, cur, work>>
      /\ RecordOf(s) /\ OwnersOf(s) /\ HeldOf(s) /\ <<>> \notin Procs
  BY ProcsAre DEF CleanEngine, Records, Owners, Held, Stages
<1>1. /\ sub[s].started /\ ~Registering(s)
      /\ at[Worker(s)] \notin {"unborn", "establishing", "unpublishing"}
      /\ p # JS /\ (p \in Instances \/ p = Worker(s)) /\ lock[s] # p
      /\ \A r \in Subs : r # s => p # Worker(r)
      /\ call[p].at \notin Starting
      /\ p \in Instances => /\ cur[p] = s /\ sub[s].published
                            /\ reg[s].present =>
                                  reg[s].hold /\ (p[1] = "dispatcher" /\ at[p] # "releasing" => reg[s].fallback)
  BY <1>0, OwnerKnows
<1>2. /\ e \in RegRecords /\ e.present = reg[s].present /\ ~e.pending /\ ~e.active /\ ~e.keep
      /\ (e.fallback <=> reg[s].fallback /\ p[1] = "dispatcher") /\ e.hold = reg[s].hold
      /\ reg' = [reg EXCEPT ![s] = e]
  BY RecordTypes, ZenonT(60) DEF RegRecords, CleanEngine
<1> HIDE DEF e
<1>3. /\ call' \in [Procs -> CallRecords] /\ call'[p].at \notin Starting
      /\ \A q \in Procs : q # p => call'[q] = call[q]
  <2>1. CASE UNCHANGED call
    BY <1>1, <2>1 DEF TypeOK, CallRecords
  <2>2. CASE Join(p, "dispatcher")
    BY <2>2, JoinIs DEF CallBecomes, Kinds, Starting
  <2> QED BY <2>1, <2>2 DEF CleanEngine
<1>4. ThreadDone(p, s, "cleaning", cur[p], e, sub[s], lock[s])
  <2>1. /\ cur' = [cur EXCEPT ![p] = cur[p]] /\ cur[p] \in Subs \union {None}
        /\ at' = [at EXCEPT ![p] = "cleaning"]
    BY <1>0 DEF TypeOK, CleanEngine, Goto
  <2>2. work' \in [Procs -> SUBSET Entries] /\ \A i \in Instances : work'[i] \subseteq work[i]
    BY <1>0 DEF TypeOK
  <2>3. "cleaning" \in JsAt \union WorkerAt \union InstanceAt /\ "cleaning" \in WorkerAt
        /\ {"owning", "cleaning"} \subseteq Serving
    BY DEF WorkerAt, Serving
  <2>4. /\ reg' = [reg EXCEPT ![s] = e] /\ sub' = [sub EXCEPT ![s] = sub[s]]
        /\ lock' = [lock EXCEPT ![s] = lock[s]]
        /\ sub[s] \in SubRecords /\ lock[s] \in {<<>>} \union Procs
    BY <1>0, <1>2, Unaltered
  <2> HIDE DEF IInv
  <2>5. ThreadDoes(p, s, "cleaning", cur[p], e, sub[s], lock[s])
    <3>1. p = JS => {at[p], "cleaning"} \subseteq {"loop", "assigning"}
      BY <1>1
    <3>2. p = Worker(s) => at[p] # "unborn" /\ "cleaning" \in WorkerAt
      BY <1>0, <2>3
    <3>3. p \in Instances =>
       /\ {at[p], "cleaning"} \subseteq Serving
       /\ at[p] \in Stages => cur[p] = s
       /\ "cleaning" \in Stages => cur[p] = s
       /\ "cleaning" = "assigning" => p[1] = "dispatcher"
      BY <1>0, <1>1, <2>3
    <3>4. at[p] # "assigning" /\ "cleaning" # "assigning"
      BY <1>0
    <3> QED BY <1>0, <1>1, <1>2, <1>3, <2>1, <2>2, <2>3, <2>4, <3>1, <3>2, <3>3, <3>4 DEF ThreadDoes
  <2> QED BY <2>5, ThreadStep
<1>5. Calls'
  BY <1>3, <1>4 DEF ThreadDone, Calls, Starting
<1>6. Locked'
  BY <1>1, <1>4, LockedKeeps DEF ThreadDone
<1>7. at[Worker(s)] # "publishing"
  BY <1>0, ProcsAre DEF Locked
<1>8. RecordOf(s)'
  <2>1. CASE p = Worker(s)
    BY <1>0, <1>1, <1>2, <1>4, <2>1 DEF ThreadDone, RecordOf
  <2>2. CASE p \in Instances
    <3>1. p # Worker(s)
      BY <2>2, ProcsAre
    <3> QED BY <1>0, <1>1, <1>2, <1>4, <1>7, <2>2, <3>1 DEF ThreadDone, RecordOf
  <2> QED BY <1>1, <2>1, <2>2
<1>9. \A q \in Procs : On(q, s) /\ at[q] \in Stages => q = p
  BY <1>0 DEF OwnersOf
<1>10. OwnersOf(s)'
  <2>1. \A q \in Procs : On(q, s)' /\ at'[q] \in Stages => q = p /\ at'[q] = "cleaning"
    BY <1>4, <1>9 DEF ThreadDone
  <2>2. \A i \in Instances : at'[i] \in Stages /\ cur'[i] = s => i = p
    BY <1>4, <2>1 DEF ThreadDone, On
  <2>3. p \in Instances => sub[s].published /\ (e.present => e.hold /\ (p[1] = "dispatcher" => e.fallback))
    BY <1>0, <1>1, <1>2
  <2>4. ~sub[s].cleaned /\ ~(sub[s].finalizing /\ ~sub[s].finished)
    BY <1>0, <1>9 DEF OwnersOf, Stages
  <2> QED BY <1>1, <1>4, <2>1, <2>2, <2>3, <2>4 DEF ThreadDone, OwnersOf, Stages
<1>11. HeldOf(s)'
  <2>1. CASE p = Worker(s)
    BY <1>4, <2>1 DEF ThreadDone, HeldOf, Owned, Owning
  <2>2. ASSUME p \in Instances, reg'[s].hold PROVE Owned(s)'
    <3>1. (p[1] = "cleanup" \/ p[1] = "dispatcher") /\ at'[p] \in Serving
      BY <1>4, <2>2, ProcsAre DEF ThreadDone, Kinds, Serving
    <3>2. Serves(p[1])'
      BY <1>4, <2>2, <3>1, StepOfStays, ServesIsNext DEF ThreadDone, Kinds
    <3>3. p[1] = "dispatcher" => reg'[s].fallback
      BY <1>0, <1>1, <1>2, <1>4, <2>2 DEF ThreadDone, RecordOf
    <3> QED BY <3>1, <3>2, <3>3 DEF Owned
  <2> QED BY <1>1, <2>1, <2>2 DEF HeldOf
<1>12. ~Claims(s)'
  BY <1>2, <1>4 DEF ThreadDone, Claims
<1>13. /\ StepOf(p, s) /\ work' \in [Procs -> SUBSET Entries]
       /\ \A i \in Instances : work'[i] \subseteq work[i]
       /\ at'[p] # "assigning" /\ call'[p].at # "spawned"
       /\ reg'[s].hold = reg[s].hold /\ reg'[s].present = reg[s].present
       /\ sub'[s].published = sub[s].published /\ sub'[s].started
       /\ \A q \in Procs : lock[s] # q
  BY <1>0, <1>1, <1>2, <1>3, <1>4 DEF ThreadDone, Starting
<1> QED BY <1>5, <1>6, <1>8, <1>10, <1>11, <1>12, <1>13, StepOfKeeps

\* The other steps of who works on a cleanup, and what of them is left to show.
OwnerDoes(p, s, pc, c, e, d) ==
  /\ On(p, s) /\ at[p] \in Stages
  /\ pc \in {"draining", "releasing", "awaiting", "selecting"}
  /\ p = Worker(s) => pc \in WorkerAt
  /\ p \in Instances => pc \in Serving /\ (pc \in Stages => c = s)
  /\ at' = [at EXCEPT ![p] = pc] /\ cur' = [cur EXCEPT ![p] = c]
  /\ reg' = [reg EXCEPT ![s] = e] /\ sub' = [sub EXCEPT ![s] = d]
  /\ UNCHANGED <<closing, next, lock, threadVars, work, call>>
  /\ c \in Subs \union {None} /\ e \in RegRecords /\ d \in SubRecords
  /\ d.published = sub[s].published /\ (sub[s].started => d.started)
  /\ e = reg[s] \/ (e = NoRegistration /\ lock[s] = <<>>)

LEMMA OwnerStep ==
  ASSUME IInv, NEW p \in Procs, NEW s \in Subs, NEW pc, NEW c, NEW e, NEW d,
         OwnerDoes(p, s, pc, c, e, d)
  PROVE  /\ ThreadDone(p, s, pc, c, e, d, lock[s])
         /\ RecordOf(s)' /\ OwnersOf(s)' /\ HeldOf(s)' => IInv'
<1>1. /\ p # JS /\ (p \in Instances \/ p = Worker(s)) /\ lock[s] # p
      /\ at[Worker(s)] # "unborn"
      /\ \A r \in Subs : r # s => p # Worker(r)
      /\ call[p].at \notin Starting
      /\ p \in Instances => cur[p] = s
  BY OwnerKnows DEF OwnerDoes
<1>2. ThreadDone(p, s, pc, c, e, d, lock[s])
  <2>1. /\ lock' = [lock EXCEPT ![s] = lock[s]] /\ lock[s] \in {<<>>} \union Procs
        /\ call' \in [Procs -> CallRecords] /\ \A q \in Procs : q # p => call'[q] = call[q]
        /\ work' \in [Procs -> SUBSET Entries] /\ \A i \in Instances : work'[i] \subseteq work[i]
    BY DEF OwnerDoes, IInv, TypeOK, CallRecords
  <2>2. p = JS => {at[p], pc} \subseteq {"loop", "assigning"}
    BY <1>1
  <2>3. p = Worker(s) => at[p] # "unborn" /\ pc \in WorkerAt
    BY <1>1 DEF OwnerDoes
  <2>4. p \in Instances =>
          /\ {at[p], pc} \subseteq Serving
          /\ at[p] \in Stages => cur[p] = s
          /\ pc \in Stages => c = s
          /\ pc = "assigning" => p[1] = "dispatcher"
    BY <1>1 DEF OwnerDoes, Stages, Serving
  <2>5. at[p] # "assigning" /\ pc # "assigning" /\ pc \in JsAt \union WorkerAt \union InstanceAt
    BY DEF OwnerDoes, Stages, WorkerAt, InstanceAt, Serving
  <2>6. ThreadDoes(p, s, pc, c, e, d, lock[s])
    BY <1>1, <2>1, <2>2, <2>3, <2>4, <2>5 DEF ThreadDoes, OwnerDoes
  <2> QED BY <2>6, ThreadStep
<1>3. Calls'
  BY <1>1, <1>2 DEF ThreadDone, Calls, Starting, OwnerDoes, IInv
<1>4. Locked'
  BY <1>1, <1>2, LockedKeeps DEF ThreadDone, OwnerDoes
<1>5. ASSUME RecordOf(s)', OwnersOf(s)', HeldOf(s)' PROVE IInv'
  <2>1. /\ StepOf(p, s) /\ work' \in [Procs -> SUBSET Entries]
        /\ \A i \in Instances : work'[i] \subseteq work[i]
        /\ at'[p] # "assigning" /\ UNCHANGED call
        /\ sub'[s].published = sub[s].published /\ (sub[s].started => sub'[s].started)
        /\ reg'[s] = e
    BY <1>2 DEF ThreadDone, OwnerDoes
  <2>2. CASE e = reg[s]
    <3>1. Claims(s)' <=> Claims(s)
      BY <2>1, <2>2 DEF Claims
    <3>2. \A q \in Procs : at[q] = "assigning" /\ lock[s] = q => reg[s].hold
      <4>1. \A q \in Procs : at[q] = "assigning" /\ lock[s] = q => cur[q] = s
        BY ProcsAre DEF IInv, Locked
      <4> QED BY <4>1 DEF IInv, Records
    <3> QED BY <1>3, <1>4, <1>5, <2>1, <2>2, <3>1, <3>2, StepOfKeeps
  <2>3. CASE e = NoRegistration /\ lock[s] = <<>>
    <3>1. ~Claims(s)' /\ ~reg'[s].hold /\ ~reg'[s].present /\ \A q \in Procs : lock[s] # q
      BY <2>1, <2>3, NoRegistrationIs, ProcsAre DEF Claims
    <3> QED BY <1>3, <1>4, <1>5, <2>1, <3>1, StepOfKeeps
  <2> QED BY <2>2, <2>3 DEF OwnerDoes
<1> QED BY <1>2, <1>5

LEMMA EngineCleanedKeeps ==
  ASSUME IInv, NEW p \in Procs, NEW s \in Subs, On(p, s), EngineCleaned(p, s)
  PROVE  IInv'
<1> DEFINE d == [sub[s] EXCEPT !.cleaned = TRUE]
<1>0. /\ at[p] = "cleaning" /\ at[p] \in Stages
      /\ UNCHANGED <<closing, next, reg, lock, threadVars, cur, work, call>>
      /\ RecordOf(s) /\ OwnersOf(s) /\ HeldOf(s) /\ TypeOK
  BY DEF EngineCleaned, Records, Owners, Held, Stages, IInv
<1>1. /\ sub[s].started /\ ~Registering(s)
      /\ at[Worker(s)] \notin {"unborn", "establishing", "unpublishing"}
      /\ (p \in Instances \/ p = Worker(s))
      /\ p \in Instances => cur[p] = s
  BY <1>0, OwnerKnows
<1>2. /\ d \in SubRecords /\ d.published = sub[s].published /\ d.started = sub[s].started
      /\ d.cleaned /\ d.finalizing = sub[s].finalizing
      /\ d.finished = sub[s].finished /\ sub' = [sub EXCEPT ![s] = d]
  BY <1>0, RecordTypes DEF SubRecords, EngineCleaned
<1> HIDE DEF d
<1>3. OwnerDoes(p, s, "draining", cur[p], reg[s], d)
  <2>1. /\ reg' = [reg EXCEPT ![s] = reg[s]] /\ reg[s] \in RegRecords
        /\ cur' = [cur EXCEPT ![p] = cur[p]] /\ cur[p] \in Subs \union {None}
    BY <1>0, Unaltered DEF TypeOK
  <2>2. "draining" \in WorkerAt /\ "draining" \in Serving
    BY DEF WorkerAt, Serving
  <2> QED BY <1>0, <1>1, <1>2, <2>1, <2>2 DEF OwnerDoes, EngineCleaned, Goto
<1>4. ThreadDone(p, s, "draining", cur[p], reg[s], d, lock[s])
  BY <1>3, OwnerStep
<1>5. \A q \in Procs : On(q, s) /\ at[q] \in Stages => q = p
  BY <1>0 DEF OwnersOf
<1>6. RecordOf(s)'
  <2>1. at'[Worker(s)] = at[Worker(s)] \/ at'[Worker(s)] = "draining"
    BY <1>1, <1>4, ProcsAre DEF ThreadDone
  <2> QED BY <1>0, <1>1, <1>2, <1>4, <2>1 DEF ThreadDone, RecordOf, StepOf
<1>7. OwnersOf(s)'
  <2>1. \A q \in Procs : On(q, s)' /\ at'[q] \in Stages => q = p /\ at'[q] = "draining"
    BY <1>4, <1>5 DEF ThreadDone
  <2>2. \A i \in Instances : at'[i] \in Stages /\ cur'[i] = s => i = p /\ at[i] \in Stages /\ cur[i] = s
    BY <1>0, <1>1, <1>4, <2>1 DEF ThreadDone, On
  <2>3. ~(sub[s].finalizing /\ ~sub[s].finished)
    BY <1>0, <1>5 DEF OwnersOf, Stages
  <2> QED BY <1>0, <1>1, <1>2, <1>4, <2>1, <2>2, <2>3 DEF ThreadDone, OwnersOf, Stages
<1>8. HeldOf(s)'
  <2>1. Owned(s) => Owned(s)'
    <3>1. Owning(s) => Owning(s)'
      BY <1>0, <1>1, <1>4, OwningStays, ProcsAre DEF ThreadDone, Stages
    <3> QED BY <1>4, <3>1 DEF ThreadDone, Owned, Kinds
  <2>2. Asked(s) => Asked(s)'
    BY <1>0, <1>4 DEF ThreadDone, Asked
  <2> QED BY <1>0, <1>4, <2>1, <2>2 DEF ThreadDone, HeldOf, Kinds
<1> QED BY <1>3, <1>6, <1>7, <1>8, OwnerStep

LEMMA FinishKeeps ==
  ASSUME IInv, NEW p \in Procs, NEW s \in Subs, On(p, s),
         NEW pc, pc = IF p = Worker(s) THEN "awaiting" ELSE "selecting",
         Finish(p, s, pc)
  PROVE  IInv'
<1> DEFINE d == [sub[s] EXCEPT !.finished = TRUE,
                   !.promise = IF sub[s].promise = "asked" /\ ~closing THEN "queued" ELSE sub[s].promise]
<1>0. /\ at[p] = "releasing" /\ at[p] \in Stages /\ lock[s] = <<>>
      /\ UNCHANGED <<closing, next, lock, threadVars, work, call>>
      /\ RecordOf(s) /\ OwnersOf(s) /\ HeldOf(s) /\ TypeOK
  BY DEF Finish, Records, Owners, Held, Stages, IInv
<1>1. /\ sub[s].started /\ ~Registering(s)
      /\ at[Worker(s)] \notin {"unborn", "establishing", "unpublishing"}
      /\ (p \in Instances \/ p = Worker(s)) /\ ~(p \in Instances /\ p = Worker(s))
      /\ p \in Instances => cur[p] = s
  BY <1>0, OwnerKnows, ProcsAre
<1>2. /\ d \in SubRecords /\ d.published = sub[s].published /\ d.started = sub[s].started
      /\ d.cleaned = sub[s].cleaned /\ d.finalizing = sub[s].finalizing
      /\ d.finished /\ sub' = [sub EXCEPT ![s] = d]
  BY <1>0, RecordTypes DEF SubRecords, Finish
<1> HIDE DEF d
<1>3. OwnerDoes(p, s, pc, None, NoRegistration, d)
  <2>2. "awaiting" \in WorkerAt /\ "selecting" \in Serving /\ "awaiting" \notin Stages /\ "selecting" \notin Stages
    BY DEF WorkerAt, Serving, Stages
  <2> QED BY <1>0, <1>1, <1>2, <2>2, NoRegistrationIs DEF OwnerDoes, Finish, Goto, Leaves, WorkOn
<1>4. ThreadDone(p, s, pc, None, NoRegistration, d, lock[s])
  BY <1>3, OwnerStep
<1>5. at[Worker(s)] # "publishing"
  BY <1>0, ProcsAre DEF IInv, Locked
<1>6. RecordOf(s)'
  <2>1. at'[Worker(s)] = at[Worker(s)] \/ at'[Worker(s)] = "awaiting"
    BY <1>1, <1>4, ProcsAre DEF ThreadDone
  <2> QED BY <1>0, <1>1, <1>2, <1>4, <1>5, <2>1, NoRegistrationIs DEF ThreadDone, RecordOf, StepOf
<1>7. OwnersOf(s)'
  <2>1. \A q \in Procs : On(q, s)' /\ at'[q] \in Stages => q # p /\ On(q, s) /\ at'[q] = at[q]
    BY <1>4 DEF ThreadDone, Stages
  <2>2. \A i \in Instances : at'[i] \in Stages /\ cur'[i] = s => i # p /\ at[i] \in Stages /\ cur[i] = s
    BY <1>4, <2>1 DEF ThreadDone, On
  <2> QED BY <1>0, <1>2, <1>4, <2>1, <2>2, NoRegistrationIs DEF ThreadDone, OwnersOf, Stages
<1>8. HeldOf(s)'
  BY <1>4, NoRegistrationIs DEF ThreadDone, HeldOf
<1> QED BY <1>3, <1>6, <1>7, <1>8, OwnerStep

LEMMA ReleaseKeeps ==
  ASSUME IInv, NEW p \in Procs, NEW s \in Subs, On(p, s), at[p] = "draining", Release(p, s),
         UNCHANGED <<closing, next, reg, lock, threadVars, cur, work, call>>
  PROVE  IInv'
<1> DEFINE d == [sub[s] EXCEPT !.finalizing = TRUE,
                   !.tsfn = IF sub[s].tsfn = "live" THEN "released" ELSE sub[s].tsfn]
<1>0. /\ at[p] \in Stages /\ RecordOf(s) /\ OwnersOf(s) /\ HeldOf(s) /\ TypeOK
  BY DEF Records, Owners, Held, Stages, IInv
<1>1. /\ sub[s].started /\ ~Registering(s)
      /\ at[Worker(s)] \notin {"unborn", "establishing", "unpublishing"}
      /\ (p \in Instances \/ p = Worker(s))
      /\ p \in Instances => cur[p] = s
  BY <1>0, OwnerKnows
<1>2. /\ d \in SubRecords /\ d.published = sub[s].published /\ d.started = sub[s].started
      /\ d.cleaned = sub[s].cleaned /\ d.finalizing
      /\ d.finished = sub[s].finished /\ sub' = [sub EXCEPT ![s] = d]
  BY <1>0, RecordTypes DEF SubRecords, Release
<1> HIDE DEF d
<1>3. OwnerDoes(p, s, "releasing", cur[p], reg[s], d)
  <2>1. /\ reg' = [reg EXCEPT ![s] = reg[s]] /\ reg[s] \in RegRecords
        /\ cur' = [cur EXCEPT ![p] = cur[p]] /\ cur[p] \in Subs \union {None}
    BY <1>0, Unaltered DEF TypeOK
  <2>2. "releasing" \in WorkerAt /\ "releasing" \in Serving
    BY DEF WorkerAt, Serving
  <2> QED BY <1>0, <1>1, <1>2, <2>1, <2>2 DEF OwnerDoes, Release, Goto
<1>4. ThreadDone(p, s, "releasing", cur[p], reg[s], d, lock[s])
  BY <1>3, OwnerStep
<1>5. \A q \in Procs : On(q, s)' <=> On(q, s)
  BY DEF On
<1>6. RecordOf(s)'
  <2>1. at'[Worker(s)] = at[Worker(s)] \/ at'[Worker(s)] = "releasing"
    BY <1>1, <1>4, ProcsAre DEF ThreadDone
  <2> QED BY <1>0, <1>1, <1>2, <1>4, <2>1 DEF ThreadDone, RecordOf, StepOf
<1>7. OwnersOf(s)'
  <2>1. sub[s].cleaned
    BY <1>0 DEF OwnersOf
  <2>2. /\ \A q \in Procs : q # p => at'[q] = at[q]
        /\ at'[p] = "releasing" /\ On(p, s)'
    BY <1>4, <1>5 DEF ThreadDone
  <2>3. \A i \in Instances : i \in Procs /\ (at'[i] \in Stages => at[i] \in Stages)
    BY <1>0, <2>2, ProcsAre
  <2>4. \A q \in Procs : /\ at'[q] \in Stages => at[q] \in Stages
                         /\ at'[q] \in {"owning", "cleaning"} => at'[q] = at[q]
    BY <1>0, <2>2
  <2>6. sub'[s] = d /\ reg'[s] = reg[s] /\ \A i \in Instances : cur'[i] = cur[i]
    BY <1>4, <2>3 DEF ThreadDone
  <2>7. \A i \in Instances : at'[i] # "releasing" => at'[i] = at[i]
    BY <2>2, <2>3
  <2>8. \A i \in Instances : at'[i] \in Stages /\ cur'[i] = s =>
          /\ sub'[s].published
          /\ reg'[s].present =>
             reg'[s].hold /\ (i[1] = "dispatcher" /\ at'[i] # "releasing" => reg'[s].fallback)
    BY <1>0, <1>2, <2>3, <2>6, <2>7 DEF OwnersOf
  <2>9. \A q \in Procs : On(q, s)' =>
          /\ at'[q] \in Stages => sub'[s].started
          /\ at'[q] \in {"draining", "releasing"} => sub'[s].cleaned
          /\ at'[q] \in {"owning", "cleaning"} => ~sub'[s].cleaned
          /\ \A r \in Procs : On(r, s)' /\ at'[q] \in {"owning", "cleaning"} /\ at'[r] \in Stages => r = q
    BY <1>0, <1>1, <1>2, <1>5, <2>1, <2>4, <2>6 DEF OwnersOf
  <2> QED BY <1>1, <1>2, <2>2, <2>6, <2>8, <2>9 DEF OwnersOf
<1>8. HeldOf(s)'
  <2>1. Owned(s) => Owned(s)'
    <3>1. Owning(s) => Owning(s)'
      BY <1>0, <1>1, <1>4, OwningStays, ProcsAre DEF ThreadDone, Stages
    <3> QED BY <1>4, <3>1 DEF ThreadDone, Owned, Kinds
  <2>2. Asked(s) => Asked(s)'
    BY <1>0, <1>4 DEF ThreadDone, Asked
  <2> QED BY <1>0, <1>4, <2>1, <2>2 DEF ThreadDone, HeldOf, Kinds
<1> QED BY <1>3, <1>6, <1>7, <1>8, OwnerStep

\* An owner that finds the bridge being released leaves that to who does it.
LEMMA DrainedKeeps ==
  ASSUME IInv, NEW p \in Procs, NEW s \in Subs, On(p, s), at[p] = "draining",
         NEW pc, pc = IF p = Worker(s) THEN "awaiting" ELSE "selecting",
         NEW c \in Subs \union {None}, p = Worker(s) => sub[s].finalizing,
         at' = [at EXCEPT ![p] = pc], cur' = [cur EXCEPT ![p] = c],
         UNCHANGED <<closing, next, reg, sub, lock, threadVars, work, call>>
  PROVE  IInv'
<1>0. /\ at[p] \in Stages /\ RecordOf(s) /\ OwnersOf(s) /\ HeldOf(s) /\ TypeOK
  BY DEF Records, Owners, Held, Stages, IInv
<1>1. /\ sub[s].started /\ ~Registering(s)
      /\ at[Worker(s)] \notin {"unborn", "establishing", "unpublishing"}
      /\ (p \in Instances \/ p = Worker(s)) /\ ~(p \in Instances /\ p = Worker(s))
      /\ p \in Instances => cur[p] = s
  BY <1>0, OwnerKnows, ProcsAre
<1>2. OwnerDoes(p, s, pc, c, reg[s], sub[s])
  <2>1. /\ reg' = [reg EXCEPT ![s] = reg[s]] /\ reg[s] \in RegRecords
        /\ sub' = [sub EXCEPT ![s] = sub[s]] /\ sub[s] \in SubRecords
    BY <1>0, Unaltered
  <2>2. "awaiting" \in WorkerAt /\ "selecting" \in Serving /\ "awaiting" \notin Stages /\ "selecting" \notin Stages
    BY DEF WorkerAt, Serving, Stages
  <2> QED BY <1>0, <1>1, <2>1, <2>2 DEF OwnerDoes
<1>3. ThreadDone(p, s, pc, c, reg[s], sub[s], lock[s])
  BY <1>2, OwnerStep
<1>4. pc \notin Stages
  BY DEF Stages
<1>5. p = Worker(s) /\ reg[s].present =>
        reg[s].hold /\ \E i \in Instances : at[i] = "releasing" /\ cur[i] = s
  <2>1. ASSUME p = Worker(s), reg[s].present
        PROVE  reg[s].hold /\ \E i \in Instances : at[i] = "releasing" /\ cur[i] = s
    <3>1. PICK q \in Procs : On(q, s) /\ at[q] = "releasing"
      BY <1>0, <2>1 DEF OwnersOf, RecordOf
    <3>2. q \in Instances /\ cur[q] = s /\ at[q] \in Stages
      BY <2>1, <3>1 DEF On, Stages
    <3>3. reg[s].hold
      BY <1>0, <2>1, <3>2 DEF OwnersOf
    <3> QED BY <3>1, <3>2, <3>3
  <2> QED BY <2>1
<1>6. RecordOf(s)'
  <2>1. at'[Worker(s)] = at[Worker(s)] \/ (at'[Worker(s)] = "awaiting" /\ p = Worker(s))
    BY <1>1, <1>3, ProcsAre DEF ThreadDone
  <2> QED BY <1>0, <1>1, <1>3, <1>5, <2>1 DEF ThreadDone, RecordOf, StepOf
<1>7. OwnersOf(s)'
  <2>1. \A q \in Procs : On(q, s)' /\ at'[q] \in Stages => q # p /\ On(q, s) /\ at'[q] = at[q]
    BY <1>3, <1>4 DEF ThreadDone
  <2>2. \A i \in Instances : at'[i] \in Stages /\ cur'[i] = s => i # p /\ at[i] \in Stages /\ cur[i] = s
    BY <1>3, <2>1 DEF ThreadDone, On
  <2>3. \A q \in Procs : On(q, s) /\ at[q] = "releasing" => On(q, s)' /\ at'[q] = "releasing"
    BY <1>3 DEF ThreadDone
  <2> QED BY <1>0, <1>3, <2>1, <2>2, <2>3 DEF ThreadDone, OwnersOf, Stages
<1>8. HeldOf(s)'
  <2>0. reg[s].hold => reg[s].present
    BY <1>0 DEF RecordOf
  <2>1. reg[s].hold /\ Owned(s) => Owned(s)'
    <3>1. \A i \in Instances :
            at[i] = "releasing" /\ cur[i] = s => at'[i] = "releasing" /\ cur'[i] = s
      BY <1>0, <1>3, ProcsAre DEF ThreadDone
    <3>2. Owning(s) => Owning(s)' \/ p = Worker(s)
      BY <1>3, <3>1, OwningStays, ProcsAre DEF ThreadDone
    <3>3. p = Worker(s) /\ reg[s].present => Owning(s)'
      BY <1>5, <3>1 DEF Owning
    <3> QED BY <1>3, <2>0, <3>2, <3>3 DEF ThreadDone, Owned, Kinds
  <2>2. Asked(s) => Asked(s)'
    BY <1>0, <1>3 DEF ThreadDone, Asked
  <2> QED BY <1>0, <1>3, <2>1, <2>2 DEF ThreadDone, HeldOf, Kinds
<1> QED BY <1>2, <1>6, <1>7, <1>8, OwnerStep

LEMMA WorkerDrainedKeeps ==
  ASSUME IInv, NEW s \in Subs, WorkerDrained(s)
  PROVE  IInv'
<1>1. Worker(s) \in Procs /\ On(Worker(s), s) /\ cur[Worker(s)] \in Subs \union {None}
      /\ UNCHANGED <<closing, next, reg, lock, threadVars, cur, work, call>>
      /\ cur' = [cur EXCEPT ![Worker(s)] = cur[Worker(s)]] /\ at[Worker(s)] = "draining"
  BY ProcsAre DEF On, IInv, TypeOK, WorkerDrained
<1>2. CASE Release(Worker(s), s)
  BY <1>1, <1>2, ReleaseKeeps
<1>3. CASE sub[s].finalizing /\ Goto(Worker(s), "awaiting") /\ UNCHANGED sub
  BY <1>1, <1>3, DrainedKeeps DEF Goto
<1> QED BY <1>2, <1>3 DEF WorkerDrained

LEMMA AdvanceOwnedKeeps ==
  ASSUME IInv, NEW i \in Instances, AdvanceOwned(i)
  PROVE  IInv'
<1>1. /\ at[i] = "draining" /\ i \in Procs /\ cur[i] \in Subs /\ On(i, cur[i])
      /\ i # Worker(cur[i]) /\ None \in Subs \union {None}
      /\ UNCHANGED <<closing, next, reg, lock, threadVars, work, call>>
  <2>1. at[i] = "draining" /\ i \in Procs /\ cur[i] \in Subs
    BY ProcsAre DEF AdvanceOwned, IInv, Positions, Stages
  <2> QED BY <2>1, ProcsAre DEF On, AdvanceOwned
<1>2. CASE Release(i, cur[i]) /\ UNCHANGED cur
  BY <1>1, <1>2, ReleaseKeeps
<1>3. CASE Goto(i, "selecting") /\ Leaves(i) /\ UNCHANGED sub
  BY <1>1, <1>3, DrainedKeeps DEF Goto, Leaves, WorkOn
<1> QED BY <1>2, <1>3 DEF AdvanceOwned

----------------------------------------------------------------------------
(* Asking for a coordinator.                                               *)

\* The answer is stored: there is a coordinator, or the dispatcher has the cleanup.
LEMMA AssignKeeps ==
  ASSUME IInv, NEW p \in Procs, NEW ret, (p = JS /\ ret = "loop") \/ (p \in Instances /\ ret = "selecting"),
         Assign(p, cur[p], ret)
  PROVE  IInv'
<1>0. PICK s : s = cur[p]
  OBVIOUS
<1> DEFINE e == [reg[s] EXCEPT !.keep = FALSE, !.fallback = reg[s].fallback \/ ~call[p].ok]
<1>1. /\ at[p] = "assigning" /\ Free(p) /\ s \in Subs /\ lock[s] = p /\ reg[s].hold
      /\ reg[s].present /\ p # Worker(s) /\ call[p].ok \in BOOLEAN
      /\ UNCHANGED <<closing, next, sub, threadVars, work>>
  <2>1. s \in Subs /\ lock[s] = p /\ reg[s].hold /\ call[p] \in CallRecords
    BY <1>0, CallTypes DEF Assign, IInv, Positions, Locked, Records
  <2>2. reg[s].present
    BY <2>1, RecordTypes DEF IInv, Records, RecordOf
  <2> QED BY <1>0, <2>1, <2>2, ProcsAre DEF Assign, CallRecords
<1>2. RecordOf(s) /\ OwnersOf(s) /\ HeldOf(s) /\ TypeOK
  BY <1>1 DEF Records, Owners, Held, IInv
<1>3. CallBecomes(p, call'[p]) /\ call'[p].at = "none"
  BY <1>2, ForgetIs DEF Assign
<1>4. /\ e \in RegRecords /\ e.present = reg[s].present /\ e.pending = reg[s].pending
      /\ e.active = reg[s].active /\ ~e.keep /\ e.hold = reg[s].hold
      /\ (e.fallback <=> reg[s].fallback \/ ~call[p].ok) /\ reg' = [reg EXCEPT ![s] = e]
  BY <1>0, <1>1, <1>2, RecordTypes, ZenonT(60) DEF RegRecords, Assign
<1> HIDE DEF e
<1>5. ThreadDone(p, s, ret, None, e, sub[s], <<>>)
  <2>1. /\ sub' = [sub EXCEPT ![s] = sub[s]] /\ sub[s] \in SubRecords
        /\ lock' = [lock EXCEPT ![s] = <<>>]
        /\ at' = [at EXCEPT ![p] = ret] /\ cur' = [cur EXCEPT ![p] = None]
        /\ work' \in [Procs -> SUBSET Entries] /\ \A i \in Instances : work'[i] \subseteq work[i]
    BY <1>0, <1>1, <1>2, Unaltered DEF Assign, Goto, Leaves, WorkOn, TypeOK
  <2>2. /\ ret \in JsAt \union WorkerAt \union InstanceAt /\ ret \notin Stages
        /\ at[p] \notin Stages
        /\ {"assigning", "selecting"} \subseteq Serving
    BY <1>1 DEF JsAt, InstanceAt, Serving, Stages
  <2>3. /\ JS \notin Instances /\ \A r \in Subs : p # Worker(r)
    BY ProcsAre
  <2>4. ThreadDoes(p, s, ret, None, e, sub[s], <<>>)
    BY <1>0, <1>1, <1>3, <1>4, <2>1, <2>2, <2>3, ZenonT(60) DEF ThreadDoes, CallBecomes
  <2> QED BY <1>1, <2>4, ThreadStep
<1>6. Calls'
  BY <1>3, <1>5 DEF ThreadDone, Calls, Starting, IInv
<1>7. Locked'
  BY <1>1, <1>5, LockedKeeps DEF ThreadDone
<1>8. RecordOf(s)'
  <2>1. /\ reg'[s] = e /\ sub' = sub /\ at'[Worker(s)] = at[Worker(s)]
        /\ (Registering(s)' <=> Registering(s)) /\ closing' = closing
    BY <1>1, <1>5 DEF ThreadDone
  <2>2. reg[s].hold /\ reg[s].present /\ RecordOf(s) /\ reg'[s].present /\ reg'[s].hold
        /\ reg'[s].pending = reg[s].pending /\ reg'[s].active = reg[s].active
    BY <1>1, <1>2, <1>4, <2>1
  <2> QED BY <2>1, <2>2 DEF RecordOf
<1>9. OwnersOf(s)'
  <2>1. at[p] \notin Stages /\ at'[p] \notin Stages
    BY <1>1, <1>5 DEF ThreadDone, Stages
  <2>2. \A q \in Procs : (at[q] \in Stages \/ at'[q] \in Stages) =>
          at'[q] = at[q] /\ (On(q, s)' <=> On(q, s)) /\ (q \in Instances => cur'[q] = cur[q])
    BY <1>5, <2>1 DEF ThreadDone
  <2>3. "releasing" \in Stages /\ "owning" \in Stages /\ "cleaning" \in Stages /\ "draining" \in Stages
    BY DEF Stages
  <2>4. \A i \in Instances : at'[i] \in Stages /\ cur'[i] = s =>
          /\ sub'[s].published
          /\ reg'[s].present =>
               reg'[s].hold /\ (i[1] = "dispatcher" /\ at'[i] # "releasing" => reg'[s].fallback)
    BY <1>1, <1>2, <1>4, <1>5, <2>2, ZenonT(60) DEF ThreadDone, OwnersOf
  <2>5. \A q \in Procs : On(q, s)' =>
          /\ at'[q] \in Stages => sub'[s].started
          /\ at'[q] \in {"draining", "releasing"} => sub'[s].cleaned
          /\ at'[q] \in {"owning", "cleaning"} => ~sub'[s].cleaned
          /\ \A r \in Procs : On(r, s)' /\ at'[q] \in {"owning", "cleaning"} /\ at'[r] \in Stages => r = q
    BY <1>1, <1>2, <2>2, <2>3 DEF OwnersOf
  <2>6. (sub'[s].cleaned => sub'[s].started) /\ (sub'[s].finalizing /\ ~sub'[s].finished =>
       \E q \in Procs : On(q, s)' /\ at'[q] = "releasing")
    BY <1>1, <1>2, <2>2, <2>3 DEF OwnersOf
  <2> QED BY <2>4, <2>5, <2>6 DEF OwnersOf
<1>10. HeldOf(s)'
  <2>1. Owned(s) => Owned(s)'
    <3>1. Owning(s) => Owning(s)'
      BY <1>1, <1>5 DEF ThreadDone, Owning
    <3>2. reg[s].fallback => reg'[s].fallback
      BY <1>4, <1>5 DEF ThreadDone
    <3> QED BY <1>5, <3>1, <3>2 DEF ThreadDone, Owned, Kinds
  <2>2. CASE call[p].ok
    <3>1. ~Idle("cleanup")
      BY <1>1 DEF Idle, Needed
    <3>2. Serves("cleanup")
      BY <1>1, <2>2, <3>1 DEF IInv, Running, Runs
    <3> QED BY <1>5, <3>2 DEF ThreadDone, HeldOf, Owned, Kinds
  <2>3. CASE ~call[p].ok
    <3>1. reg'[s].fallback
      BY <1>4, <1>5, <2>3 DEF ThreadDone
    <3>2. Serves("dispatcher") => Serves("dispatcher")'
      BY <1>5 DEF ThreadDone, Kinds
    <3> QED BY <1>1, <1>2, <2>1, <3>1, <3>2 DEF HeldOf, Owned
  <2> QED BY <1>1, <2>2, <2>3
<1>11. Claims(s)' => Claims(s)
  BY <1>4, <1>5 DEF ThreadDone, Claims
<1>12. /\ StepOf(p, s) /\ work' \in [Procs -> SUBSET Entries]
       /\ \A i \in Instances : work'[i] \subseteq work[i]
       /\ at'[p] # "assigning" /\ call'[p].at # "spawned"
       /\ reg'[s].hold = reg[s].hold /\ reg'[s].present = reg[s].present
       /\ reg[s].fallback => reg'[s].fallback
       /\ sub'[s].published = sub[s].published /\ sub'[s].started = sub[s].started
       /\ \A q \in Procs : q # p => lock[s] # q
  BY <1>1, <1>3, <1>4, <1>5 DEF ThreadDone
<1> QED BY <1>1, <1>6, <1>7, <1>8, <1>9, <1>10, <1>11, <1>12, StepOfKeeps

\* What p asks for a coordinator with, and from where.
Asks(p, s) ==
  \/ p = JS /\ at[p] = "loop" /\ at[Worker(s)] = "resolved" /\ ~sub[s].finished
  \/ p \in Instances /\ p[1] = "dispatcher" /\ at[p] = "selecting" /\ <<s, "delivery">> \in work[p]

\* The establishment and the cleanup of s stay where they are.
SameStage(s, d) ==
  /\ d \in SubRecords
  /\ d.published = sub[s].published /\ d.started = sub[s].started
  /\ d.cleaned = sub[s].cleaned /\ d.finalizing = sub[s].finalizing
  /\ d.finished = sub[s].finished

\* A registration is held for its cleanup, and its mutex kept for the answer.
LEMMA RequestKeeps ==
  ASSUME IInv, NEW p \in Procs, NEW s \in Subs, NEW ret, Request(p, s, ret), Asks(p, s),
         reg[s].present, ~closing, Free(p),
         NEW d, SameStage(s, d), sub' = [sub EXCEPT ![s] = d],
         UNCHANGED <<closing, next, threadVars>>,
         work' \in [Procs -> SUBSET Entries], \A i \in Instances : work'[i] \subseteq work[i]
  PROVE  IInv'
<1> DEFINE e == [reg[s] EXCEPT !.keep = IF reg[s].hold THEN reg[s].keep ELSE TRUE,
                               !.pending = IF reg[s].hold THEN reg[s].pending ELSE FALSE,
                               !.active = IF reg[s].hold THEN reg[s].active ELSE FALSE,
                               !.hold = TRUE]
<1>0. /\ lock[s] = <<>> /\ RecordOf(s) /\ OwnersOf(s) /\ HeldOf(s) /\ TypeOK
      /\ <<>> \notin Procs /\ \A q \in Procs : lock[s] # q
      /\ p # Worker(s) /\ at[JS] # "tearingDown" /\ lock' = [lock EXCEPT ![s] = p]
      /\ at[p] \in {"loop", "selecting"}
  BY ProcsAre DEF Request, Records, Owners, Held, IInv, Asks, Positions
<1>1. sub[s].published /\ (reg[s].hold \/ Serves("dispatcher"))
  <2>1. CASE p = JS /\ at[p] = "loop" /\ at[Worker(s)] = "resolved" /\ ~sub[s].finished
    <3>1. reg[s].active \/ reg[s].hold
      BY <1>0, <2>1 DEF RecordOf
    <3>2. ~Registering(s)
      BY <2>1 DEF Registering
    <3> QED BY <1>0, <3>1, <3>2 DEF RecordOf, IInv, Claimed, Claims
  <2>2. CASE p \in Instances /\ p[1] = "dispatcher" /\ at[p] = "selecting"
                /\ <<s, "delivery">> \in work[p]
    <3>1. sub[s].published
      BY <2>2 DEF IInv, Records, EntryOf
    <3>2. Serves("dispatcher")
      BY <2>2, ServesIs DEF IInv, Kinds, Serving
    <3> QED BY <3>1, <3>2
  <2> QED BY <2>1, <2>2 DEF Asks
<1>2. /\ at[Worker(s)] \notin {"unborn", "establishing", "unpublishing", "publishing"}
      /\ ~Registering(s)
  <2>1. at[Worker(s)] \notin {"unborn", "establishing", "unpublishing"}
    BY <1>0, <1>1 DEF RecordOf
  <2>2. at[Worker(s)] # "publishing"
    BY <1>0, ProcsAre DEF IInv, Locked
  <2> QED BY <2>1, <2>2, RegisteredBefore
<1>3. CallBecomes(p, call'[p]) /\ call'[p].at = "start" /\ call'[p].kind = "cleanup"
  BY <1>0, StartIs DEF Request, Kinds
<1>4. /\ e \in RegRecords /\ e.present = reg[s].present /\ e.hold
      /\ reg[s].hold => e.keep = reg[s].keep /\ e.pending = reg[s].pending /\ e.active = reg[s].active
      /\ ~reg[s].hold => e.keep /\ ~e.pending /\ ~e.active
      /\ e.fallback = reg[s].fallback /\ reg' = [reg EXCEPT ![s] = e]
  BY <1>0, RecordTypes, ZenonT(60) DEF RegRecords, Request
<1> HIDE DEF e
<1>5. ThreadDone(p, s, "assigning", s, e, d, p)
  <2>1. at' = [at EXCEPT ![p] = "assigning"] /\ cur' = [cur EXCEPT ![p] = s] /\ d \in SubRecords
    BY DEF Request, Goto, WorkOn, SameStage
  <2>2. /\ "assigning" \in JsAt \union WorkerAt \union InstanceAt /\ "assigning" \notin Stages
        /\ at[p] \notin Stages
        /\ {"assigning", "selecting"} \subseteq Serving
    BY <1>0 DEF JsAt, InstanceAt, Serving, Stages
  <2>3. /\ JS \notin Instances /\ \A r \in Subs : p # Worker(r)
    BY ProcsAre DEF Asks
  <2>4. (p = JS => at[p] = "loop") /\ (p \in Instances => at[p] = "selecting" /\ p[1] = "dispatcher")
    BY <2>3 DEF Asks
  <2>5. ThreadDoes(p, s, "assigning", s, e, d, p)
    BY <1>0, <1>3, <1>4, <2>1, <2>2, <2>3, <2>4 DEF ThreadDoes, CallBecomes
  <2> QED BY <2>5, ThreadStep
<1>6. Calls'
  BY <1>3, <1>5 DEF ThreadDone, Calls, Starting, IInv
<1>7. Locked'
  BY <1>0, <1>5, LockedKeeps DEF ThreadDone
<1>8. RecordOf(s)'
  <2>1. /\ reg'[s] = e /\ sub'[s] = d /\ at'[Worker(s)] = at[Worker(s)] /\ ~Registering(s)'
    BY <1>0, <1>2, <1>5 DEF ThreadDone
  <2>2. /\ reg'[s].present /\ reg'[s].hold /\ sub'[s].published /\ ~sub'[s].finished
        /\ at[Worker(s)] \notin {"joiningDispatcher", "failing", "rejected"}
    BY <1>0, <1>1, <1>4, <2>1 DEF SameStage, RecordOf
  <2> QED BY <1>0, <1>2, <2>1, <2>2 DEF RecordOf
<1>9. OwnersOf(s)'
  <2>1. at[p] \notin Stages /\ at'[p] \notin Stages
    BY <1>0, <1>5 DEF ThreadDone, Stages
  <2>2. \A q \in Procs : (at[q] \in Stages \/ at'[q] \in Stages) =>
          at'[q] = at[q] /\ (On(q, s)' <=> On(q, s)) /\ (q \in Instances => cur'[q] = cur[q])
    BY <1>5, <2>1 DEF ThreadDone
  <2>3. "releasing" \in Stages /\ "owning" \in Stages /\ "cleaning" \in Stages /\ "draining" \in Stages
    BY DEF Stages
  <2>4. \A i \in Instances : at'[i] \in Stages /\ cur'[i] = s =>
          /\ sub'[s].published
          /\ reg'[s].present =>
               reg'[s].hold /\ (i[1] = "dispatcher" /\ at'[i] # "releasing" => reg'[s].fallback)
    <3>1. reg'[s].hold /\ reg'[s].fallback = reg[s].fallback /\ sub'[s].published
      BY <1>1, <1>4, <1>5 DEF ThreadDone, SameStage
    <3>2. \A i \in Instances : at'[i] \in Stages /\ cur'[i] = s => at[i] \in Stages /\ cur[i] = s
      BY <2>2, ProcsAre
    <3>3. \A i \in Instances : at[i] \in Stages /\ cur[i] = s /\ i[1] = "dispatcher" =>
            at[i] = "releasing" \/ reg[s].fallback
      BY <1>0 DEF OwnersOf
    <3> QED BY <2>2, <3>1, <3>2, <3>3, ProcsAre
  <2>5. sub'[s] = d
    BY <1>5 DEF ThreadDone
  <2>6. \A q \in Procs : On(q, s)' =>
          /\ at'[q] \in Stages => sub'[s].started
          /\ at'[q] \in {"draining", "releasing"} => sub'[s].cleaned
          /\ at'[q] \in {"owning", "cleaning"} => ~sub'[s].cleaned
          /\ \A r \in Procs : On(r, s)' /\ at'[q] \in {"owning", "cleaning"} /\ at'[r] \in Stages => r = q
    BY <1>0, <2>2, <2>3, <2>5 DEF OwnersOf, SameStage
  <2>7. (sub'[s].cleaned => sub'[s].started) /\ (sub'[s].finalizing /\ ~sub'[s].finished =>
       \E q \in Procs : On(q, s)' /\ at'[q] = "releasing")
    BY <1>0, <2>2, <2>3, <2>5 DEF OwnersOf, SameStage
  <2> QED BY <2>4, <2>6, <2>7 DEF OwnersOf
<1>10. HeldOf(s)'
  <2>1. Owned(s) => Owned(s)'
    <3>1. Owning(s) => Owning(s)'
      BY <1>0, <1>5 DEF ThreadDone, Owning
    <3>2. reg[s].fallback => reg'[s].fallback
      BY <1>4, <1>5 DEF ThreadDone
    <3> QED BY <1>5, <3>1, <3>2 DEF ThreadDone, Owned, Kinds
  <2>2. CASE reg[s].hold
    BY <1>0, <2>1, <2>2 DEF HeldOf, Asked
  <2>3. CASE ~reg[s].hold
    <3>1. Serves("dispatcher")'
      BY <1>1, <1>5, <2>3 DEF ThreadDone, Kinds
    <3>2. Asked(s)'
      BY <1>4, <1>5, <2>3 DEF ThreadDone, Asked
    <3> QED BY <3>1, <3>2 DEF HeldOf
  <2> QED BY <2>2, <2>3
<1>11. Claims(s)' => Serves("dispatcher")' \/ Claims(s)
  <2>1. CASE reg[s].hold
    BY <1>4, <1>5, <2>1 DEF ThreadDone, Claims
  <2>2. CASE ~reg[s].hold
    BY <1>1, <1>5, <2>2 DEF ThreadDone, Kinds
  <2> QED BY <2>1, <2>2
<1>12. /\ StepOf(p, s) /\ call'[p].at = "start" /\ reg'[s].hold
       /\ reg'[s].present = reg[s].present /\ reg'[s].fallback = reg[s].fallback
       /\ sub[s].published => sub'[s].published
       /\ sub'[s].started = sub[s].started
  BY <1>3, <1>4, <1>5 DEF ThreadDone, SameStage
<1> QED BY <1>6, <1>7, <1>8, <1>9, <1>10, <1>11, <1>12, StepOfKeeps

\* A managed thread's turn that goes no further.
LEMMA TurnKeeps ==
  ASSUME IInv, NEW i \in Instances, NEW s \in Subs, at[i] = "selecting", Free(i),
         NEW d, SameStage(s, d), sub' = [sub EXCEPT ![s] = d],
         UNCHANGED <<closing, next, reg, lock, threadVars, at, cur, call>>,
         work' \in [Procs -> SUBSET Entries], \A j \in Instances : work'[j] \subseteq work[j]
  PROVE  IInv'
<1>0. /\ RecordOf(s) /\ OwnersOf(s) /\ HeldOf(s) /\ TypeOK
      /\ i \in Procs /\ i # JS /\ \A r \in Subs : i # Worker(r)
  BY ProcsAre DEF Records, Owners, Held, IInv
<1>1. ThreadDone(i, s, "selecting", cur[i], reg[s], d, lock[s])
  <2>1. /\ at' = [at EXCEPT ![i] = "selecting"] /\ cur' = [cur EXCEPT ![i] = cur[i]]
        /\ cur[i] \in Subs \union {None} /\ call' \in [Procs -> CallRecords]
        /\ reg' = [reg EXCEPT ![s] = reg[s]] /\ lock' = [lock EXCEPT ![s] = lock[s]]
        /\ reg[s] \in RegRecords /\ lock[s] \in {<<>>} \union Procs /\ d \in SubRecords
    BY <1>0 DEF TypeOK, RegRecords, CallRecords, SameStage
  <2>2. /\ "selecting" \in JsAt \union WorkerAt \union InstanceAt /\ "selecting" \notin Stages
        /\ "selecting" \in Serving
    BY DEF InstanceAt, Serving, Stages
  <2>3. ThreadDoes(i, s, "selecting", cur[i], reg[s], d, lock[s])
    BY <1>0, <2>1, <2>2 DEF ThreadDoes
  <2> QED BY <1>0, <2>3, ThreadStep
<1>2. sub'[s] = d /\ \A q \in Procs : On(q, s)' <=> On(q, s)
  BY <1>1 DEF ThreadDone, On
<1>3. Calls' /\ Locked'
  BY DEF IInv, Calls, Locked
<1>4. RecordOf(s)'
  BY <1>0, <1>1, <1>2 DEF ThreadDone, RecordOf, SameStage
<1>5. OwnersOf(s)'
  BY <1>0, <1>2 DEF OwnersOf, SameStage
<1>6. HeldOf(s)' /\ (Claims(s)' <=> Claims(s))
  BY <1>0, <1>1 DEF ThreadDone, HeldOf, Owned, Owning, Asked, Claims, Kinds
<1>7. \A q \in Procs : at[q] = "assigning" /\ lock[s] = q => reg[s].hold
  <2>1. \A q \in Procs : at[q] = "assigning" /\ lock[s] = q => cur[q] = s
    BY ProcsAre DEF IInv, Locked
  <2> QED BY <2>1 DEF IInv, Records
<1>8. /\ StepOf(i, s) /\ sub'[s].published = sub[s].published
  BY <1>1, <1>2 DEF ThreadDone, SameStage
<1>9. sub'[s].started = sub[s].started /\ reg'[s] = reg[s]
  BY <1>2 DEF SameStage
<1> QED BY <1>0, <1>3, <1>4, <1>5, <1>6, <1>7, <1>8, <1>9, StepOfKeeps

LEMMA VisibleKeeps ==
  ASSUME IInv, NEW s \in Subs, InLoop, ~closing, Visible(s),
         NEW d, SameStage(s, d), sub' = [sub EXCEPT ![s] = d],
         UNCHANGED <<closing, next, threadVars, work>>,
         \/ sub[s].finished /\ UNCHANGED <<reg, lock, at, cur, call>>
         \/ ~sub[s].finished /\ Request(JS, s, "loop")
  PROVE  IInv'
<1>1. /\ JS \in Procs /\ at[JS] = "loop" /\ Free(JS) /\ TypeOK
      /\ call \in [Procs -> CallRecords] /\ cur \in [Procs -> Subs \union {None}]
      /\ work' \in [Procs -> SUBSET Entries] /\ \A i \in Instances : work'[i] \subseteq work[i]
  BY ProcsAre DEF InLoop, IInv, TypeOK, CallRecords
<1>2. SameStages
  BY <1>1, SubIs DEF SameStages, SameStage
<1>3. CASE UNCHANGED <<reg, lock, cur, call>> /\ at' = [at EXCEPT ![JS] = "loop"]
  BY <1>1, <1>2, <1>3, JsMoves DEF JsIdle, Free, Starting
<1>4. CASE UNCHANGED <<reg, lock, at, cur, call>>
  <2>1. at' = [at EXCEPT ![JS] = "loop"]
    BY <1>1, <1>4 DEF TypeOK
  <2> QED BY <1>3, <1>4, <2>1
<1>5. CASE reg[s].present /\ ~sub[s].finished /\ Request(JS, s, "loop")
  <2>1. Asks(JS, s)
    BY <1>1, <1>5 DEF Asks, Visible
  <2> QED BY <1>1, <1>5, <2>1, RequestKeeps
<1> QED BY <1>3, <1>4, <1>5 DEF Request, Goto

LEMMA DisposeKeeps ==
  ASSUME IInv, NEW s \in Subs, Dispose(s)
  PROVE  IInv'
<1>1. ASSUME NEW pr \in {"queued", "asked"}, sub' = [sub EXCEPT ![s].promise = pr],
             \/ sub[s].finished /\ UNCHANGED <<reg, lock, at, cur, call>>
             \/ ~sub[s].finished /\ Request(JS, s, "loop")
      PROVE  IInv'
  <2> DEFINE d == [sub[s] EXCEPT !.promise = pr]
  <2>1. SameStage(s, d) /\ sub' = [sub EXCEPT ![s] = d]
    BY <1>1, RecordTypes DEF SameStage, SubRecords, IInv
  <2> HIDE DEF d
  <2> QED BY <1>1, <2>1, VisibleKeeps DEF Dispose
<1> QED BY <1>1 DEF Dispose

LEMMA CollectKeeps ==
  ASSUME IInv, NEW s \in Subs, Collect(s)
  PROVE  IInv'
<1> DEFINE d == [sub[s] EXCEPT !.held = FALSE,
                   !.owed = sub[s].owed /\ (sub[s].finished \/ sub[s].promise # "none")]
<1>1. SameStage(s, d) /\ sub' = [sub EXCEPT ![s] = d]
  BY RecordTypes DEF SameStage, SubRecords, IInv, Collect
<1> HIDE DEF d
<1>2. \/ sub[s].finished /\ UNCHANGED <<reg, lock, at, cur, call>>
      \/ ~sub[s].finished /\ Request(JS, s, "loop")
  BY DEF Collect
<1> QED BY <1>1, <1>2, VisibleKeeps DEF Collect

LEMMA TurnIs ==
  ASSUME IInv, NEW i \in Instances, NEW s \in Subs, NEW w, Turn(i, <<s, w>>)
  PROVE  /\ at[i] = "selecting" /\ Free(i) /\ <<s, w>> \in work[i] /\ i \in Procs
         /\ work' \in [Procs -> SUBSET Entries] /\ \A j \in Instances : work'[j] \subseteq work[j]
         /\ SameStage(s, sub[s])
<1>1. i \in Procs /\ TypeOK
  BY ProcsAre DEF IInv
<1>2. work' = [work EXCEPT ![i] = work[i] \ {<<s, w>>}]
  BY DEF Turn
<1>3. work' \in [Procs -> SUBSET Entries] /\ \A j \in Procs : work'[j] \subseteq work[j]
  BY <1>1, <1>2 DEF TypeOK
<1> QED BY <1>1, <1>3, RecordTypes, ProcsAre DEF Turn, SameStage

LEMMA DispatchKeeps ==
  ASSUME IInv, NEW i \in Instances, NEW s \in Subs, Dispatch(i, s)
  PROVE  IInv'
<1>1. /\ at[i] = "selecting" /\ Free(i) /\ <<s, "delivery">> \in work[i] /\ i \in Procs
      /\ work' \in [Procs -> SUBSET Entries] /\ \A j \in Instances : work'[j] \subseteq work[j]
      /\ SameStage(s, sub[s]) /\ TypeOK
      /\ UNCHANGED <<closing, next, threadVars>>
  BY TurnIs DEF Dispatch, IInv
<1>6. i[1] = "dispatcher"
  <2>1. EntryOf(i, <<s, "delivery">>) /\ i[1] \in Kinds
    BY <1>1, ProcsAre DEF IInv, Records
  <2> QED BY <2>1 DEF EntryOf, Kinds
<1>2. UNCHANGED sub => sub' = [sub EXCEPT ![s] = sub[s]]
  BY <1>1, Unaltered
<1>3. CASE UNCHANGED <<reg, lock, sub, at, cur, call>>
  BY <1>1, <1>2, <1>3, TurnKeeps
<1>4. CASE sub' = [sub EXCEPT ![s].owed = TRUE] /\ UNCHANGED <<reg, lock, at, cur, call>>
  <2> DEFINE d == [sub[s] EXCEPT !.owed = TRUE]
  <2>1. SameStage(s, d) /\ sub' = [sub EXCEPT ![s] = d]
    BY <1>1, <1>4, RecordTypes DEF SameStage, SubRecords
  <2> HIDE DEF d
  <2> QED BY <1>1, <1>4, <2>1, TurnKeeps
<1>5. CASE ~closing /\ Request(i, s, "selecting") /\ UNCHANGED sub
  <2>1. CASE reg[s].present
    <3>1. Asks(i, s)
      BY <1>1, <1>6 DEF Asks
    <3> QED BY <1>1, <1>2, <1>5, <2>1, <3>1, RequestKeeps
  <2>2. CASE ~reg[s].present
    <3>1. UNCHANGED <<reg, lock, cur, call>> /\ at' = [at EXCEPT ![i] = "selecting"]
      BY <1>5, <2>2 DEF Request, Goto
    <3>2. at' = at
      BY <1>1, <3>1 DEF TypeOK
    <3> QED BY <1>3, <1>5, <3>1, <3>2
  <2> QED BY <2>1, <2>2
<1> QED BY <1>3, <1>4, <1>5 DEF Dispatch

\* A managed thread takes a cleanup, or the release of the bridge, for its own.
LEMMA OwnKeeps ==
  ASSUME IInv, NEW i \in Instances, NEW s \in Subs, Turn(i, <<s, "cleanup">>), ~sub[s].finished,
         NEW pc, NEW d \in SubRecords,
         \/ pc = "owning" /\ ~sub[s].started /\ d.finalizing = sub[s].finalizing
         \/ pc = "releasing" /\ sub[s].cleaned /\ d.finalizing,
         d.published = sub[s].published, d.started, d.cleaned = sub[s].cleaned, ~d.finished,
         sub' = [sub EXCEPT ![s] = d],
         at' = [at EXCEPT ![i] = pc], cur' = [cur EXCEPT ![i] = s],
         UNCHANGED <<closing, next, reg, lock, threadVars, call>>
  PROVE  IInv'
<1>0. /\ RecordOf(s) /\ OwnersOf(s) /\ HeldOf(s) /\ TypeOK
      /\ i \in Procs /\ i # JS /\ \A r \in Subs : i # Worker(r)
      /\ at[i] = "selecting" /\ Free(i) /\ <<s, "cleanup">> \in work[i]
      /\ work' \in [Procs -> SUBSET Entries] /\ \A j \in Instances : work'[j] \subseteq work[j]
      /\ pc \in {"owning", "releasing"}
  BY TurnIs, ProcsAre DEF Records, Owners, Held, IInv
<1>1. /\ sub[s].published
      /\ reg[s].present =>
           reg[s].hold /\ (i[1] = "dispatcher" /\ pc # "releasing" => reg[s].fallback)
  <2>1. EntryOf(i, <<s, "cleanup">>)
    BY <1>0 DEF IInv, Records
  <2> QED BY <1>0, <2>1 DEF EntryOf
<1>2. ThreadDone(i, s, pc, s, reg[s], d, lock[s])
  <2>1. /\ call' \in [Procs -> CallRecords]
        /\ reg' = [reg EXCEPT ![s] = reg[s]] /\ lock' = [lock EXCEPT ![s] = lock[s]]
        /\ reg[s] \in RegRecords /\ lock[s] \in {<<>>} \union Procs
    BY <1>0 DEF TypeOK, RegRecords, CallRecords
  <2>2. /\ pc \in JsAt \union WorkerAt \union InstanceAt /\ pc \in Serving
        /\ "selecting" \in Serving /\ "selecting" \notin Stages
    BY <1>0 DEF InstanceAt, Serving, Stages
  <2>3. ThreadDoes(i, s, pc, s, reg[s], d, lock[s])
    BY <1>0, <2>1, <2>2 DEF ThreadDoes
  <2> QED BY <1>0, <2>3, ThreadStep
<1>3. Calls'
  BY <1>0, <1>2 DEF ThreadDone, Calls, IInv, Free, Starting
<1>4. lock[s] # i
  BY <1>0, ProcsAre DEF IInv, Locked
<1>5. Locked'
  BY <1>0, <1>2, <1>4, LockedKeeps DEF ThreadDone
<1>6. RecordOf(s)'
  <2>1. /\ reg' = reg /\ sub'[s] = d /\ at'[Worker(s)] = at[Worker(s)] /\ closing' = closing
        /\ (Registering(s)' <=> Registering(s))
    BY <1>0, <1>2 DEF ThreadDone
  <2>2. /\ at[Worker(s)] \notin {"unborn", "establishing", "unpublishing"} /\ ~sub'[s].finished
        /\ reg[s].present => reg[s].hold
        /\ sub'[s].published /\ sub[s].published
    BY <1>0, <1>1, <2>1 DEF RecordOf
  <2>3. RecordOf(s)
    BY <1>0
  <2> HIDE DEF IInv
  <2> QED BY <2>1, <2>2, <2>3 DEF RecordOf
<1>7. OwnersOf(s)'
  <2>1. /\ \A q \in Procs : q # i => at'[q] = at[q] /\ cur'[q] = cur[q] /\ (On(q, s)' <=> On(q, s))
        /\ at'[i] = pc /\ sub'[s] = d /\ reg' = reg /\ On(i, s)' /\ \A j \in Instances : j \in Procs
    BY <1>2, <1>0 DEF ThreadDone, On
  <2>2. \A q \in Procs : q # i /\ On(q, s) => at[q] \notin {"owning", "cleaning"}
    BY <1>0 DEF OwnersOf, Stages
  <2>3. \A j \in Instances : at'[j] \in Stages /\ cur'[j] = s =>
          /\ sub'[s].published
          /\ reg'[s].present =>
               reg'[s].hold /\ (j[1] = "dispatcher" /\ at'[j] # "releasing" => reg'[s].fallback)
    <3>1. \A j \in Instances : j # i /\ at[j] \in Stages /\ cur[j] = s =>
             (reg[s].present =>
                reg[s].hold /\ (j[1] = "dispatcher" /\ at[j] # "releasing" => reg[s].fallback))
      BY <1>0 DEF OwnersOf
    <3> QED BY <1>1, <2>1, <3>1
  <2>4. CASE pc = "owning"
    <3>1. /\ \A q \in Procs : On(q, s) => at[q] \notin Stages
          /\ ~sub[s].cleaned /\ ~sub[s].finalizing
      BY <1>0, <2>4 DEF OwnersOf, Stages
    <3>2. \A q \in Procs : On(q, s)' /\ at'[q] \in Stages => q = i
      BY <2>1, <3>1
    <3> QED BY <1>0, <2>1, <2>3, <2>4, <3>1, <3>2 DEF OwnersOf, Stages
  <2>5. CASE pc = "releasing"
    <3>1. sub[s].cleaned
      BY <2>5
    <3> QED BY <1>0, <2>1, <2>2, <2>3, <2>5, <3>1 DEF OwnersOf
  <2> QED BY <1>0, <2>4, <2>5
<1>8. HeldOf(s)' /\ (Claims(s)' <=> Claims(s))
  <2>1. Asked(s) => Asked(s)'
    BY <1>0, <1>2 DEF ThreadDone, Asked
  <2>2. Owned(s) => Owned(s)'
    BY <1>0, <1>2 DEF ThreadDone, Owned, Owning, Kinds
  <2> QED BY <1>0, <1>2, <2>1, <2>2 DEF ThreadDone, HeldOf, Claims, Kinds
<1>9. \A q \in Procs : at[q] = "assigning" /\ lock[s] = q => reg[s].hold
  <2>1. \A q \in Procs : at[q] = "assigning" /\ lock[s] = q => cur[q] = s
    BY ProcsAre DEF IInv, Locked
  <2> QED BY <2>1 DEF IInv, Records
<1>10. StepOf(i, s) /\ sub'[s].published = sub[s].published /\ at'[i] # "assigning"
  BY <1>0, <1>2 DEF ThreadDone
<1> QED BY <1>0, <1>3, <1>5, <1>6, <1>7, <1>8, <1>9, <1>10, StepOfKeeps

LEMMA AdvanceKeeps ==
  ASSUME IInv, NEW i \in Instances, NEW s \in Subs, Advance(i, s)
  PROVE  IInv'
<1>1. /\ at[i] = "selecting" /\ Free(i) /\ i \in Procs /\ Turn(i, <<s, "cleanup">>)
      /\ work' \in [Procs -> SUBSET Entries] /\ \A j \in Instances : work'[j] \subseteq work[j]
      /\ SameStage(s, sub[s]) /\ TypeOK /\ OwnersOf(s)
      /\ UNCHANGED <<closing, next, reg, lock, threadVars, call>>
  BY TurnIs DEF Advance, IInv, Owners
<1>2. CASE UNCHANGED <<sub, at, cur>>
  <2>1. sub' = [sub EXCEPT ![s] = sub[s]]
    BY <1>1, <1>2, Unaltered
  <2> QED BY <1>1, <1>2, <2>1, TurnKeeps
<1>3. CASE /\ ~sub[s].finished /\ ~sub[s].started /\ sub' = [sub EXCEPT ![s].started = TRUE]
           /\ Goto(i, "owning") /\ WorkOn(i, s)
  <2> DEFINE d == [sub[s] EXCEPT !.started = TRUE]
  <2>1. /\ d \in SubRecords /\ d.published = sub[s].published /\ d.started
        /\ d.cleaned = sub[s].cleaned /\ d.finalizing = sub[s].finalizing
        /\ d.finished = sub[s].finished /\ sub' = [sub EXCEPT ![s] = d]
    BY <1>1, <1>3, RecordTypes DEF SubRecords
  <2> HIDE DEF d
  <2> QED BY <1>1, <1>3, <2>1, OwnKeeps DEF Goto, WorkOn
<1>4. CASE /\ ~sub[s].finished /\ sub[s].started /\ sub[s].cleaned /\ Release(i, s) /\ WorkOn(i, s)
  <2> DEFINE d == [sub[s] EXCEPT !.finalizing = TRUE,
                     !.tsfn = IF sub[s].tsfn = "live" THEN "released" ELSE sub[s].tsfn]
  <2>1. /\ d \in SubRecords /\ d.published = sub[s].published /\ d.started = sub[s].started
        /\ d.cleaned = sub[s].cleaned /\ d.finalizing
        /\ d.finished = sub[s].finished /\ sub' = [sub EXCEPT ![s] = d]
    BY <1>1, <1>4, RecordTypes DEF SubRecords, Release
  <2> HIDE DEF d
  <2> QED BY <1>1, <1>4, <2>1, OwnKeeps DEF Release, Goto, WorkOn
<1> QED BY <1>2, <1>3, <1>4 DEF Advance

----------------------------------------------------------------------------
(* The teardown of the environment.                                        *)

LEMMA TeardownKeeps ==
  ASSUME IInv, Teardown
  PROVE  IInv'
<1> DEFINE b == \E s \in Subs : reg[s].present /\ sub[s].published
           pc == IF b THEN "tearingDown" ELSE "exited"
           e(s) == IF ~reg[s].present THEN reg[s]
                   ELSE [reg[s] EXCEPT !.pending = FALSE, !.active = FALSE,
                                       !.keep = reg[s].keep \/ sub[s].published,
                                       !.hold = reg[s].hold \/ sub[s].published]
           d(s) == [sub[s] EXCEPT
                      !.tsfn = IF reg[s].present /\ sub[s].tsfn = "live" THEN "released" ELSE sub[s].tsfn,
                      !.promise = IF sub[s].promise \in {"asked", "queued"} THEN "aborted" ELSE sub[s].promise]
<1>0. /\ at[JS] = "loop" /\ Free(JS) /\ ~closing /\ closing' = TRUE /\ JS \in Procs /\ TypeOK
      /\ UNCHANGED <<next, lock, threadVars, cur, work>>
      /\ \A s \in Subs : ~Registering(s)
  BY ProcsAre DEF Teardown, InLoop, IInv, Registering
<1>1. SameStages
  <2>1. ASSUME NEW s \in Subs
        PROVE  /\ d(s) \in SubRecords
               /\ d(s).published = sub[s].published /\ d(s).started = sub[s].started
               /\ d(s).cleaned = sub[s].cleaned /\ d(s).finalizing = sub[s].finalizing
               /\ d(s).finished = sub[s].finished
    BY <1>0, RecordTypes DEF SubRecords
  <2>2. sub' = [s \in Subs |-> d(s)]
    BY DEF Teardown
  <2> HIDE DEF d
  <2> QED BY <2>1, <2>2 DEF SameStages
<1>2. /\ reg' \in [Subs -> RegRecords]
      /\ \A s \in Subs :
           /\ reg'[s].present = reg[s].present
           /\ reg'[s].fallback = reg[s].fallback
           /\ reg'[s].hold <=> reg[s].hold \/ (reg[s].present /\ sub[s].published)
           /\ reg'[s].keep <=> reg[s].keep \/ (reg[s].present /\ sub[s].published)
           /\ ~reg'[s].active /\ ~reg'[s].pending
  <2>1. ASSUME NEW s \in Subs
        PROVE  /\ e(s) \in RegRecords
               /\ e(s).present = reg[s].present
               /\ e(s).fallback = reg[s].fallback
               /\ e(s).hold <=> reg[s].hold \/ (reg[s].present /\ sub[s].published)
               /\ e(s).keep <=> reg[s].keep \/ (reg[s].present /\ sub[s].published)
               /\ ~e(s).active /\ ~e(s).pending
    <3>1. CASE reg[s].present
      BY <1>0, <3>1, RecordTypes DEF RegRecords
    <3>2. CASE ~reg[s].present
      BY <1>0, <3>2, RecordTypes DEF IInv, Records, RecordOf
    <3> QED BY <3>1, <3>2
  <2>2. reg' = [s \in Subs |-> e(s)]
    BY DEF Teardown
  <2> HIDE DEF e
  <2> QED BY <2>1, <2>2
<1>3. /\ call' \in [Procs -> CallRecords] /\ \A q \in Procs : q # JS => call'[q] = call[q]
      /\ IF b THEN call'[JS].at = "start" /\ call'[JS].kind = "cleanup" ELSE call' = call
  <2>1. CASE b
    <3>1. Start(JS, "cleanup")
      BY <2>1 DEF Teardown
    <3> QED BY <1>0, <2>1, <3>1, StartIs DEF Kinds, CallBecomes
  <2>2. CASE ~b
    BY <1>0, <2>2 DEF Teardown, TypeOK, CallRecords
  <2> QED BY <2>1, <2>2
<1>4. /\ at' \in [Procs -> JsAt \union WorkerAt \union InstanceAt]
      /\ at'[JS] = pc /\ \A q \in Procs : q # JS => at'[q] = at[q]
  <2>1. at' = [at EXCEPT ![JS] = pc] /\ pc \in JsAt
    BY DEF Teardown, Goto, JsAt
  <2> HIDE DEF pc
  <2> QED BY <1>0, <2>1 DEF TypeOK, JsAt, WorkerAt, InstanceAt, Serving
<1>5. /\ \A s \in Subs : at'[Worker(s)] = at[Worker(s)] /\ Worker(s) # JS
      /\ \A i \in Instances : at'[i] = at[i] /\ i # JS /\ i \in Procs
      /\ pc \in {"tearingDown", "exited"}
  BY <1>4, ProcsAre
<1>6. b => pc = "tearingDown"
  OBVIOUS
<1>7. ~b => pc = "exited"
  OBVIOUS
<1>8. \A s \in Subs : reg[s].present /\ sub[s].published => b
  OBVIOUS
<1> HIDE DEF b, pc
<1>9. TypeOK'
  BY <1>0, <1>1, <1>2, <1>3, <1>4 DEF TypeOK, threadVars, SameStages, SubRecords, CallRecords, RegRecords,
     JsAt, WorkerAt, InstanceAt, Serving
<1>10. Positions'
  BY <1>0, <1>4, <1>5 DEF IInv, Positions, threadVars, JsAt
<1>11. Calls'
  BY <1>0, <1>3, <1>4, <1>5, <1>6, <1>7 DEF IInv, Calls, Free, Starting
<1>12. Locked'
  BY <1>0, <1>4, <1>5, ProcsAre DEF IInv, Locked, TypeOK
<1>13. Records'
  <2>1. ASSUME NEW s \in Subs PROVE RecordOf(s)'
    <3>1. RecordOf(s) /\ ~Registering(s)'
      BY <1>4, <1>5 DEF IInv, Records, Registering
    <3>2. /\ sub'[s].published = sub[s].published /\ sub'[s].started = sub[s].started
          /\ sub'[s].finished = sub[s].finished
      BY <1>1 DEF SameStages
    <3>3. /\ reg'[s].present = reg[s].present
          /\ reg'[s].fallback = reg[s].fallback
          /\ reg'[s].hold <=> reg[s].hold \/ (reg[s].present /\ sub[s].published)
          /\ reg'[s].keep <=> reg[s].keep \/ (reg[s].present /\ sub[s].published)
          /\ ~reg'[s].active /\ ~reg'[s].pending
      BY <1>2
    <3> QED BY <1>0, <1>5, <3>1, <3>2, <3>3 DEF RecordOf
  <2>2. ASSUME NEW p \in Procs, at'[p] = "assigning" PROVE reg'[cur'[p]].hold
    <3>1. at[p] = "assigning" /\ cur[p] \in Subs /\ reg[cur[p]].hold
      BY <1>4, <1>5, <2>2 DEF IInv, Records, Positions
    <3> QED BY <1>0, <1>2, <3>1
  <2>3. ASSUME NEW i \in Instances, NEW f \in work'[i] PROVE EntryOf(i, f)'
    <3>1. f \in work[i] /\ f[1] \in Subs
      BY <1>0, <1>5 DEF TypeOK, Entries
    <3>2. EntryOf(i, f)
      BY <3>1 DEF IInv, Records
    <3> QED BY <1>1, <1>2, <3>1, <3>2 DEF EntryOf, SameStages
  <2> QED BY <2>1, <2>2, <2>3 DEF Records
<1>14. Owners'
  <2>1. \A s \in Subs, p \in Procs : (On(p, s)' <=> On(p, s)) /\ (On(p, s) => p # JS)
    BY <1>0, <1>5 DEF On
  <2>2. ASSUME NEW s \in Subs PROVE OwnersOf(s)'
    <3>1. OwnersOf(s)
      BY DEF IInv, Owners
    <3>2. \A i \in Instances : at'[i] \in Stages /\ cur'[i] = s =>
            /\ sub'[s].published
            /\ reg'[s].present =>
               reg'[s].hold /\ (i[1] = "dispatcher" /\ at'[i] # "releasing" => reg'[s].fallback)
      BY <1>0, <1>1, <1>2, <1>5, <3>1 DEF OwnersOf, SameStages
    <3> QED BY <1>0, <1>1, <1>4, <2>1, <3>1, <3>2 DEF OwnersOf, SameStages
  <2> QED BY <2>2 DEF Owners
<1>15. Running' /\ \A k \in Kinds : Serves(k) => Serves(k)'
  <2>1. \A k \in Kinds : ~Idle(k)
    BY <1>0 DEF Idle
  <2>2. \A p \in Procs : call'[p].at = "spawned" => call'[p] = call[p]
    BY <1>3
  <2>3. \A p \in Procs :
          at'[p] \in {"assigning", "tearingDown", "registering"} /\ call'[p].at = "none" =>
            at'[p] = at[p] /\ call'[p] = call[p]
    BY <1>3, <1>4, <1>5, <1>7
  <2> QED BY <1>0, <1>5, <1>10, <2>1, <2>2, <2>3, RunningStays DEF threadVars
<1>16. Claimed'
  BY <1>0 DEF Claimed
<1>17. Held'
  <2>1. ASSUME NEW s \in Subs, reg'[s].hold PROVE Owned(s)' \/ (Serves("dispatcher")' /\ Asked(s)')
    <3>1. Owned(s) => Owned(s)'
      <4>1. Owning(s) => Owning(s)'
        BY <1>0, <1>5, OwningStays, ProcsAre
      <4> QED BY <1>2, <1>5, <1>15, <4>1 DEF Owned, Kinds
    <3>2. Serves("dispatcher") => Serves("dispatcher")'
      BY <1>15 DEF Kinds
    <3>3. CASE reg[s].hold
      <4>1. Asked(s) => Asked(s)'
        BY <1>0, <1>2, <1>4 DEF Asked
      <4> QED BY <3>1, <3>2, <3>3, <4>1 DEF IInv, Held, HeldOf
    <3>4. CASE ~reg[s].hold
      <4>1. reg[s].present /\ sub[s].published /\ reg'[s].keep
        BY <1>2, <2>1, <3>4
      <4>2. Asked(s)'
        BY <1>4, <1>6, <1>8, <4>1 DEF Asked
      <4>3. RecordOf(s) /\ at[Worker(s)] \in WorkerAt
        BY DEF IInv, Records, Positions
      <4>4. Owning(s) \/ reg[s].active
        <5>1. at[Worker(s)] \in {"publishing", "resolved"} => reg[s].active
          BY <1>0, <3>4, <4>1, <4>3 DEF RecordOf
        <5>2. at[Worker(s)] \notin {"unborn", "establishing", "unpublishing", "awaiting",
                                    "joiningDispatcher", "failing", "rejected"}
          BY <3>4, <4>1, <4>3 DEF RecordOf
        <5> QED BY <4>3, <5>1, <5>2 DEF WorkerAt, Owning
      <4>5. reg[s].active => Serves("dispatcher")
        BY <1>0 DEF IInv, Claimed, Claims
      <4>6. Owning(s) => Owned(s)'
        BY <3>1 DEF Owned
      <4> QED BY <3>2, <4>2, <4>4, <4>5, <4>6
    <3> QED BY <3>3, <3>4
  <2> QED BY <2>1 DEF Held, HeldOf
<1> QED BY <1>9, <1>10, <1>11, <1>12, <1>13, <1>14, <1>15, <1>16, <1>17 DEF IInv

LEMMA TornDownKeeps ==
  ASSUME IInv, TornDown
  PROVE  IInv'
<1> DEFINE e(s) == IF ~reg[s].hold THEN reg[s]
                   ELSE [reg[s] EXCEPT !.keep = FALSE, !.fallback = reg[s].fallback \/ ~call[JS].ok]
<1>0. /\ at[JS] = "tearingDown" /\ Free(JS) /\ closing /\ JS \in Procs /\ TypeOK
      /\ UNCHANGED <<closing, next, lock, sub, threadVars, cur, work>>
      /\ call[JS].ok \in BOOLEAN
  <2>1. call[JS].ok \in BOOLEAN
    BY CallTypes, ProcsAre DEF CallRecords
  <2> QED BY <2>1, ProcsAre DEF TornDown, IInv, Positions
<1>2. /\ reg' \in [Subs -> RegRecords]
      /\ \A s \in Subs :
           /\ reg'[s].present = reg[s].present /\ reg'[s].hold = reg[s].hold
           /\ reg'[s].active = reg[s].active /\ reg'[s].pending = reg[s].pending
           /\ reg'[s].fallback <=> reg[s].fallback \/ (reg[s].hold /\ ~call[JS].ok)
           /\ reg'[s].keep => reg[s].keep
  <2>1. ASSUME NEW s \in Subs
        PROVE  /\ e(s) \in RegRecords
               /\ e(s).present = reg[s].present /\ e(s).hold = reg[s].hold
               /\ e(s).active = reg[s].active /\ e(s).pending = reg[s].pending
               /\ e(s).fallback <=> reg[s].fallback \/ (reg[s].hold /\ ~call[JS].ok)
               /\ e(s).keep => reg[s].keep
    <3>1. CASE reg[s].hold
      BY <1>0, <3>1, RecordTypes DEF RegRecords
    <3>2. CASE ~reg[s].hold
      BY <1>0, <3>2, RecordTypes
    <3> QED BY <3>1, <3>2
  <2>2. reg' = [s \in Subs |-> e(s)]
    BY DEF TornDown
  <2> HIDE DEF e
  <2> QED BY <2>1, <2>2
<1>3. CallBecomes(JS, call'[JS]) /\ call'[JS].at = "none"
  BY <1>0, ForgetIs DEF TornDown
<1>4. /\ at' \in [Procs -> JsAt \union WorkerAt \union InstanceAt]
      /\ at'[JS] = "exited" /\ \A q \in Procs : q # JS => at'[q] = at[q]
  BY <1>0 DEF TornDown, Goto, TypeOK, JsAt, WorkerAt, InstanceAt, Serving
<1>5. /\ \A s \in Subs : at'[Worker(s)] = at[Worker(s)] /\ Worker(s) # JS
      /\ \A i \in Instances : at'[i] = at[i] /\ i # JS /\ i \in Procs
  BY <1>4, ProcsAre
<1>9. TypeOK'
  BY <1>0, <1>2, <1>3, <1>4 DEF TypeOK, threadVars, CallBecomes, CallRecords, RegRecords,
     JsAt, WorkerAt, InstanceAt, Serving
<1>10. Positions'
  BY <1>0, <1>4, <1>5 DEF IInv, Positions, threadVars, JsAt
<1>11. Calls'
  BY <1>3, <1>4 DEF IInv, Calls, CallBecomes, Starting
<1>12. Locked'
  BY <1>0, <1>4, <1>5, ProcsAre DEF IInv, Locked, TypeOK
<1>13. Records'
  <2>1. ASSUME NEW s \in Subs PROVE RecordOf(s)'
    <3>1. RecordOf(s) /\ ~Registering(s)' /\ ~Registering(s)
      BY <1>0, <1>4, <1>5 DEF IInv, Records, Registering
    <3>3. /\ reg'[s].present = reg[s].present /\ reg'[s].hold = reg[s].hold
          /\ reg'[s].active = reg[s].active /\ reg'[s].pending = reg[s].pending
          /\ reg'[s].fallback <=> reg[s].fallback \/ (reg[s].hold /\ ~call[JS].ok)
          /\ reg'[s].keep => reg[s].keep
      BY <1>2
    <3> QED BY <1>0, <1>5, <3>1, <3>3 DEF RecordOf
  <2>2. ASSUME NEW p \in Procs, at'[p] = "assigning" PROVE reg'[cur'[p]].hold
    <3>1. at[p] = "assigning" /\ cur[p] \in Subs /\ reg[cur[p]].hold
      BY <1>4, <2>2 DEF IInv, Records, Positions
    <3> QED BY <1>0, <1>2, <3>1
  <2>3. ASSUME NEW i \in Instances, NEW f \in work'[i] PROVE EntryOf(i, f)'
    <3>1. f \in work[i] /\ f[1] \in Subs
      BY <1>0, <1>5 DEF TypeOK, Entries
    <3>2. EntryOf(i, f)
      BY <3>1 DEF IInv, Records
    <3> QED BY <1>0, <1>2, <3>1, <3>2 DEF EntryOf
  <2> QED BY <2>1, <2>2, <2>3 DEF Records
<1>14. Owners'
  <2>1. \A s \in Subs, p \in Procs : (On(p, s)' <=> On(p, s)) /\ (On(p, s) => p # JS)
    BY <1>0, <1>5 DEF On
  <2>2. ASSUME NEW s \in Subs PROVE OwnersOf(s)'
    <3>1. OwnersOf(s)
      BY DEF IInv, Owners
    <3>2. \A i \in Instances : at'[i] \in Stages /\ cur'[i] = s =>
            /\ sub'[s].published
            /\ reg'[s].present =>
               reg'[s].hold /\ (i[1] = "dispatcher" /\ at'[i] # "releasing" => reg'[s].fallback)
      BY <1>0, <1>2, <1>5, <3>1 DEF OwnersOf
    <3> QED BY <1>0, <1>4, <2>1, <3>1, <3>2 DEF OwnersOf
  <2> QED BY <2>2 DEF Owners
<1>15. Running' /\ \A k \in Kinds : Serves(k) => Serves(k)'
  <2>1. \A k \in Kinds : Idle(k) => Idle(k)'
    BY <1>0, <1>2 DEF Idle, Needed
  <2>2. \A p \in Procs : call'[p].at = "spawned" => call'[p] = call[p]
    BY <1>3 DEF CallBecomes
  <2>3. \A p \in Procs :
          at'[p] \in {"assigning", "tearingDown", "registering"} /\ call'[p].at = "none" =>
            at'[p] = at[p] /\ call'[p] = call[p]
    BY <1>3, <1>4 DEF CallBecomes
  <2> QED BY <1>0, <1>5, <1>10, <2>1, <2>2, <2>3, RunningStays DEF threadVars
<1>16. Claimed'
  BY <1>0 DEF Claimed
<1>17. Held'
  <2>1. ASSUME NEW s \in Subs, reg'[s].hold PROVE Owned(s)' \/ (Serves("dispatcher")' /\ Asked(s)')
    <3>0. reg[s].hold /\ reg[s].present
      BY <1>0, <1>2, <2>1, RecordTypes DEF IInv, Records, RecordOf
    <3>1. Owned(s) => Owned(s)'
      <4>1. Owning(s) => Owning(s)'
        BY <1>0, <1>5, OwningStays, ProcsAre
      <4> QED BY <1>2, <1>5, <1>15, <4>1 DEF Owned, Kinds
    <3>2. CASE call[JS].ok
      <4>1. ~Idle("cleanup")
        BY <3>0 DEF Idle, Needed
      <4>2. Serves("cleanup")
        BY <1>0, <3>2, <4>1 DEF IInv, Running, Runs
      <4> QED BY <1>15, <4>2 DEF Owned, Kinds
    <3>3. CASE ~call[JS].ok
      <4>1. reg'[s].fallback
        BY <1>2, <3>0, <3>3
      <4>2. Owned(s) \/ Serves("dispatcher")
        BY <3>0 DEF IInv, Held, HeldOf
      <4> QED BY <1>15, <3>1, <4>1, <4>2 DEF Owned, Kinds
    <3> QED BY <3>2, <3>3
  <2> QED BY <2>1 DEF Held, HeldOf
<1> QED BY <1>9, <1>10, <1>11, <1>12, <1>13, <1>14, <1>15, <1>16, <1>17 DEF IInv

----------------------------------------------------------------------------
(* The theorems.                                                           *)

LEMMA InitHolds == Init => IInv
<1> SUFFICES ASSUME Init PROVE IInv
  OBVIOUS
<1>1. /\ at \in [Procs -> {"loop", "unborn"}] /\ at[JS] = "loop" /\ ~closing
      /\ \A p \in Procs : p # JS => at[p] = "unborn"
  BY ProcsAre DEF Init
<1>2. /\ \A s \in Subs : at[Worker(s)] = "unborn"
      /\ \A i \in Instances : at[i] = "unborn"
  BY <1>1, ProcsAre
<1>3. \A s \in Subs :
        /\ ~reg[s].present /\ ~reg[s].pending /\ ~reg[s].active
        /\ ~reg[s].keep /\ ~reg[s].fallback /\ ~reg[s].hold
        /\ ~sub[s].published /\ ~sub[s].started /\ ~sub[s].cleaned
        /\ ~sub[s].finalizing /\ ~sub[s].finished
        /\ lock[s] = <<>>
  BY NoRegistrationIs DEF Init
<1>4. \A p \in Procs : call[p] = NoCall /\ work[p] = {}
  BY DEF Init
<1>5. NoCall.at = "none" /\ NoCall \in CallRecords
  BY BoundsAssumption DEF NoCall, CallRecords, Kinds, None
<1>6. TypeOK
  <2>1. reg \in [Subs -> RegRecords] /\ call \in [Procs -> CallRecords]
        /\ sub \in [Subs -> SubRecords]
    BY <1>5, NoRegistrationIs DEF Init, SubRecords
  <2>2. next \in 1..(MaxSubscriptions + 1) /\ 0 \in 0..MaxSpawns
    BY BoundsAssumption DEF Init
  <2> QED BY <1>1, <2>1, <2>2 DEF Init, TypeOK, RegRecords, SubRecords, CallRecords, None
<1>7. Positions
  BY <1>1, <1>2 DEF Positions, JsAt, WorkerAt, InstanceAt, Stages
<1>8. Calls
  BY <1>1, <1>4, <1>5 DEF Calls, Starting
<1>9. Locked
  BY <1>1, <1>2, <1>3 DEF Locked
<1>10. Records
  BY <1>1, <1>2, <1>3, <1>4, ProcsAre DEF Records, RecordOf, Registering
<1>11. Owners
  BY <1>1, <1>2, <1>3 DEF Owners, OwnersOf, Stages
<1>12. Running
  BY <1>1, <1>4, <1>5 DEF Running, Free, Init
<1>13. Claimed
  BY <1>3 DEF Claimed, Claims
<1>14. Held
  BY <1>3 DEF Held, HeldOf
<1> QED BY <1>6, <1>7, <1>8, <1>9, <1>10, <1>11, <1>12, <1>13, <1>14 DEF IInv

LEMMA ManagingKeeps ==
  ASSUME IInv, NEW p \in Procs, Managing(p)
  PROVE  IInv'
  BY StartTurnKeeps, ReapKeeps, SpawnKeeps, SpawnFailsKeeps, StartedKeeps, JoinTurnKeeps,
     JoinedKeeps DEF Managing

LEMMA JavaScriptKeeps ==
  ASSUME IInv, JavaScript
  PROVE  IInv'
<1>1. CASE JsAssigns
  BY <1>1, AssignKeeps, ProcsAre DEF JsAssigns
<1> QED BY <1>1, ManagingKeeps, RegisterKeeps, RegisteredKeeps, BridgeKeeps, CompletionKeeps,
        TornDownKeeps, ProcsAre DEF JavaScript

LEMMA LibuvKeeps ==
  ASSUME IInv, NEW s \in Subs, Libuv(s)
  PROVE  IInv'
<1>1. Worker(s) \in Procs /\ On(Worker(s), s)
  BY ProcsAre DEF On
<1>2. CASE Finish(Worker(s), s, "awaiting")
  BY <1>1, <1>2, FinishKeeps
<1>3. CASE CleanEngine(Worker(s), s) \/ EngineCleaned(Worker(s), s)
  BY <1>1, <1>3, CleanEngineKeeps, EngineCleanedKeeps
<1>4. CASE Managing(Worker(s))
  BY <1>1, <1>4, ManagingKeeps
<1> QED BY <1>2, <1>3, <1>4, EstablishmentFailsKeeps, GoneKeeps, PublishKeeps, PublishedKeeps,
        WorkerDrainedKeeps DEF Libuv

LEMMA ManagedKeeps ==
  ASSUME IInv, NEW i \in Instances, Managed(i)
  PROVE  IInv'
<1>1. i \in Procs
  BY ProcsAre
<1>2. CASE DispatcherAssigns(i)
  BY <1>1, <1>2, AssignKeeps DEF DispatcherAssigns
<1>3. CASE cur[i] # None /\ (CleanEngine(i, cur[i]) \/ EngineCleaned(i, cur[i])
                             \/ Finish(i, cur[i], "selecting"))
  <2>1. cur[i] \in Subs /\ On(i, cur[i]) /\ i # Worker(cur[i])
    BY <1>1, <1>3, ProcsAre DEF IInv, TypeOK, On
  <2>2. CASE Finish(i, cur[i], "selecting")
    BY <1>1, <2>1, <2>2, FinishKeeps
  <2> QED BY <1>1, <1>3, <2>1, <2>2, CleanEngineKeeps, EngineCleanedKeeps
<1>4. CASE Managing(i)
  BY <1>1, <1>4, ManagingKeeps
<1> QED BY <1>2, <1>3, <1>4, EnterKeeps, SelectKeeps, LeaveKeeps, DispatchKeeps, AdvanceKeeps,
        AdvanceOwnedKeeps DEF Managed

LEMMA NextKeeps ==
  ASSUME IInv, [Next]_vars
  PROVE  IInv'
<1>1. CASE Next
  BY <1>1, JavaScriptKeeps, TeardownKeeps, DisposeKeeps, CollectKeeps, LibuvKeeps, ManagedKeeps
     DEF Next
<1>2. CASE UNCHANGED vars
  <2>1. UNCHANGED <<closing, next, pcVars, subVars, born, life, handle, call>>
    BY <1>2 DEF vars, pcVars, subVars
  <2>2. /\ Positions' /\ Locked' /\ Records' /\ Owners' /\ Claimed' /\ Held'
        /\ \A k \in Kinds : Runs(k)' = Runs(k) /\ Idle(k)' = Idle(k)
    BY <2>1, NobodyMoves
  <2>3. TypeOK' /\ Calls'
    BY <2>1 DEF IInv, TypeOK, Calls, pcVars, subVars
  <2>4. Running'
    BY <2>1, <2>2 DEF IInv, Running, Free, pcVars, Kinds
  <2> QED BY <2>2, <2>3, <2>4 DEF IInv
<1> QED BY <1>1, <1>2

\* The invariant holds in every state an environment reaches: no turn of its
\* mutex, by whichever thread, breaks it (delivery.rs, EnvironmentInner).
THEOREM Invariance == Spec => []IInv
  BY InitHolds, NextKeeps, PTL DEF Spec

\* Every thread, registration and call of an environment stays in one of the
\* states the code has, and the handle of a thread whose lifecycle says Running is
\* there for whoever joins it (delivery.rs, ensure_dispatcher and request_cleanup).
THEOREM EnvironmentTypes == Spec => []TypeOK
<1>1. IInv => TypeOK
  BY DEF IInv
<1> QED BY <1>1, Invariance, PTL

\* However disposals, collections, failures, deliveries, establishments and a
\* teardown interleave, with any number of subscriptions, and whichever threads
\* cannot be started, a registration that is held for its cleanup always has a
\* thread that will take it (delivery.rs, request_background_cleanup).
THEOREM HeldCleanupIsOwned == Spec => []CleanupHasOwner
<1>1. IInv => CleanupHasOwner
  <2>1. SUFFICES ASSUME IInv, NEW s \in Subs, reg[s].hold
                 PROVE  \/ Serves("cleanup")
                        \/ reg[s].fallback /\ Serves("dispatcher")
                        \/ Owning(s) \/ Asking(s)
    BY DEF CleanupHasOwner
  <2>2. Owned(s) \/ Asked(s)
    BY <2>1 DEF IInv, Held, HeldOf
  <2> QED BY <2>2 DEF Owned, Asked, Asking
<1> QED BY <1>1, Invariance, PTL

\* One thread at a time owns a subscription's cleanup, its libuv thread or one
\* managed thread: while it closes the engine's side nobody else drains or
\* releases the bridge (lib.rs, advance_background_cleanup, cleanup_started).
OneOwner ==
  \A s \in Subs : \A p, q \in Procs :
    /\ On(p, s) /\ at[p] \in {"owning", "cleaning"}
    /\ On(q, s) /\ at[q] \in Stages
    => p = q

\* However many threads find a cleanup to do, whoever stops on the way and
\* whatever is handed to the dispatcher, no two of them clean up one
\* subscription (lib.rs, advance_background_cleanup and dispose_join_and_drain).
THEOREM CleanupHasOneOwner == Spec => []OneOwner
<1>1. IInv => OneOwner
  BY DEF IInv, Owners, OwnersOf, OneOwner
<1> QED BY <1>1, Invariance, PTL

----------------------------------------------------------------------------
(* How a cleanup ends.                                                     *)

Done == {"queued", "joining", "settled"}
Joins == {"joiningDispatcher", "joiningCleanup"}

\* A cleanup is finished by the one thread that released the bridge, once it is
\* finalized or the environment closes, and dispose() is completed after it.  A
\* bridge that is released gets no further delivery.
EndsOf(s) ==
  /\ sub[s].promise \in Done => sub[s].finished /\ sub[s].tsfn = "finalized"
  /\ sub[s].finished => /\ sub[s].cleaned /\ sub[s].finalizing
                        /\ closing \/ sub[s].tsfn = "finalized"
  /\ sub[s].tsfn = "finalized" => ~sub[s].owed
  /\ sub[s].cleaned \/ sub[s].tsfn \in {"released", "finalized"} => ~reg[s].active
  /\ at[Worker(s)] = "establishing" => closing \/ sub[s].tsfn = "live"
  /\ \A p \in Procs : On(p, s) =>
       /\ at[p] = "cleaning" => ~reg[s].active
       /\ at[p] = "releasing" =>
            /\ sub[s].finalizing /\ ~sub[s].finished
            /\ \A q \in Procs : On(q, s) /\ at[q] = "releasing" => q = p
Joining == at[JS] \in Joins => cur[JS] \in Subs /\ sub[cur[JS]].promise = "joining"
Ends == (\A s \in Subs : EndsOf(s)) /\ Joining

\* The step leaves what a subscription's end depends on.
Kept(s) ==
  /\ reg'[s].active => reg[s].active
  /\ sub'[s].finished = sub[s].finished /\ sub'[s].cleaned = sub[s].cleaned
  /\ sub'[s].finalizing = sub[s].finalizing /\ sub'[s].tsfn = sub[s].tsfn
  /\ sub'[s].owed => sub[s].owed
  /\ sub'[s].promise \in Done =>
       sub[s].promise \in Done \/ (sub[s].finished /\ sub[s].tsfn = "finalized")

\* Thread x goes to pc, or nobody moves.
Moves(x, pc) ==
  /\ pc # "establishing"
  /\ \/ UNCHANGED <<at, cur>>
     \/ /\ at' = [at EXCEPT ![x] = pc]
        /\ \A q \in Procs : q # x => cur'[q] = cur[q]

LEMMA MovesAre ==
  ASSUME IInv, NEW x \in Procs, NEW pc, Moves(x, pc)
  PROVE  /\ \A q \in Procs : at'[q] = at[q] \/ (q = x /\ at'[q] = pc)
         /\ \A q \in Procs : q # x => cur'[q] = cur[q]
         /\ \A q \in Procs, s \in Subs : q # x => (On(q, s)' <=> On(q, s))
         /\ \A q \in Procs, s \in Subs : at'[q] # pc => (On(q, s)' <=> On(q, s))
<1>1. at \in [Procs -> {at[q] : q \in Procs}]
  BY DEF IInv, TypeOK
<1>2. \A q \in Procs : q # x => cur'[q] = cur[q]
  BY DEF Moves
<1>3. \A q \in Procs : at'[q] = at[q] \/ (q = x /\ at'[q] = pc)
  BY <1>1 DEF Moves
<1>4. \A q \in Procs, s \in Subs : q # x => (On(q, s)' <=> On(q, s))
  BY <1>2 DEF On
<1>5. \A q \in Procs, s \in Subs : at'[q] # pc => (On(q, s)' <=> On(q, s))
  BY <1>1, <1>4 DEF Moves, On
<1> QED BY <1>2, <1>3, <1>4, <1>5

LEMMA EndStays ==
  ASSUME IInv, NEW s \in Subs, EndsOf(s), Kept(s), closing => closing',
         NEW x \in Procs, NEW pc, Moves(x, pc),
         pc \notin {"cleaning", "releasing"} \/ ~On(x, s)'
  PROVE  EndsOf(s)'
<1>1. Worker(s) \in Procs
  BY ProcsAre
<1>2. at'[Worker(s)] = "establishing" => at[Worker(s)] = "establishing"
  BY <1>1, MovesAre DEF Moves
<1>3. ASSUME NEW p \in Procs, On(p, s)', at'[p] \in {"cleaning", "releasing"}
      PROVE  On(p, s) /\ at[p] = at'[p]
  BY <1>3, MovesAre
<1>4. \A p \in Procs : On(p, s)' =>
        /\ at'[p] = "cleaning" => ~reg'[s].active
        /\ at'[p] = "releasing" =>
             /\ sub'[s].finalizing /\ ~sub'[s].finished
             /\ \A q \in Procs : On(q, s)' /\ at'[q] = "releasing" => q = p
  BY <1>3 DEF EndsOf, Kept
<1> QED BY <1>2, <1>4 DEF EndsOf, Kept

\* A step of one thread that leaves all subscriptions but s as they are.
LEMMA EndsStay ==
  ASSUME IInv, Ends, NEW x \in Procs, NEW pc, Moves(x, pc), closing => closing',
         \A s \in Subs : \/ EndsOf(s)'
                         \/ Kept(s) /\ (pc \notin {"cleaning", "releasing"} \/ ~On(x, s)'),
         Joining'
  PROVE  Ends'
  BY EndStays DEF Ends

\* Threads other than JavaScript leave the promises it is joining for.
LEMMA JoiningStays ==
  ASSUME IInv, Joining, at'[JS] = at[JS], cur'[JS] = cur[JS],
         \A s \in Subs : sub[s].promise = "joining" => sub'[s].promise = "joining"
  PROVE  Joining'
  BY DEF Joining

\* A step that leaves all subscriptions as they are.
LEMMA QuietEnds ==
  ASSUME IInv, Ends, UNCHANGED <<closing, sub>>, \A s \in Subs : reg'[s].active => reg[s].active,
         NEW x \in Procs, NEW pc, Moves(x, pc),
         pc \notin {"cleaning", "releasing"} \/ \A s \in Subs : ~On(x, s)',
         x = JS => pc \notin Joins \/ (at[JS] \in Joins /\ UNCHANGED cur)
                                  \/ UNCHANGED <<at, cur>>
  PROVE  Ends'
<1>1. \A s \in Subs : Kept(s)
  BY DEF Kept
<1>2. Joining'
  <2>1. CASE UNCHANGED <<at, cur>>
    BY <2>1 DEF Ends, Joining
  <2>2. CASE x # JS
    <3>1. at'[JS] = at[JS] /\ cur'[JS] = cur[JS]
      BY <2>2, MovesAre, ProcsAre
    <3> QED BY <3>1 DEF Ends, Joining
  <2>3. CASE x = JS /\ (pc \notin Joins \/ (at[JS] \in Joins /\ UNCHANGED cur))
    <3>1. at'[JS] \in {at[JS], pc}
      BY MovesAre, ProcsAre
    <3>2. CASE pc \notin Joins /\ at' = [at EXCEPT ![x] = pc]
      <4>1. at'[JS] = pc
        BY <2>3, <3>2, ProcsAre DEF IInv, TypeOK
      <4> QED BY <3>2, <4>1 DEF Joining
    <3>3. CASE at[JS] \in Joins /\ UNCHANGED cur
      BY <3>1, <3>3 DEF Ends, Joining
    <3> QED BY <2>1, <2>3, <3>2, <3>3 DEF Moves
  <2> QED BY <2>1, <2>2, <2>3
<1> QED BY <1>1, <1>2, EndsStay

LEMMA ManagingEnds ==
  ASSUME IInv, Ends, NEW p \in Procs, Managing(p)
  PROVE  Ends'
<1>1. UNCHANGED <<closing, sub, reg>>
  BY DEF Managing, StartTurn, Reap, Spawn, SpawnFails, Started, JoinTurn, Joined, subVars
<1>2. CASE UNCHANGED <<at, cur>>
  <2>1. Moves(JS, "loop") /\ "loop" \notin Joins \union {"cleaning", "releasing"}
    BY <1>2 DEF Moves, Joins
  <2> QED BY <1>1, <2>1, QuietEnds, ProcsAre
<1>3. CASE Spawn(p)
  <2> DEFINE x == <<call[p].kind, born[call[p].kind] + 1>>
  <2>1. x \in Procs /\ x # JS
    <3>1. call[p].kind \in Kinds /\ born[call[p].kind] + 1 \in 1..MaxSpawns
      BY <1>3, BoundsAssumption DEF Spawn, IInv, TypeOK
    <3> QED BY <3>1, ProcsAre DEF Instances
  <2>2. Moves(x, "born") /\ "born" \notin {"cleaning", "releasing"}
    BY <1>3 DEF Spawn, Moves
  <2> HIDE DEF x
  <2> QED BY <1>1, <2>1, <2>2, QuietEnds
<1> QED BY <1>2, <1>3
    DEF Managing, StartTurn, Reap, SpawnFails, Started, JoinTurn, Joined, pcVars

LEMMA RegisterEnds ==
  ASSUME IInv, Ends, Register
  PROVE  Ends'
<1>1. \A s \in Subs : reg'[s].active => reg[s].active
  BY DEF Register, NoRegistration, IInv, TypeOK
<1>2. Moves(JS, "registering") /\ "registering" \notin Joins \union {"cleaning", "releasing"}
  BY DEF Register, Goto, Moves, Joins
<1> QED BY <1>1, <1>2, QuietEnds, ProcsAre DEF Register

\* The bridge of a new subscription is there.
LEMMA RegisteredEnds ==
  ASSUME IInv, Ends, Registered
  PROVE  Ends'
<1>0. at[JS] = "registering" /\ next \in Subs /\ UNCHANGED <<closing, cur>>
  BY BoundsAssumption DEF Registered, IInv, Positions, TypeOK, Subs
<1>1. CASE reg' = [reg EXCEPT ![next] = NoRegistration] /\ Goto(JS, "loop") /\ UNCHANGED sub
  <2>1. \A s \in Subs : reg'[s].active => reg[s].active
    BY <1>1, NoRegistrationIs DEF IInv, TypeOK
  <2>2. Moves(JS, "loop") /\ "loop" \notin Joins \union {"cleaning", "releasing"}
    BY <1>0, <1>1 DEF Goto, Moves, Joins
  <2> QED BY <1>0, <1>1, <2>1, <2>2, QuietEnds, ProcsAre
<1>2. CASE /\ sub' = [sub EXCEPT ![next].tsfn = "live"] /\ UNCHANGED <<reg, call>>
           /\ at' = [at EXCEPT ![JS] = "loop", ![Worker(next)] = "establishing"]
  <2>1. /\ at'[JS] = "loop" /\ at'[Worker(next)] = "establishing" /\ at[Worker(next)] = "unborn"
        /\ \A q \in Procs : q \notin {JS, Worker(next)} => at'[q] = at[q]
        /\ JS \in Procs /\ Worker(next) \in Procs
    BY <1>0, <1>2, ProcsAre DEF IInv, TypeOK, Positions, Subs
  <2>2. ASSUME NEW s \in Subs PROVE EndsOf(s)'
    <3>1. \A p \in Procs : On(p, s)' <=> On(p, s)
      BY <1>0 DEF On
    <3>2. EndsOf(s)
      BY DEF Ends
    <3>3. \A p \in Procs : at'[p] \in {"cleaning", "releasing"} => at[p] = at'[p]
      BY <2>1
    <3>4. CASE s # next
      <4>1. sub'[s] = sub[s] /\ at'[Worker(s)] = at[Worker(s)]
        BY <1>2, <2>1, <3>4, <1>0, ProcsAre DEF IInv, TypeOK
      <4> QED BY <1>0, <1>2, <3>1, <3>2, <3>3, <4>1 DEF EndsOf
    <3>5. CASE s = next
      <4>1. /\ sub'[s].tsfn = "live" /\ sub'[s].finished = sub[s].finished
            /\ sub'[s].promise = sub[s].promise /\ sub'[s].cleaned = sub[s].cleaned
            /\ sub'[s].finalizing = sub[s].finalizing
        BY <1>2, <3>5 DEF IInv, TypeOK
      <4>2. ~sub[s].started /\ ~sub[s].finished /\ ~sub[s].cleaned
        BY <2>1, <3>5 DEF IInv, Records, RecordOf, Owners, OwnersOf
      <4>3. \A p \in Procs : On(p, s) => at[p] \notin {"cleaning", "releasing"}
        BY <4>2 DEF IInv, Owners, OwnersOf, Stages
      <4> QED BY <1>2, <3>1, <3>2, <3>3, <4>1, <4>2, <4>3 DEF EndsOf
    <3> QED BY <3>4, <3>5
  <2> QED BY <2>1, <2>2 DEF Ends, Joining, Joins
<1> QED BY <1>1, <1>2 DEF Registered

\* The JavaScript thread, from its loop.
LEMMA FinalizeBridgeEnds ==
  ASSUME IInv, Ends, NEW s \in Subs, FinalizeBridge(s)
  PROVE  Ends'
<1>1. /\ sub' = [sub EXCEPT ![s].tsfn = "finalized", ![s].owed = FALSE]
      /\ UNCHANGED <<closing, reg, at, cur>> /\ sub[s].tsfn = "released" /\ ~closing
      /\ at[JS] = "loop"
  BY DEF FinalizeBridge, InLoop, pcVars
<1>2. /\ sub'[s].tsfn = "finalized" /\ ~sub'[s].owed /\ sub'[s].finished = sub[s].finished
      /\ sub'[s].promise = sub[s].promise /\ sub'[s].cleaned = sub[s].cleaned
      /\ sub'[s].finalizing = sub[s].finalizing
      /\ \A r \in Subs : r # s => sub'[r] = sub[r]
  BY <1>1 DEF IInv, TypeOK
<1>3. EndsOf(s)'
  <2>1. EndsOf(s) /\ \A p \in Procs : On(p, s)' <=> On(p, s)
    BY <1>1 DEF Ends, On
  <2>2. at[Worker(s)] # "establishing"
    BY <1>1, <2>1 DEF EndsOf
  <2> QED BY <1>1, <1>2, <2>1, <2>2 DEF EndsOf
<1>4. \A r \in Subs : r # s => Kept(r)
  BY <1>1, <1>2 DEF Kept
<1>5. Moves(JS, "loop") /\ Joining'
  BY <1>1 DEF Moves, Joining, Joins
<1> QED BY <1>1, <1>3, <1>4, <1>5, EndsStay, ProcsAre

LEMMA SettleEnds ==
  ASSUME IInv, Ends, NEW s \in Subs, Settle(s)
  PROVE  Ends'
<1>1. /\ sub' = [sub EXCEPT ![s].owed = FALSE] /\ at[JS] = "loop"
      /\ UNCHANGED <<closing, reg, at, cur>>
  BY DEF Settle, InLoop, pcVars
<1>2. \A r \in Subs : Kept(r)
  BY <1>1 DEF Kept, IInv, TypeOK
<1>3. Moves(JS, "loop") /\ Joining'
  BY <1>1 DEF Moves, Joining, Joins
<1> QED BY <1>1, <1>2, <1>3, EndsStay, ProcsAre

LEMMA CompletionEnds ==
  ASSUME IInv, Ends,
         CompleteJoinsCleanup \/ Settled \/ \E s \in Subs : Complete(s)
  PROVE  Ends'
<1>1. CASE CompleteJoinsCleanup
  <2>1. Moves(JS, "joiningCleanup") /\ at[JS] \in Joins /\ UNCHANGED cur
        /\ UNCHANGED <<closing, sub, reg>>
    BY <1>1 DEF CompleteJoinsCleanup, Goto, Moves, Joins, subVars
  <2> QED BY <2>1, QuietEnds, ProcsAre
<1>2. CASE Settled
  <2>1. /\ Moves(JS, "loop") /\ at'[JS] = "loop" /\ at[JS] = "joiningCleanup"
        /\ sub' = [sub EXCEPT ![cur[JS]].promise = "settled"] /\ UNCHANGED <<closing, reg>>
    BY <1>2, ProcsAre DEF Settled, Goto, Leaves, WorkOn, Moves, IInv, TypeOK
  <2>2. cur[JS] \in Subs /\ sub[cur[JS]].promise \in Done
    BY <2>1 DEF Ends, Joining, Joins, Done
  <2>3. \A s \in Subs : Kept(s)
    BY <2>1, <2>2 DEF Kept, IInv, TypeOK
  <2>4. Joining'
    BY <2>1 DEF Joining, Joins
  <2> QED BY <2>1, <2>3, <2>4, EndsStay, ProcsAre
<1>3. ASSUME NEW s \in Subs, Complete(s) PROVE Ends'
  <2>1. /\ at' = [at EXCEPT ![JS] = "joiningDispatcher"] /\ cur' = [cur EXCEPT ![JS] = s]
        /\ sub' = [sub EXCEPT ![s].promise = "joining"] /\ UNCHANGED <<closing, reg>>
        /\ sub[s].promise = "queued"
    BY <1>3 DEF Complete, Goto, WorkOn
  <2>2. Moves(JS, "joiningDispatcher")
    BY <2>1 DEF Moves, IInv, TypeOK
  <2>3. \A r \in Subs : Kept(r)
    BY <2>1 DEF Kept, Done, IInv, TypeOK
  <2>4. Joining'
    <3>1. cur'[JS] = s /\ sub'[s].promise = "joining"
      BY <2>1, ProcsAre DEF IInv, TypeOK
    <3> QED BY <3>1 DEF Joining
  <2> QED BY <2>1, <2>2, <2>3, <2>4, EndsStay, ProcsAre
<1> QED BY <1>1, <1>2, <1>3

\* A request for the coordinator gives up claims, and takes its thread nowhere near
\* the engine.
LEMMA RequestMoves ==
  ASSUME IInv, NEW p \in Procs, NEW s \in Subs, NEW ret, ret # "establishing", Request(p, s, ret)
  PROVE  /\ \A r \in Subs : reg'[r].active => reg[r].active
         /\ \E pc \in {ret, "assigning"} : Moves(p, pc) /\ at'[p] = pc
<1>1. CASE Goto(p, ret) /\ UNCHANGED <<reg, cur>>
  BY <1>1 DEF Goto, Moves, IInv, TypeOK
<1>2. CASE /\ Goto(p, "assigning") /\ WorkOn(p, s)
           /\ reg' = [reg EXCEPT ![s].keep = IF reg[s].hold THEN @ ELSE TRUE,
                              ![s].pending = IF reg[s].hold THEN @ ELSE FALSE,
                              ![s].active = IF reg[s].hold THEN @ ELSE FALSE,
                              ![s].hold = TRUE]
  <2>1. \A r \in Subs : reg'[r].active => reg[r].active
    BY <1>2 DEF IInv, TypeOK
  <2>2. Moves(p, "assigning") /\ at'[p] = "assigning"
    BY <1>2 DEF Goto, WorkOn, Moves, IInv, TypeOK
  <2> QED BY <2>1, <2>2
<1> QED BY <1>1, <1>2 DEF Request

LEMMA AskedEnds ==
  ASSUME IInv, Ends, NEW s \in Subs, InLoop, UNCHANGED closing,
         \A r \in Subs : /\ sub'[r].finished = sub[r].finished /\ sub'[r].cleaned = sub[r].cleaned
                         /\ sub'[r].finalizing = sub[r].finalizing /\ sub'[r].tsfn = sub[r].tsfn
                         /\ sub'[r].owed => sub[r].owed
                         /\ sub'[r].promise \in Done =>
                              sub[r].promise \in Done \/ (sub[r].finished /\ ~closing),
         UNCHANGED <<reg, at, cur>> \/ Request(JS, s, "loop")
  PROVE  Ends'
<1>1. \A r \in Subs : reg'[r].active => reg[r].active
  BY RequestMoves, ProcsAre
<1>2. ASSUME NEW r \in Subs PROVE Kept(r)
  BY <1>1 DEF Kept, Ends, EndsOf
<1>3. PICK pc \in {"loop", "assigning"} : Moves(JS, pc) /\ at'[JS] = pc
  <2>1. CASE UNCHANGED <<reg, at, cur>>
    BY <2>1 DEF InLoop, Moves
  <2> QED BY <2>1, RequestMoves, ProcsAre
<1>4. Joining'
  BY <1>3 DEF Joining, Joins
<1> QED BY <1>2, <1>3, <1>4, EndsStay, ProcsAre

LEMMA DisposeEnds ==
  ASSUME IInv, Ends, NEW s \in Subs, Dispose(s) \/ Collect(s)
  PROVE  Ends'
<1>1. CASE Dispose(s)
  <2>1. /\ \/ sub[s].finished /\ sub' = [sub EXCEPT ![s].promise = "queued"]
           \/ sub' = [sub EXCEPT ![s].promise = "asked"]
        /\ ~closing
    BY <1>1 DEF Dispose
  <2>2. \A r \in Subs : /\ sub'[r].finished = sub[r].finished /\ sub'[r].cleaned = sub[r].cleaned
                        /\ sub'[r].finalizing = sub[r].finalizing /\ sub'[r].tsfn = sub[r].tsfn
                        /\ sub'[r].owed => sub[r].owed
                        /\ sub'[r].promise \in Done =>
                             sub[r].promise \in Done \/ (sub[r].finished /\ ~closing)
    <3>1. CASE sub[s].finished /\ sub' = [sub EXCEPT ![s].promise = "queued"]
      BY <2>1, <3>1 DEF Done, IInv, TypeOK
    <3>2. CASE sub' = [sub EXCEPT ![s].promise = "asked"]
      BY <3>2 DEF Done, IInv, TypeOK
    <3> QED BY <2>1, <3>1, <3>2
  <2> QED BY <1>1, <2>2, AskedEnds DEF Dispose
<1>2. CASE Collect(s)
  <2>1. sub' = [sub EXCEPT ![s].held = FALSE,
                        ![s].owed = @ /\ (sub[s].finished \/ sub[s].promise # "none")]
    BY <1>2 DEF Collect
  <2>2. \A r \in Subs : /\ sub'[r].finished = sub[r].finished /\ sub'[r].cleaned = sub[r].cleaned
                        /\ sub'[r].finalizing = sub[r].finalizing /\ sub'[r].tsfn = sub[r].tsfn
                        /\ sub'[r].owed => sub[r].owed
                        /\ sub'[r].promise = sub[r].promise
    BY <2>1 DEF IInv, TypeOK
  <2> QED BY <1>2, <2>2, AskedEnds DEF Collect
<1> QED BY <1>1, <1>2

\* The threads that clean up: what they hold of the cleanup's progress.
LEMMA AssignEnds ==
  ASSUME IInv, Ends, NEW p \in Procs, NEW s, NEW ret,
         ret \notin Joins \union {"cleaning", "releasing", "establishing"}, Assign(p, s, ret)
  PROVE  Ends'
<1>1. \A r \in Subs : reg'[r].active => reg[r].active
  BY DEF Assign, IInv, TypeOK
<1>2. Moves(p, ret)
  BY DEF Assign, Goto, Leaves, WorkOn, Moves, IInv, TypeOK
<1> QED BY <1>1, <1>2, QuietEnds DEF Assign

LEMMA TornDownEnds ==
  ASSUME IInv, Ends, TornDown
  PROVE  Ends'
<1>1. \A r \in Subs : reg'[r].active => reg[r].active
  BY ZenonT(60) DEF TornDown, IInv, TypeOK
<1>2. Moves(JS, "exited") /\ "exited" \notin Joins \union {"cleaning", "releasing"}
  BY DEF TornDown, Goto, Moves, Joins
<1> QED BY <1>1, <1>2, QuietEnds, ProcsAre DEF TornDown

LEMMA TeardownEnds ==
  ASSUME IInv, Ends, Teardown
  PROVE  Ends'
<1>1. /\ closing' /\ UNCHANGED cur /\ JS \in Procs
      /\ at' = [at EXCEPT ![JS] = "tearingDown"] \/ at' = [at EXCEPT ![JS] = "exited"]
  BY ProcsAre DEF Teardown, Goto
<1>2. /\ at'[JS] \in {"tearingDown", "exited"} /\ \A q \in Procs : q # JS => at'[q] = at[q]
      /\ \A q \in Procs, s \in Subs : On(q, s)' <=> On(q, s)
  BY <1>1 DEF On, IInv, TypeOK
<1>3. ASSUME NEW s \in Subs PROVE EndsOf(s)'
  <2>1. /\ reg'[s].active => reg[s].active /\ ~reg[s].present
        /\ sub'[s].finished = sub[s].finished /\ sub'[s].cleaned = sub[s].cleaned
        /\ sub'[s].finalizing = sub[s].finalizing /\ sub'[s].owed = sub[s].owed
        /\ \/ sub'[s].tsfn = sub[s].tsfn
           \/ reg[s].present /\ sub[s].tsfn = "live" /\ sub'[s].tsfn = "released"
        /\ sub'[s].promise \in Done => sub[s].promise \in Done
    BY ZenonT(60) DEF Teardown, Done, IInv, TypeOK
  <2>2. \A p \in Procs : On(p, s)' /\ at'[p] \in {"cleaning", "releasing"} => On(p, s) /\ at[p] = at'[p]
    BY <1>2
  <2>3. EndsOf(s)
    BY DEF Ends
  <2>4. \A p \in Procs : On(p, s)' =>
          /\ at'[p] = "cleaning" => ~reg'[s].active
          /\ at'[p] = "releasing" =>
               /\ sub'[s].finalizing /\ ~sub'[s].finished
               /\ \A q \in Procs : On(q, s)' /\ at'[q] = "releasing" => q = p
    BY <2>1, <2>2, <2>3 DEF EndsOf
  <2> QED BY <1>1, <2>1, <2>3, <2>4 DEF EndsOf
<1> QED BY <1>2, <1>3 DEF Ends, Joining, Joins

\* Thread p makes a step on s: s keeps its end, the others are as they were.
LEMMA ThreadEnds ==
  ASSUME IInv, Ends, NEW p \in Procs, p # JS, NEW s \in Subs, NEW pc, Moves(p, pc),
         UNCHANGED closing, EndsOf(s)',
         \A r \in Subs : r # s => sub'[r] = sub[r] /\ reg'[r] = reg[r],
         sub[s].promise = "joining" => sub'[s].promise = "joining",
         pc \in {"cleaning", "releasing"} => On(p, s)' /\ \A r \in Subs : On(p, r)' => r = s
  PROVE  Ends'
<1>1. \A r \in Subs : r # s => Kept(r)
  BY DEF Kept
<1>2. at'[JS] = at[JS] /\ cur'[JS] = cur[JS]
  BY MovesAre, ProcsAre
<1>3. Joining'
  BY <1>2, JoiningStays DEF Ends
<1> QED BY <1>1, <1>3, EndsStay

LEMMA EstablishmentFailsEnds ==
  ASSUME IInv, Ends, NEW s \in Subs, EstablishmentFails(s)
  PROVE  Ends'
<1>1. Worker(s) \in Procs /\ Worker(s) # JS
  BY ProcsAre
<1>2. Moves(Worker(s), "unpublishing") /\ at'[Worker(s)] = "unpublishing" /\ UNCHANGED <<closing, cur>>
  BY <1>1 DEF EstablishmentFails, Goto, Moves, IInv, TypeOK
<1>3. /\ ~reg'[s].active /\ sub'[s].finished = sub[s].finished
      /\ sub'[s].promise = sub[s].promise /\ sub'[s].cleaned = sub[s].cleaned
      /\ sub'[s].finalizing = sub[s].finalizing /\ sub'[s].owed = sub[s].owed
      /\ sub'[s].tsfn = "finalized" => sub[s].tsfn = "finalized"
      /\ \A r \in Subs : r # s => sub'[r] = sub[r] /\ reg'[r] = reg[r]
  BY NoRegistrationIs DEF EstablishmentFails, IInv, TypeOK
<1>4. ~sub[s].finished /\ EndsOf(s)
  BY DEF EstablishmentFails, IInv, Records, RecordOf, Ends
<1>5. \A p \in Procs : On(p, s)' /\ at'[p] \in {"cleaning", "releasing"} => On(p, s) /\ at[p] = at'[p]
  BY <1>1, <1>2, MovesAre
<1>6. EndsOf(s)'
  BY <1>2, <1>3, <1>4, <1>5 DEF EndsOf
<1> QED BY <1>1, <1>2, <1>3, <1>6, ThreadEnds

LEMMA PublishEnds ==
  ASSUME IInv, Ends, NEW s \in Subs, Publish(s)
  PROVE  Ends'
<1>1. Worker(s) \in Procs /\ Worker(s) # JS /\ UNCHANGED <<closing, cur>>
  BY ProcsAre DEF Publish
<1>2. /\ at[Worker(s)] = "establishing" /\ EndsOf(s)
      /\ ~sub[s].started /\ ~sub[s].finished /\ ~sub[s].cleaned
  BY DEF Publish, IInv, Records, RecordOf, Owners, OwnersOf, Ends
<1>3. \A p \in Procs : On(p, s) => at[p] \notin {"cleaning", "releasing"}
  BY <1>2 DEF IInv, Owners, OwnersOf, Stages
<1>4. PICK pc \in {"owning", "publishing"} : Moves(Worker(s), pc) /\ at'[Worker(s)] = pc
  BY <1>1 DEF Publish, Goto, Moves, IInv, TypeOK
<1>5. /\ sub'[s].finished = sub[s].finished /\ sub'[s].promise = sub[s].promise
      /\ sub'[s].cleaned = sub[s].cleaned /\ sub'[s].owed = sub[s].owed
      /\ sub'[s].tsfn = sub[s].tsfn
      /\ reg'[s].active => reg[s].active \/ ~closing
      /\ \A r \in Subs : r # s => sub'[r] = sub[r] /\ reg'[r] = reg[r]
  BY DEF Publish, IInv, TypeOK
<1>6. \A p \in Procs : On(p, s)' => at'[p] \notin {"cleaning", "releasing"}
  BY <1>1, <1>3, <1>4, MovesAre DEF On
<1>7. sub[s].tsfn = "live" \/ closing
  BY <1>2 DEF EndsOf
<1>8. EndsOf(s)'
  <2>1. sub'[s].cleaned \/ sub'[s].tsfn \in {"released", "finalized"} => ~reg'[s].active
    BY <1>2, <1>5, <1>7 DEF EndsOf
  <2> QED BY <1>2, <1>4, <1>5, <1>6, <2>1 DEF EndsOf
<1> QED BY <1>1, <1>4, <1>5, <1>8, ThreadEnds

LEMMA PublishedEnds ==
  ASSUME IInv, Ends, NEW s \in Subs, Published(s)
  PROVE  Ends'
<1>1. Worker(s) \in Procs /\ Worker(s) # JS
  BY ProcsAre
<1>2. PICK pc \in {"resolved", "owning", "awaiting"} : Moves(Worker(s), pc)
  BY DEF Published, Goto, Moves
<1>3. /\ \A r \in Subs : reg'[r].active => reg[r].active
      /\ \A r \in Subs : /\ sub'[r].finished = sub[r].finished /\ sub'[r].cleaned = sub[r].cleaned
                         /\ sub'[r].finalizing = sub[r].finalizing /\ sub'[r].tsfn = sub[r].tsfn
                         /\ sub'[r].owed = sub[r].owed /\ sub'[r].promise = sub[r].promise
  <2>1. CASE UNCHANGED <<reg, sub>>
    BY <2>1
  <2>2. CASE /\ reg' = [reg EXCEPT ![s].active = FALSE, ![s].keep = TRUE]
             /\ sub' = [sub EXCEPT ![s].started = TRUE]
    BY <2>2 DEF IInv, TypeOK
  <2> QED BY <2>1, <2>2 DEF Published
<1>4. \A r \in Subs : Kept(r)
  BY <1>3 DEF Kept
<1>5. at'[JS] = at[JS] /\ cur'[JS] = cur[JS]
  BY <1>1, <1>2, MovesAre, ProcsAre DEF Published
<1>6. Joining'
  BY <1>3, <1>5, JoiningStays DEF Ends
<1> QED BY <1>1, <1>2, <1>4, <1>6, EndsStay DEF Published

\* The other steps of a libuv thread.
LEMMA GoneEnds ==
  ASSUME IInv, Ends, NEW s \in Subs,
         Unpublish(s) \/ WorkerAwaits(s) \/ WorkerJoinsCleanup(s) \/ Rejected(s)
  PROVE  Ends'
<1>1. Worker(s) \in Procs /\ Worker(s) # JS
  BY ProcsAre
<1>2. /\ \E pc \in {"failing", "joiningDispatcher", "rejected"} : Moves(Worker(s), pc)
      /\ UNCHANGED <<closing, sub, reg>>
  BY DEF Unpublish, WorkerAwaits, WorkerJoinsCleanup, Rejected, Goto, Moves, subVars
<1> QED BY <1>1, <1>2, QuietEnds

LEMMA CleanEngineEnds ==
  ASSUME IInv, Ends, NEW p \in Procs, NEW s \in Subs, On(p, s), CleanEngine(p, s)
  PROVE  Ends'
<1>1. /\ at[p] = "owning" /\ UNCHANGED <<closing, sub, cur>> /\ p # JS
      /\ \A r \in Subs : On(p, r) => r = s
  BY OwnerKnows, ProcsAre DEF CleanEngine, Stages, On
<1>2. Moves(p, "cleaning") /\ at'[p] = "cleaning"
  BY DEF CleanEngine, Goto, Moves, IInv, TypeOK
<1>3. ~reg'[s].active /\ \A r \in Subs : r # s => reg'[r] = reg[r]
  BY DEF CleanEngine, IInv, TypeOK
<1>4. \A q \in Procs, r \in Subs : On(q, r)' <=> On(q, r)
  BY <1>1 DEF On
<1>5. EndsOf(s)'
  <2>1. EndsOf(s) /\ Worker(s) \in Procs
    BY ProcsAre DEF Ends
  <2>2. \A q \in Procs : at'[q] \in {"releasing", "establishing"} => at[q] = at'[q]
    BY <1>2, MovesAre
  <2> QED BY <1>1, <1>3, <1>4, <2>1, <2>2 DEF EndsOf
<1> QED BY <1>1, <1>2, <1>3, <1>4, <1>5, ThreadEnds

LEMMA EngineCleanedEnds ==
  ASSUME IInv, Ends, NEW p \in Procs, NEW s \in Subs, On(p, s), EngineCleaned(p, s)
  PROVE  Ends'
<1>1. /\ at[p] = "cleaning" /\ UNCHANGED <<closing, reg, cur>> /\ p # JS
  BY OwnerKnows DEF EngineCleaned, Stages
<1>2. Moves(p, "draining") /\ at'[p] = "draining"
  BY DEF EngineCleaned, Goto, Moves, IInv, TypeOK
<1>3. /\ sub'[s].finished = sub[s].finished /\ sub'[s].promise = sub[s].promise
      /\ sub'[s].cleaned /\ sub'[s].owed = sub[s].owed /\ sub'[s].tsfn = sub[s].tsfn
      /\ sub'[s].finalizing = sub[s].finalizing
      /\ \A r \in Subs : r # s => sub'[r] = sub[r]
  BY DEF EngineCleaned, IInv, TypeOK
<1>4. \A q \in Procs, r \in Subs : On(q, r)' <=> On(q, r)
  BY <1>1 DEF On
<1>5. EndsOf(s)'
  <2>1. EndsOf(s) /\ Worker(s) \in Procs
    BY ProcsAre DEF Ends
  <2>2. \A q \in Procs : at'[q] \in {"cleaning", "releasing", "establishing"} => at[q] = at'[q]
    BY <1>2, MovesAre
  <2>3. ~reg[s].active
    BY <1>1, <2>1 DEF EndsOf
  <2> QED BY <1>1, <1>3, <1>4, <2>1, <2>2, <2>3 DEF EndsOf
<1> QED BY <1>1, <1>2, <1>3, <1>5, ThreadEnds

\* The bridge is released by the first thread that gets there.
LEMMA ReleaseEnds ==
  ASSUME IInv, Ends, NEW p \in Procs, p # JS, NEW s \in Subs, On(p, s)', Release(p, s),
         sub[s].cleaned, ~sub[s].finalizing, UNCHANGED <<closing, reg>>,
         \A q \in Procs : q # p => cur'[q] = cur[q],
         p \in Instances \/ p = Worker(s)
  PROVE  Ends'
<1>1. Moves(p, "releasing") /\ at'[p] = "releasing"
  BY DEF Release, Goto, Moves, IInv, TypeOK
<1>2. /\ sub'[s].finished = sub[s].finished /\ sub'[s].promise = sub[s].promise
      /\ sub'[s].cleaned /\ sub'[s].owed = sub[s].owed /\ sub'[s].finalizing
      /\ sub'[s].tsfn = "finalized" <=> sub[s].tsfn = "finalized"
      /\ \A r \in Subs : r # s => sub'[r] = sub[r]
  BY DEF Release, IInv, TypeOK
<1>3. EndsOf(s) /\ Worker(s) \in Procs
  BY ProcsAre DEF Ends
<1>4. ~sub[s].finished /\ ~reg[s].active
  BY <1>3 DEF EndsOf
<1>5. \A q \in Procs : q # p => (On(q, s)' <=> On(q, s)) /\ at'[q] = at[q]
  BY <1>1, MovesAre
<1>6. \A q \in Procs : On(q, s) => at[q] # "releasing"
  BY <1>3 DEF EndsOf
<1>7. at'[Worker(s)] = "establishing" => at[Worker(s)] = "establishing"
  BY <1>1, <1>3, <1>5
<1>8. EndsOf(s)'
  <2>1. at'[Worker(s)] = "establishing" => closing' \/ sub'[s].tsfn = "live"
    <3>1. at[Worker(s)] # "establishing"
      BY <1>3 DEF IInv, Owners, OwnersOf, Records, RecordOf
    <3> QED BY <1>7, <3>1
  <2>2. \A q \in Procs : On(q, s)' /\ at'[q] = "releasing" => q = p
    BY <1>5, <1>6
  <2> QED BY <1>1, <1>2, <1>3, <1>4, <2>1, <2>2 DEF EndsOf
<1>9. \A r \in Subs : On(p, r)' => r = s
  BY ProcsAre DEF On
<1> QED BY <1>1, <1>2, <1>8, <1>9, ThreadEnds

LEMMA WorkerDrainedEnds ==
  ASSUME IInv, Ends, NEW s \in Subs, WorkerDrained(s)
  PROVE  Ends'
<1>1. /\ Worker(s) \in Procs /\ Worker(s) # JS /\ UNCHANGED <<closing, reg, cur>>
      /\ at[Worker(s)] = "draining" /\ On(Worker(s), s) /\ On(Worker(s), s)'
  BY ProcsAre DEF WorkerDrained, On
<1>2. CASE sub[s].finalizing
  <2>1. Moves(Worker(s), "awaiting") /\ UNCHANGED sub
    BY <1>2 DEF WorkerDrained, Goto, Moves
  <2> QED BY <1>1, <2>1, QuietEnds
<1>3. CASE ~sub[s].finalizing
  <2>1. sub[s].cleaned
    BY <1>1 DEF IInv, Owners, OwnersOf
  <2> QED BY <1>1, <1>3, <2>1, ReleaseEnds DEF WorkerDrained
<1> QED BY <1>2, <1>3

LEMMA AdvanceOwnedEnds ==
  ASSUME IInv, Ends, NEW i \in Instances, AdvanceOwned(i)
  PROVE  Ends'
<1>0. PICK s \in Subs : s = cur[i]
  BY DEF AdvanceOwned, IInv, Positions, Stages
<1>1. /\ i \in Procs /\ i # JS /\ UNCHANGED <<closing, reg>>
      /\ at[i] = "draining" /\ On(i, s)
  BY <1>0, ProcsAre DEF AdvanceOwned, On
<1>2. CASE Release(i, s) /\ UNCHANGED cur /\ ~sub[s].finalizing
  <2>1. sub[s].cleaned
    BY <1>1 DEF IInv, Owners, OwnersOf
  <2>2. On(i, s)'
    BY <1>0, <1>1, <1>2 DEF On
  <2> QED BY <1>1, <1>2, <2>1, <2>2, ReleaseEnds
<1>3. CASE Goto(i, "selecting") /\ Leaves(i) /\ UNCHANGED sub
  <2>1. Moves(i, "selecting")
    BY <1>3 DEF Goto, Leaves, WorkOn, Moves, IInv, TypeOK
  <2> QED BY <1>1, <1>3, <2>1, QuietEnds
<1> QED BY <1>0, <1>2, <1>3 DEF AdvanceOwned

LEMMA FinishEnds ==
  ASSUME IInv, Ends, NEW p \in Procs, NEW s \in Subs, On(p, s),
         NEW ret \in {"awaiting", "selecting"}, Finish(p, s, ret)
  PROVE  Ends'
<1>1. /\ at[p] = "releasing" /\ UNCHANGED closing /\ p # JS
      /\ closing \/ sub[s].tsfn = "finalized"
  BY OwnerKnows DEF Finish, Stages
<1>2. Moves(p, ret) /\ at'[p] = ret
  BY DEF Finish, Goto, Leaves, WorkOn, Moves, IInv, TypeOK
<1>3. /\ ~reg'[s].active /\ \A r \in Subs : r # s => reg'[r] = reg[r] /\ sub'[r] = sub[r]
      /\ sub'[s].finished /\ sub'[s].cleaned = sub[s].cleaned
      /\ sub'[s].finalizing = sub[s].finalizing /\ sub'[s].tsfn = sub[s].tsfn
      /\ sub'[s].owed = sub[s].owed
      /\ \/ sub'[s].promise = sub[s].promise
         \/ sub[s].promise = "asked" /\ ~closing /\ sub'[s].promise = "queued"
  BY NoRegistrationIs DEF Finish, IInv, TypeOK
<1>4. EndsOf(s) /\ sub[s].cleaned
  BY <1>1 DEF Ends, IInv, Owners, OwnersOf
<1>5. sub[s].finalizing /\ \A q \in Procs : On(q, s) /\ at[q] = "releasing" => q = p
  BY <1>1, <1>4 DEF EndsOf
<1>6. \A q \in Procs : On(q, s)' => at'[q] # "releasing"
  BY <1>1, <1>2, <1>5, MovesAre
<1>7. Worker(s) \in Procs /\ (at'[Worker(s)] = "establishing" => at[Worker(s)] = "establishing")
  BY <1>2, MovesAre, ProcsAre
<1>8. EndsOf(s)'
  BY <1>1, <1>3, <1>4, <1>5, <1>6, <1>7 DEF EndsOf, Done
<1> QED BY <1>1, <1>2, <1>3, <1>8, ThreadEnds

LEMMA DispatchEnds ==
  ASSUME IInv, Ends, NEW i \in Instances, NEW s \in Subs, Dispatch(i, s)
  PROVE  Ends'
<1>1. i \in Procs /\ i # JS /\ UNCHANGED closing
  BY ProcsAre DEF Dispatch
<1>2. CASE UNCHANGED <<reg, sub, at, cur>>
  <2>1. Moves(i, "selecting")
    BY <1>2 DEF Moves
  <2> QED BY <1>1, <1>2, <2>1, QuietEnds
<1>3. CASE /\ reg[s].active /\ sub' = [sub EXCEPT ![s].owed = TRUE]
           /\ UNCHANGED <<reg, at, cur>>
  <2>1. /\ sub'[s].finished = sub[s].finished /\ sub'[s].promise = sub[s].promise
        /\ sub'[s].cleaned = sub[s].cleaned /\ sub'[s].tsfn = sub[s].tsfn
        /\ sub'[s].finalizing = sub[s].finalizing
        /\ \A r \in Subs : r # s => sub'[r] = sub[r]
    BY <1>3 DEF IInv, TypeOK
  <2>2. EndsOf(s) /\ sub[s].tsfn # "finalized" /\ \A q \in Procs : On(q, s)' <=> On(q, s)
    BY <1>3 DEF Ends, EndsOf, On
  <2>3. EndsOf(s)'
    BY <1>1, <1>3, <2>1, <2>2 DEF EndsOf
  <2>4. Moves(i, "selecting")
    BY <1>3 DEF Moves
  <2> QED BY <1>1, <1>3, <2>1, <2>3, <2>4, ThreadEnds
<1>4. CASE Request(i, s, "selecting") /\ UNCHANGED sub
  <2>1. PICK pc \in {"selecting", "assigning"} : Moves(i, pc)
    BY <1>1, <1>4, RequestMoves
  <2>2. \A r \in Subs : reg'[r].active => reg[r].active
    BY <1>1, <1>4, RequestMoves
  <2> QED BY <1>1, <1>4, <2>1, <2>2, QuietEnds
<1> QED BY <1>2, <1>3, <1>4 DEF Dispatch

LEMMA AdvanceEnds ==
  ASSUME IInv, Ends, NEW i \in Instances, NEW s \in Subs, Advance(i, s)
  PROVE  Ends'
<1>1. i \in Procs /\ i # JS /\ UNCHANGED <<closing, reg>>
  BY ProcsAre DEF Advance
<1>2. CASE UNCHANGED <<sub, at, cur>>
  <2>1. Moves(i, "selecting")
    BY <1>2 DEF Moves
  <2> QED BY <1>1, <1>2, <2>1, QuietEnds
<1>3. CASE sub' = [sub EXCEPT ![s].started = TRUE] /\ Goto(i, "owning") /\ WorkOn(i, s)
  <2>1. Moves(i, "owning")
    BY <1>3 DEF Goto, WorkOn, Moves, IInv, TypeOK
  <2>2. \A r \in Subs : /\ sub'[r].finished = sub[r].finished /\ sub'[r].cleaned = sub[r].cleaned
                        /\ sub'[r].finalizing = sub[r].finalizing /\ sub'[r].tsfn = sub[r].tsfn
                        /\ sub'[r].owed = sub[r].owed /\ sub'[r].promise = sub[r].promise
    BY <1>3 DEF IInv, TypeOK
  <2>3. \A r \in Subs : Kept(r)
    BY <1>1, <2>2 DEF Kept
  <2>4. at'[JS] = at[JS] /\ cur'[JS] = cur[JS]
    BY <1>1, <2>1, MovesAre, ProcsAre
  <2>5. Joining'
    BY <2>2, <2>4, JoiningStays DEF Ends
  <2> QED BY <1>1, <2>1, <2>3, <2>5, EndsStay
<1>4. CASE sub[s].cleaned /\ ~sub[s].finalizing /\ Release(i, s) /\ WorkOn(i, s)
  <2>1. On(i, s)' /\ \A q \in Procs : q # i => cur'[q] = cur[q]
    BY <1>1, <1>4 DEF WorkOn, On, IInv, TypeOK
  <2> QED BY <1>1, <1>4, <2>1, ReleaseEnds
<1> QED BY <1>2, <1>3, <1>4 DEF Advance

LEMMA EntersEnds ==
  ASSUME IInv, Ends, NEW i \in Instances, Enter(i) \/ Select(i) \/ Leave(i)
  PROVE  Ends'
<1>1. i \in Procs /\ i # JS /\ UNCHANGED <<closing, sub, reg>>
  BY ProcsAre DEF Enter, Select, Leave, subVars
<1>2. \E pc \in {"selecting", "leaving", "gone"} : Moves(i, pc)
  BY DEF Enter, Select, Leave, Goto, Moves
<1> QED BY <1>1, <1>2, QuietEnds

LEMMA NextEnds ==
  ASSUME IInv, Ends, [Next]_vars
  PROVE  Ends'
<1>1. CASE JavaScript
  <2>1. CASE JsAssigns
    BY <2>1, AssignEnds, ProcsAre DEF JsAssigns, Joins
  <2> QED BY <1>1, <2>1, ManagingEnds, RegisterEnds, RegisteredEnds, FinalizeBridgeEnds,
          SettleEnds, CompletionEnds, TornDownEnds, ProcsAre DEF JavaScript
<1>2. ASSUME NEW s \in Subs, Libuv(s) PROVE Ends'
  <2>1. Worker(s) \in Procs /\ On(Worker(s), s)
    BY ProcsAre DEF On
  <2>2. CASE CleanEngine(Worker(s), s) \/ EngineCleaned(Worker(s), s) \/ Finish(Worker(s), s, "awaiting")
    BY <2>1, <2>2, CleanEngineEnds, EngineCleanedEnds, FinishEnds
  <2> QED BY <1>2, <2>1, <2>2, ManagingEnds, EstablishmentFailsEnds, GoneEnds, PublishEnds,
          PublishedEnds, WorkerDrainedEnds DEF Libuv
<1>3. ASSUME NEW i \in Instances, Managed(i) PROVE Ends'
  <2>1. i \in Procs
    BY ProcsAre
  <2>2. CASE DispatcherAssigns(i)
    BY <2>1, <2>2, AssignEnds DEF DispatcherAssigns, Joins
  <2>3. CASE cur[i] # None /\ (CleanEngine(i, cur[i]) \/ EngineCleaned(i, cur[i])
                               \/ Finish(i, cur[i], "selecting"))
    <3>1. cur[i] \in Subs /\ On(i, cur[i])
      BY <2>1, <2>3 DEF IInv, TypeOK, On
    <3> QED BY <2>1, <2>3, <3>1, CleanEngineEnds, EngineCleanedEnds, FinishEnds
  <2> QED BY <1>3, <2>1, <2>2, <2>3, ManagingEnds, EntersEnds, DispatchEnds, AdvanceEnds,
          AdvanceOwnedEnds DEF Managed
<1>4. CASE UNCHANGED vars
  <2>1. UNCHANGED <<closing, sub, reg, at, cur>> /\ Moves(JS, "loop")
    BY <1>4 DEF vars, Moves
  <2> QED BY <2>1, QuietEnds, ProcsAre
<1> QED BY <1>1, <1>2, <1>3, <1>4, TeardownEnds, DisposeEnds DEF Next

LEMMA InitEnds == Init => Ends
<1> SUFFICES ASSUME Init PROVE Ends
  OBVIOUS
<1>1. at[JS] = "loop" /\ \A p \in Procs : at[p] \notin {"cleaning", "releasing", "establishing"}
  BY ProcsAre DEF Init
<1>2. \A s \in Subs :
        /\ ~reg[s].active /\ ~sub[s].cleaned /\ ~sub[s].finished
        /\ sub[s].tsfn = "none" /\ sub[s].promise = "none"
  BY NoRegistrationIs DEF Init
<1> QED BY <1>1, <1>2, ProcsAre DEF Ends, EndsOf, Joining, Joins, Done

\* Whichever thread finishes a cleanup and however many took a part in it, with any
\* number of subscriptions: when dispose() is completed no callback is owed, the
\* bridge is finalized, the registration is gone and no thread is still at the
\* cleanup (lib.rs, finalize_cleanup; dispose_completion.rs, complete).
THEOREM CompletionFollowsCleanup == Spec => []CompletedIsCleanedUp
<1>1. Init => IInv /\ Ends
  BY InitHolds, InitEnds
<1>2. IInv /\ Ends /\ [Next]_vars => (IInv /\ Ends)'
  BY NextKeeps, NextEnds
<1>3. IInv /\ Ends => CompletedIsCleanedUp
  <2>1. SUFFICES ASSUME IInv, Ends, NEW s \in Subs, sub[s].promise \in Done
                 PROVE  /\ ~sub[s].owed /\ sub[s].tsfn = "finalized" /\ ~reg[s].present
                        /\ \A p \in {Worker(s)} \union {i \in Instances : cur[i] = s} :
                             at[p] \notin {"owning", "cleaning", "releasing"}
    BY DEF CompletedIsCleanedUp, Done
  <2>2. /\ sub[s].finished /\ sub[s].tsfn = "finalized" /\ ~sub[s].owed
        /\ sub[s].cleaned /\ ~reg[s].present
    BY <2>1 DEF Ends, EndsOf, IInv, Records, RecordOf
  <2>3. ASSUME NEW p \in {Worker(s)} \union {i \in Instances : cur[i] = s},
               at[p] \in {"owning", "cleaning", "releasing"}
        PROVE  FALSE
    <3>1. p \in Procs /\ On(p, s)
      BY <2>3, ProcsAre DEF On
    <3>2. EndsOf(s) /\ OwnersOf(s)
      BY <2>1 DEF Ends, IInv, Owners
    <3>3. at[p] \notin {"owning", "cleaning"}
      BY <2>2, <3>1, <3>2 DEF OwnersOf
    <3>4. at[p] # "releasing"
      BY <2>2, <3>1, <3>2 DEF EndsOf
    <3> QED BY <2>3, <3>3, <3>4
  <2> QED BY <2>2, <2>3
<1> QED BY <1>1, <1>2, <1>3, PTL DEF Spec
=============================================================================
