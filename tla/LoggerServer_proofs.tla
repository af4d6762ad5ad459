------------------------- MODULE LoggerServer_proofs -------------------------
(***************************************************************************)
(* The calls of runQueue exclude each other and entries keep their order,  *)
(* for any number of entries, any configuration and whichever hooks throw. *)
(*                                                                         *)
(* What has been written, the entry that is worked on and the queue, one   *)
(* after the other, are in the order of arrival, but for the entries that  *)
(* have failed.                                                            *)
(***************************************************************************)
EXTENDS LoggerServer, FiniteSetTheorems, TLAPS

(* What runQueue leaves, given a queue and an entry of the right types. *)
LEMMA RunQueueType ==
  ASSUME TypeOK, NEW q \in Seq(Entry), NEW n \in 0..config.numberOfRetries,
         NEW e \in Entry, NEW s \in {"queued"} \cup Settled,
         RunQueue(q, n, e, s)
  PROVE  /\ queue' \in Seq(Entry)
         /\ status' \in {"EMPTY", "RUNNING"}
         /\ at' \in [Entry -> {"new", "queued"} \cup Awaiting \cup Settled]
         /\ retry' \in [Entry -> 0..config.numberOfRetries]
<1>1. CASE q = <<>>
  BY <1>1 DEF RunQueue, TypeOK
<1>2. CASE q # <<>>
  <2>1. Head(q) \in Entry /\ Tail(q) \in Seq(Entry)
    BY <1>2
  <2>2. /\ status' = "RUNNING" /\ queue' = Tail(q)
        /\ at' = [[at EXCEPT ![e] = s] EXCEPT ![Head(q)] = "beforeLog"]
        /\ retry' = [retry EXCEPT ![Head(q)] = n]
    BY <1>2 DEF RunQueue
  <2>3. at' \in [Entry -> {"new", "queued"} \cup Awaiting \cup Settled]
    BY <2>1, <2>2 DEF TypeOK, Awaiting
  <2>4. retry' \in [Entry -> 0..config.numberOfRetries]
    BY <2>1, <2>2 DEF TypeOK
  <2> QED
    BY <2>1, <2>2, <2>3, <2>4
<1> QED
  BY <1>1, <1>2

LEMMA RetriesType == TypeOK => config.numberOfRetries \in 0..config.numberOfRetries
BY LoggerAssumption DEF TypeOK

LEMMA CaughtType ==
  ASSUME TypeOK, NEW e \in Entry, Caught(e)
  PROVE  /\ at' \in [Entry -> {"new", "queued"} \cup Awaiting \cup Settled]
         /\ failures' \in [Entry -> Nat]
BY DEF Caught, TypeOK, Awaiting

LEMMA TypeInit == Init => TypeOK
<1> SUFFICES ASSUME Init
             PROVE  TypeOK
  OBVIOUS
<1>1. config.numberOfRetries \in Nat
  BY LoggerAssumption DEF Init
<1>2. 0 \in 0..config.numberOfRetries
  BY <1>1
<1> QED
  BY <1>2 DEF Init, TypeOK

LEMMA TypeStep == TypeOK /\ [Next]_vars => TypeOK'
<1> SUFFICES ASSUME TypeOK, [Next]_vars
             PROVE  TypeOK'
  OBVIOUS
<1>1. ASSUME NEW e \in Entry, Log(e)
      PROVE  TypeOK'
  <2>1. Append(queue, e) \in Seq(Entry) /\ arrived' \in Seq(Entry)
    BY <1>1 DEF Log, TypeOK
  <2>2. UNCHANGED <<config, written, failures>>
    BY <1>1 DEF Log
  <2>3. CASE RunQueue(Append(queue, e), config.numberOfRetries, e, "queued")
    BY <2>1, <2>2, <2>3, RunQueueType, RetriesType DEF TypeOK
  <2>4. CASE /\ queue' = Append(queue, e) /\ at' = [at EXCEPT ![e] = "queued"]
             /\ UNCHANGED <<status, retry>>
    BY <2>1, <2>2, <2>4 DEF TypeOK
  <2> QED
    BY <1>1, <2>3, <2>4 DEF Log
<1>2. ASSUME NEW e \in Entry, BeforeLog(e)
      PROVE  TypeOK'
  <2>1. UNCHANGED <<config, arrived, queue, status, retry>>
    BY <1>2 DEF BeforeLog, Caught
  <2>2. written' \in Seq(Entry)
    <3>1. written \in Seq(Entry) /\ Append(written, e) \in Seq(Entry)
      BY DEF TypeOK
    <3>2. written' = Append(written, e) \/ written' = written
      BY <1>2 DEF BeforeLog
    <3> QED
      BY <3>1, <3>2
  <2>3. CASE Caught(e)
    BY <2>1, <2>2, <2>3, CaughtType DEF TypeOK
  <2>4. CASE at' = [at EXCEPT ![e] = "onLog"] /\ UNCHANGED failures
    BY <2>1, <2>2, <2>4 DEF TypeOK, Awaiting
  <2> QED
    BY <1>2, <2>3, <2>4 DEF BeforeLog
<1>3. ASSUME NEW e \in Entry, OnLog(e)
      PROVE  TypeOK'
  <2>1. UNCHANGED <<config, arrived, written>>
    BY <1>3 DEF OnLog
  <2>2. CASE RunQueue(queue, config.numberOfRetries, e, "logged") /\ UNCHANGED failures
    BY <2>1, <2>2, RunQueueType, RetriesType DEF TypeOK, Settled
  <2>3. CASE Caught(e)
    BY <2>1, <2>3, CaughtType DEF TypeOK, Caught
  <2> QED
    BY <1>3, <2>2, <2>3 DEF OnLog
<1>4. ASSUME NEW e \in Entry, OnError(e)
      PROVE  TypeOK'
  <2>1. UNCHANGED <<config, arrived, written, failures>>
    BY <1>4 DEF OnError, history
  <2>2. CASE retry[e] > 0 /\ RunQueue(Append(queue, e), retry[e] - 1, e, "queued")
    <3>1. config.numberOfRetries \in Nat
      BY LoggerAssumption DEF TypeOK
    <3>2. retry[e] \in 0..config.numberOfRetries
      BY DEF TypeOK
    <3>3. retry[e] - 1 \in 0..config.numberOfRetries
      BY <2>2, <3>1, <3>2
    <3>4. Append(queue, e) \in Seq(Entry)
      BY DEF TypeOK
    <3> QED
      BY <2>1, <2>2, <3>3, <3>4, RunQueueType DEF TypeOK
  <2>3. CASE RunQueue(queue, config.numberOfRetries, e, "skipped")
    BY <2>1, <2>3, RunQueueType, RetriesType DEF TypeOK, Settled
  <2>4. CASE at' = [at EXCEPT ![e] = "thrown"] /\ UNCHANGED <<queue, status, retry>>
    BY <2>1, <2>4 DEF TypeOK, Settled
  <2> QED
    BY <1>4, <2>2, <2>3, <2>4 DEF OnError
<1>5. CASE UNCHANGED vars
  BY <1>5 DEF vars, history, TypeOK
<1> QED
  BY <1>1, <1>2, <1>3, <1>4, <1>5 DEF Next

(* The variables have their types whatever is logged and whichever hook throws. *)
THEOREM TypeCorrect == Spec => []TypeOK
BY TypeInit, TypeStep, PTL DEF Spec

-----------------------------------------------------------------------------
(* An entry keeps the queue busy while it is worked on, and for ever when its *)
(* error was thrown again.                                                   *)
Busy(e) == at[e] \in Awaiting \cup {"thrown"}

OneBusy     == \A e, f \in Entry : Busy(e) /\ Busy(f) => e = f
RunningBusy == status = "RUNNING" <=> \E e \in Entry : Busy(e)

WorkInv == TypeOK /\ OneBusy /\ RunningBusy

(* runQueue, called where nobody but e is busy, which it then no longer is. *)
LEMMA RunQueueKeeps ==
  ASSUME WorkInv, NEW q \in Seq(Entry), NEW n, NEW e \in Entry,
         NEW s \in {"queued", "logged", "skipped"},
         \A f \in Entry : Busy(f) => f = e,
         RunQueue(q, n, e, s)
  PROVE  OneBusy' /\ RunningBusy'
<1>1. at \in [Entry -> {"new", "queued"} \cup Awaiting \cup Settled]
  BY DEF WorkInv, TypeOK
<1>2. CASE q = <<>>
  <2>1. status' = "EMPTY" /\ at' = [at EXCEPT ![e] = s]
    BY <1>2 DEF RunQueue
  <2>2. \A f \in Entry : ~Busy(f)'
    BY <1>1, <2>1 DEF Busy, Awaiting
  <2> QED
    BY <2>1, <2>2 DEF OneBusy, RunningBusy
<1>3. CASE q # <<>>
  <2>1. Head(q) \in Entry
    BY <1>3
  <2>2. /\ status' = "RUNNING"
        /\ at' = [[at EXCEPT ![e] = s] EXCEPT ![Head(q)] = "beforeLog"]
    BY <1>3 DEF RunQueue
  <2>3. \A f \in Entry : Busy(f)' <=> f = Head(q)
    BY <1>1, <2>1, <2>2 DEF Busy, Awaiting
  <2> QED
    BY <2>1, <2>2, <2>3 DEF OneBusy, RunningBusy
<1> QED
  BY <1>2, <1>3

(* A step of the busy entry e that it is still busy after. *)
LEMMA StaysBusy ==
  ASSUME WorkInv, NEW e \in Entry, Busy(e),
         NEW s \in Awaiting \cup {"thrown"},
         at' = [at EXCEPT ![e] = s], UNCHANGED status
  PROVE  OneBusy' /\ RunningBusy'
<1>1. at \in [Entry -> {"new", "queued"} \cup Awaiting \cup Settled]
  BY DEF WorkInv, TypeOK
<1>2. \A f \in Entry : Busy(f)' <=> Busy(f)
  BY <1>1 DEF Busy
<1> QED
  BY <1>2 DEF WorkInv, OneBusy, RunningBusy

LEMMA WorkInit == Init => WorkInv
<1> SUFFICES ASSUME Init
             PROVE  WorkInv
  OBVIOUS
<1>1. \A e \in Entry : ~Busy(e)
  BY DEF Init, Busy, Awaiting
<1> QED
  BY <1>1, TypeInit DEF Init, WorkInv, OneBusy, RunningBusy

LEMMA WorkStep == WorkInv /\ [Next]_vars => WorkInv'
<1> SUFFICES ASSUME WorkInv, [Next]_vars
             PROVE  OneBusy' /\ RunningBusy'
  BY TypeStep DEF WorkInv
<1>0. /\ at \in [Entry -> {"new", "queued"} \cup Awaiting \cup Settled]
      /\ queue \in Seq(Entry)
  BY DEF WorkInv, TypeOK
<1>1. ASSUME NEW e \in Entry, Log(e)
      PROVE  OneBusy' /\ RunningBusy'
  <2>1. CASE /\ status # "RUNNING"
             /\ RunQueue(Append(queue, e), config.numberOfRetries, e, "queued")
    <3>1. \A f \in Entry : ~Busy(f)
      BY <2>1 DEF WorkInv, RunningBusy
    <3>2. Append(queue, e) \in Seq(Entry)
      BY <1>0
    <3> QED
      BY <2>1, <3>1, <3>2, RunQueueKeeps
  <2>2. CASE at' = [at EXCEPT ![e] = "queued"] /\ UNCHANGED status
    <3>1. \A f \in Entry : Busy(f)' <=> Busy(f)
      BY <1>0, <1>1, <2>2 DEF Log, Busy, Awaiting
    <3> QED
      BY <2>2, <3>1 DEF WorkInv, OneBusy, RunningBusy
  <2> QED
    BY <1>1, <2>1, <2>2 DEF Log
<1>2. ASSUME NEW e \in Entry, Busy(e), UNCHANGED status, NEW s \in Awaiting \cup {"thrown"},
             at' = [at EXCEPT ![e] = s]
      PROVE  OneBusy' /\ RunningBusy'
  BY <1>2, StaysBusy
<1>3. ASSUME NEW e \in Entry, Busy(e), NEW q \in Seq(Entry), NEW n,
             NEW s \in {"queued", "logged", "skipped"}, RunQueue(q, n, e, s)
      PROVE  OneBusy' /\ RunningBusy'
  <2>1. \A f \in Entry : Busy(f) => f = e
    BY <1>3 DEF WorkInv, OneBusy
  <2> QED
    BY <1>3, <2>1, RunQueueKeeps
<1>4. ASSUME NEW e \in Entry, BeforeLog(e)
      PROVE  OneBusy' /\ RunningBusy'
  <2>1. Busy(e)
    BY <1>4 DEF BeforeLog, Busy, Awaiting
  <2>2. UNCHANGED status /\ \E s \in Awaiting : at' = [at EXCEPT ![e] = s]
    BY <1>4 DEF BeforeLog, Caught, Awaiting
  <2> QED
    BY <1>2, <2>1, <2>2
<1>5. ASSUME NEW e \in Entry, OnLog(e)
      PROVE  OneBusy' /\ RunningBusy'
  <2>1. Busy(e)
    BY <1>5 DEF OnLog, Busy, Awaiting
  <2>2. CASE RunQueue(queue, config.numberOfRetries, e, "logged")
    BY <1>0, <1>3, <2>1, <2>2
  <2>3. CASE Caught(e)
    <3>1. UNCHANGED status /\ at' = [at EXCEPT ![e] = "onError"] /\ "onError" \in Awaiting
      BY <2>3 DEF Caught, Awaiting
    <3> QED
      BY <1>2, <2>1, <3>1
  <2> QED
    BY <1>5, <2>2, <2>3 DEF OnLog
<1>6. ASSUME NEW e \in Entry, OnError(e)
      PROVE  OneBusy' /\ RunningBusy'
  <2>1. Busy(e)
    BY <1>6 DEF OnError, Busy, Awaiting
  <2>2. CASE RunQueue(Append(queue, e), retry[e] - 1, e, "queued")
    <3>1. Append(queue, e) \in Seq(Entry)
      BY <1>0
    <3> QED
      BY <1>3, <2>1, <2>2, <3>1
  <2>3. CASE RunQueue(queue, config.numberOfRetries, e, "skipped")
    BY <1>0, <1>3, <2>1, <2>3
  <2>4. CASE at' = [at EXCEPT ![e] = "thrown"] /\ UNCHANGED status
    BY <1>2, <2>1, <2>4
  <2> QED
    BY <1>6, <2>2, <2>3, <2>4 DEF OnError
<1>7. CASE UNCHANGED vars
  BY <1>7 DEF vars, history, WorkInv, OneBusy, RunningBusy, Busy
<1> QED
  BY <1>1, <1>4, <1>5, <1>6, <1>7 DEF Next

LEMMA WorkImplies == WorkInv => OneAtATime
<1> SUFFICES ASSUME WorkInv
             PROVE  OneAtATime
  OBVIOUS
<1>1. Cardinality(InWork) <= 1
  <2>1. CASE InWork = {}
    BY <2>1, FS_EmptySet
  <2>2. ASSUME NEW e \in InWork
        PROVE  Cardinality(InWork) <= 1
    <3>1. InWork = {e}
      BY <2>2 DEF WorkInv, OneBusy, Busy, InWork
    <3> QED
      BY <3>1, FS_Singleton
  <2> QED
    BY <2>1, <2>2
<1>2. (\E e \in Entry : Busy(e)) <=> InWork # {} \/ \E e \in Entry : at[e] = "thrown"
  BY DEF Busy, InWork
<1> QED
  BY <1>1, <1>2 DEF WorkInv, RunningBusy, OneAtATime

(* Two calls of runQueue never work at the same time, and the status says      *)
(* whether one does: the test of status in log() is enough, although runQueue *)
(* calls itself from three places without being awaited.                     *)
THEOREM CallsExcludeEachOther == Spec => []OneAtATime
BY WorkInit, WorkStep, WorkImplies, PTL DEF Spec

-----------------------------------------------------------------------------
(* Order.  What waits, what is in work and what is written keep the order of *)
(* arrived among the entries that have not failed, given as parameters so    *)
(* that they can be of the state before a step or after it.                  *)
Precedes(a, e, f)   == \E i, j \in DOMAIN a : i < j /\ a[i] = e /\ a[j] = f
Ahead(a, fl, e, f)  == fl[e] = 0 /\ fl[f] = 0 => Precedes(a, e, f)
Sorted(a, fl, q)    == \A i, j \in DOMAIN q : i < j => Ahead(a, fl, q[i], q[j])
AllAhead(a, fl, p, q) == \A i \in DOMAIN p, j \in DOMAIN q : Ahead(a, fl, p[i], q[j])

(* All that is written comes before what is in work, and that before what    *)
(* waits.  Who is asked for onError has failed.                              *)
OrderInv ==
  /\ Sorted(arrived, failures, written)
  /\ Sorted(arrived, failures, queue)
  /\ AllAhead(arrived, failures, written, queue)
  /\ \A e \in Entry : at[e] = "beforeLog" =>
       /\ \A i \in DOMAIN written : Ahead(arrived, failures, written[i], e)
       /\ \A j \in DOMAIN queue : Ahead(arrived, failures, e, queue[j])
  /\ \A e \in Entry : at[e] = "onError" => failures[e] # 0

Arrived(e) == \E i \in DOMAIN arrived : arrived[i] = e

(* Everything that is anywhere has arrived, and once. *)
ArrivalInv ==
  /\ \A e \in Entry : at[e] # "new" <=> Arrived(e)
  /\ \A i \in DOMAIN queue : Arrived(queue[i])
  /\ \A i \in DOMAIN written : Arrived(written[i])
  /\ \A i, j \in DOMAIN arrived : arrived[i] = arrived[j] => i = j

LEMMA AppendAt ==
  ASSUME NEW S, NEW q \in Seq(S), NEW e \in S
  PROVE  /\ Append(q, e) \in Seq(S) /\ Append(q, e) # <<>>
         /\ \A i \in DOMAIN q : i \in DOMAIN Append(q, e) /\ Append(q, e)[i] = q[i]
         /\ Len(q) + 1 \in DOMAIN Append(q, e) /\ Append(q, e)[Len(q) + 1] = e
         /\ \A i \in DOMAIN Append(q, e) : i \in DOMAIN q \/ i = Len(q) + 1
         /\ \A i \in DOMAIN q : i \in Nat /\ i < Len(q) + 1
OBVIOUS

LEMMA TailAt ==
  ASSUME NEW S, NEW q \in Seq(S), q # <<>>
  PROVE  /\ Tail(q) \in Seq(S) /\ Head(q) \in S /\ 1 \in DOMAIN q /\ Head(q) = q[1]
         /\ \A i \in DOMAIN Tail(q) : /\ i \in Nat /\ i + 1 \in DOMAIN q /\ 1 < i + 1
                                      /\ Tail(q)[i] = q[i + 1]
OBVIOUS

(* More arrivals and more failures leave what is ahead of what. *)
LEMMA AheadStays ==
  ASSUME NEW a \in Seq(Entry), NEW fl \in [Entry -> Nat], NEW e \in Entry, NEW f \in Entry,
         Ahead(a, fl, e, f)
  PROVE  /\ \A x \in Entry : Ahead(Append(a, x), fl, e, f)
         /\ \A x \in Entry : Ahead(a, [fl EXCEPT ![x] = @ + 1], e, f)
<1>1. ASSUME NEW x \in Entry
      PROVE  Ahead(Append(a, x), fl, e, f)
  <2>1. \A i \in DOMAIN a : i \in DOMAIN Append(a, x) /\ Append(a, x)[i] = a[i]
    BY AppendAt
  <2> QED
    BY <2>1 DEF Ahead, Precedes
<1>2. ASSUME NEW x \in Entry
      PROVE  Ahead(a, [fl EXCEPT ![x] = @ + 1], e, f)
  <2>1. \A y \in Entry : [fl EXCEPT ![x] = @ + 1][y] = 0 => fl[y] = 0
    OBVIOUS
  <2> QED
    BY <2>1 DEF Ahead
<1> QED
  BY <1>1, <1>2

(* Who arrives now comes after all who have. *)
LEMMA ArrivesLast ==
  ASSUME NEW a \in Seq(Entry), NEW fl, NEW e \in Entry, NEW i \in DOMAIN a
  PROVE  Ahead(Append(a, e), fl, a[i], e)
<1>1. /\ i \in DOMAIN Append(a, e) /\ Append(a, e)[i] = a[i] /\ i < Len(a) + 1
      /\ Len(a) + 1 \in DOMAIN Append(a, e) /\ Append(a, e)[Len(a) + 1] = e
  BY AppendAt
<1> QED
  BY <1>1 DEF Ahead, Precedes

LEMMA SortedAppend ==
  ASSUME NEW a, NEW fl, NEW q \in Seq(Entry), NEW e \in Entry,
         Sorted(a, fl, q), \A i \in DOMAIN q : Ahead(a, fl, q[i], e)
  PROVE  Sorted(a, fl, Append(q, e))
<1> SUFFICES ASSUME NEW i \in DOMAIN Append(q, e), NEW j \in DOMAIN Append(q, e), i < j
             PROVE  Ahead(a, fl, Append(q, e)[i], Append(q, e)[j])
  BY DEF Sorted
<1>1. i \in DOMAIN q /\ Append(q, e)[i] = q[i]
  BY AppendAt
<1>2. CASE j \in DOMAIN q
  BY <1>1, <1>2, AppendAt DEF Sorted
<1>3. CASE j = Len(q) + 1
  BY <1>1, <1>3, AppendAt
<1> QED
  BY <1>2, <1>3, AppendAt

LEMMA AllAheadAppend ==
  ASSUME NEW a, NEW fl, NEW p, NEW q \in Seq(Entry), NEW e \in Entry,
         AllAhead(a, fl, p, q), \A i \in DOMAIN p : Ahead(a, fl, p[i], e)
  PROVE  AllAhead(a, fl, p, Append(q, e))
BY AppendAt DEF AllAhead

LEMMA SortedTail ==
  ASSUME NEW a, NEW fl, NEW q \in Seq(Entry), q # <<>>, Sorted(a, fl, q)
  PROVE  /\ Sorted(a, fl, Tail(q))
         /\ \A j \in DOMAIN Tail(q) : Ahead(a, fl, Head(q), Tail(q)[j])
<1>1. ASSUME NEW i \in DOMAIN Tail(q), NEW j \in DOMAIN Tail(q), i < j
      PROVE  Ahead(a, fl, Tail(q)[i], Tail(q)[j])
  <2>1. i + 1 \in DOMAIN q /\ j + 1 \in DOMAIN q /\ i + 1 < j + 1
    BY <1>1, TailAt
  <2> QED
    BY <2>1, TailAt DEF Sorted
<1>2. \A j \in DOMAIN Tail(q) : Ahead(a, fl, Head(q), Tail(q)[j])
  BY TailAt DEF Sorted
<1> QED
  BY <1>1, <1>2 DEF Sorted

(* runQueue with a sorted queue q, by the only entry that is in work if any   *)
(* is: the entry it takes is ahead of the others.                            *)
LEMMA RunQueueSorted ==
  ASSUME TypeOK, NEW q \in Seq(Entry), NEW n, NEW e \in Entry,
         NEW s \in {"queued", "logged", "skipped"}, RunQueue(q, n, e, s),
         UNCHANGED written, arrived' \in Seq(Entry), failures' \in [Entry -> Nat],
         \A f \in Entry : at[f] = "beforeLog" => f = e,
         Sorted(arrived', failures', q), Sorted(arrived', failures', written),
         AllAhead(arrived', failures', written, q),
         \A f \in Entry : f # e /\ at[f] = "onError" => failures'[f] # 0
  PROVE  OrderInv'
<1>0. at \in [Entry -> {"new", "queued"} \cup Awaiting \cup Settled]
  BY DEF TypeOK
<1>1. CASE q = <<>>
  <2>1. queue' = q /\ at' = [at EXCEPT ![e] = s]
    BY <1>1 DEF RunQueue
  <2>2. \A f \in Entry : at'[f] # "beforeLog" /\ (at'[f] = "onError" => failures'[f] # 0)
    BY <1>0, <2>1
  <2> QED
    BY <2>1, <2>2 DEF OrderInv
<1>2. CASE q # <<>>
  <2>1. queue' = Tail(q) /\ at' = [[at EXCEPT ![e] = s] EXCEPT ![Head(q)] = "beforeLog"]
    BY <1>2 DEF RunQueue
  <2>2. Head(q) \in Entry
    BY <1>2, TailAt
  <2>3. \A f \in Entry : /\ at'[f] = "beforeLog" => f = Head(q)
                         /\ at'[f] = "onError" => failures'[f] # 0
    BY <1>0, <2>1, <2>2
  <2>4. /\ Sorted(arrived', failures', queue')
        /\ \A j \in DOMAIN queue' : Ahead(arrived', failures', Head(q), queue'[j])
    BY <1>2, <2>1, SortedTail
  <2>5. /\ AllAhead(arrived', failures', written', queue')
        /\ \A i \in DOMAIN written' : Ahead(arrived', failures', written'[i], Head(q))
    BY <1>2, <2>1, TailAt DEF AllAhead
  <2> QED
    BY <2>3, <2>4, <2>5 DEF OrderInv
<1> QED
  BY <1>1, <1>2

LEMMA RunQueueArrived ==
  ASSUME TypeOK, NEW q \in Seq(Entry), NEW n, NEW e \in Entry,
         NEW s \in {"queued", "logged", "skipped"}, RunQueue(q, n, e, s),
         \A f \in Entry : f = e \/ at[f] # "new" <=> Arrived(f)',
         \A i \in DOMAIN q : \E j \in DOMAIN arrived' : arrived'[j] = q[i]
  PROVE  /\ \A f \in Entry : at'[f] # "new" <=> Arrived(f)'
         /\ \A i \in DOMAIN queue' : Arrived(queue[i])'
<1>0. at \in [Entry -> {"new", "queued"} \cup Awaiting \cup Settled]
  BY DEF TypeOK
<1>1. CASE q = <<>>
  BY <1>0, <1>1 DEF RunQueue, Arrived
<1>2. CASE q # <<>>
  <2>1. queue' = Tail(q) /\ at' = [[at EXCEPT ![e] = s] EXCEPT ![Head(q)] = "beforeLog"]
    BY <1>2 DEF RunQueue
  <2>2. Head(q) \in Entry /\ Arrived(Head(q))'
    <3>1. Head(q) \in Entry /\ 1 \in DOMAIN q /\ Head(q) = q[1]
      BY <1>2, TailAt
    <3> QED
      BY <2>1, <3>1 DEF Arrived
  <2>3. \A f \in Entry : at'[f] = "new" <=> f # e /\ f # Head(q) /\ at[f] = "new"
    BY <1>0, <2>1, <2>2
  <2>4. \A f \in Entry : at'[f] # "new" <=> Arrived(f)'
    BY <2>2, <2>3
  <2>5. \A i \in DOMAIN queue' : Arrived(queue[i])'
    BY <1>2, <2>1, TailAt DEF Arrived
  <2> QED
    BY <2>4, <2>5
<1> QED
  BY <1>1, <1>2

LEMMA ArrivalStep == TypeOK /\ ArrivalInv /\ [Next]_vars => ArrivalInv'
<1> SUFFICES ASSUME TypeOK, ArrivalInv, [Next]_vars
             PROVE  ArrivalInv'
  OBVIOUS
<1>0. /\ at \in [Entry -> {"new", "queued"} \cup Awaiting \cup Settled]
      /\ queue \in Seq(Entry) /\ arrived \in Seq(Entry) /\ written \in Seq(Entry)
  BY DEF TypeOK
<1>1. ASSUME NEW e \in Entry, Log(e)
      PROVE  ArrivalInv'
  <2>1. arrived' = Append(arrived, e) /\ written' = written /\ at[e] = "new"
    BY <1>1 DEF Log
  <2>2. \A f : Arrived(f)' <=> Arrived(f) \/ f = e
    <3>1. \A f : Arrived(f) => Arrived(f)'
      BY <1>0, <2>1, AppendAt DEF Arrived
    <3>2. \A f : Arrived(f)' => Arrived(f) \/ f = e
      BY <1>0, <2>1, AppendAt DEF Arrived
    <3>3. Arrived(e)'
      BY <1>0, <2>1, AppendAt DEF Arrived
    <3> QED
      BY <3>1, <3>2, <3>3
  <2>3. \A i, j \in DOMAIN arrived' : arrived'[i] = arrived'[j] => i = j
    <3>1. \A i \in DOMAIN arrived : arrived[i] # e
      BY <2>1 DEF ArrivalInv, Arrived
    <3> QED
      BY <1>0, <2>1, <3>1, AppendAt DEF ArrivalInv
  <2>4. \A i \in DOMAIN written' : Arrived(written[i])'
    BY <2>1, <2>2 DEF ArrivalInv
  <2>5. \A i \in DOMAIN Append(queue, e) : Arrived(Append(queue, e)[i]) \/ Append(queue, e)[i] = e
    BY <1>0, AppendAt DEF ArrivalInv
  <2>6. \A f \in Entry : f = e \/ at[f] # "new" <=> Arrived(f)'
    BY <2>2 DEF ArrivalInv
  <2>7. CASE RunQueue(Append(queue, e), config.numberOfRetries, e, "queued")
    <3>1. \A i \in DOMAIN Append(queue, e) :
            \E j \in DOMAIN arrived' : arrived'[j] = Append(queue, e)[i]
      BY <2>2, <2>5 DEF Arrived
    <3>2. Append(queue, e) \in Seq(Entry)
      BY <1>0
    <3>3. /\ \A f \in Entry : at'[f] # "new" <=> Arrived(f)'
          /\ \A i \in DOMAIN queue' : Arrived(queue[i])'
      BY <2>6, <2>7, <3>1, <3>2, RunQueueArrived
    <3> QED
      BY <2>3, <2>4, <3>3 DEF ArrivalInv
  <2>8. CASE queue' = Append(queue, e) /\ at' = [at EXCEPT ![e] = "queued"]
    <3>1. \A f \in Entry : at'[f] # "new" <=> Arrived(f)'
      BY <1>0, <2>6, <2>8
    <3>2. \A i \in DOMAIN queue' : Arrived(queue[i])'
      BY <2>2, <2>5, <2>8
    <3> QED
      BY <2>3, <2>4, <3>1, <3>2 DEF ArrivalInv
  <2> QED
    BY <1>1, <2>7, <2>8 DEF Log
<1>2. ASSUME NEW e \in Entry, at[e] # "new", UNCHANGED arrived, NEW q \in Seq(Entry), NEW n,
             NEW s \in {"queued", "logged", "skipped"}, RunQueue(q, n, e, s),
             UNCHANGED written, \A i \in DOMAIN q : Arrived(q[i])
      PROVE  ArrivalInv'
  <2>1. \A f : Arrived(f)' <=> Arrived(f)
    BY <1>2 DEF Arrived
  <2>2. \A f \in Entry : f = e \/ at[f] # "new" <=> Arrived(f)'
    BY <1>2, <2>1 DEF ArrivalInv
  <2>3. \A i \in DOMAIN q : \E j \in DOMAIN arrived' : arrived'[j] = q[i]
    BY <1>2 DEF Arrived
  <2>4. /\ \A f \in Entry : at'[f] # "new" <=> Arrived(f)'
        /\ \A i \in DOMAIN queue' : Arrived(queue[i])'
    BY <1>2, <2>2, <2>3, RunQueueArrived
  <2> QED
    BY <1>2, <2>1, <2>4 DEF ArrivalInv
<1>3. ASSUME NEW e \in Entry, at[e] # "new", NEW s \in Awaiting \cup {"thrown"},
             at' = [at EXCEPT ![e] = s], UNCHANGED <<arrived, queue>>,
             written' \in {written, Append(written, e)}
      PROVE  ArrivalInv'
  <2>1. \A f : Arrived(f)' <=> Arrived(f)
    BY <1>3 DEF Arrived
  <2>2. \A f \in Entry : at'[f] # "new" <=> at[f] # "new"
    BY <1>0, <1>3 DEF Awaiting
  <2>3. \A i \in DOMAIN written' : (i \in DOMAIN written /\ written'[i] = written[i]) \/ written'[i] = e
    <3>1. CASE written' = written
      BY <3>1
    <3>2. CASE written' = Append(written, e)
      <4>1. written \in Seq(Entry)
        BY <1>0
      <4> QED
        BY <3>2, <4>1, AppendAt
    <3> QED
      BY <1>3, <3>1, <3>2
  <2>4. \A i \in DOMAIN written' : Arrived(written[i])'
    BY <1>3, <2>1, <2>3 DEF ArrivalInv
  <2> QED
    BY <1>3, <2>1, <2>2, <2>4 DEF ArrivalInv
<1>4. ASSUME NEW e \in Entry, BeforeLog(e)
      PROVE  ArrivalInv'
  <2>1. \E s \in Awaiting : at' = [at EXCEPT ![e] = s]
    BY <1>4 DEF BeforeLog, Caught, Awaiting
  <2>2. written' \in {written, Append(written, e)} /\ UNCHANGED <<arrived, queue>> /\ at[e] # "new"
    BY <1>4 DEF BeforeLog, Caught
  <2> QED
    BY <1>3, <2>1, <2>2
<1>5. ASSUME NEW e \in Entry, OnLog(e)
      PROVE  ArrivalInv'
  <2>1. at[e] # "new" /\ UNCHANGED <<arrived, written>>
    BY <1>5 DEF OnLog
  <2>2. CASE RunQueue(queue, config.numberOfRetries, e, "logged")
    BY <1>0, <1>2, <2>1, <2>2 DEF ArrivalInv
  <2>3. CASE Caught(e)
    <3>1. at' = [at EXCEPT ![e] = "onError"] /\ "onError" \in Awaiting /\ UNCHANGED queue
      BY <2>3 DEF Caught, Awaiting
    <3> QED
      BY <1>3, <2>1, <3>1
  <2> QED
    BY <1>5, <2>2, <2>3 DEF OnLog
<1>6. ASSUME NEW e \in Entry, OnError(e)
      PROVE  ArrivalInv'
  <2>1. at[e] # "new" /\ UNCHANGED <<arrived, written>>
    BY <1>6 DEF OnError, history
  <2>2. CASE RunQueue(Append(queue, e), retry[e] - 1, e, "queued")
    <3>1. \A i \in DOMAIN Append(queue, e) : Arrived(Append(queue, e)[i])
      BY <1>0, <2>1, AppendAt DEF ArrivalInv
    <3>2. Append(queue, e) \in Seq(Entry)
      BY <1>0
    <3> QED
      BY <1>2, <2>1, <2>2, <3>1, <3>2
  <2>3. CASE RunQueue(queue, config.numberOfRetries, e, "skipped")
    BY <1>0, <1>2, <2>1, <2>3 DEF ArrivalInv
  <2>4. CASE at' = [at EXCEPT ![e] = "thrown"] /\ UNCHANGED queue
    BY <1>3, <2>1, <2>4
  <2> QED
    BY <1>6, <2>2, <2>3, <2>4 DEF OnError
<1>7. CASE UNCHANGED vars
  BY <1>7 DEF vars, history, ArrivalInv, Arrived
<1> QED
  BY <1>1, <1>4, <1>5, <1>6, <1>7 DEF Next

LEMMA OrderStep == TypeOK /\ WorkInv /\ ArrivalInv /\ OrderInv /\ [Next]_vars => OrderInv'
<1> SUFFICES ASSUME TypeOK, WorkInv, ArrivalInv, OrderInv, [Next]_vars
             PROVE  OrderInv'
  OBVIOUS
<1>0. /\ at \in [Entry -> {"new", "queued"} \cup Awaiting \cup Settled]
      /\ queue \in Seq(Entry) /\ arrived \in Seq(Entry) /\ written \in Seq(Entry)
      /\ failures \in [Entry -> Nat]
  BY DEF TypeOK
<1>t. /\ arrived' \in Seq(Entry) /\ failures' \in [Entry -> Nat]
  BY TypeStep DEF TypeOK
<1>w. \A i \in DOMAIN written : written[i] \in Entry
  BY <1>0
<1>q. \A i \in DOMAIN queue : queue[i] \in Entry
  BY <1>0
<1>b. \A e, f \in Entry : at[e] \in Awaiting /\ at[f] \in Awaiting => e = f
  BY DEF WorkInv, OneBusy, Busy
<1>1. ASSUME NEW e \in Entry, Log(e)
      PROVE  OrderInv'
  <2>1. arrived' = Append(arrived, e) /\ UNCHANGED <<written, failures>> /\ at[e] = "new"
    BY <1>1 DEF Log
  <2>2. \A x, y \in Entry : Ahead(arrived, failures, x, y) => Ahead(arrived', failures', x, y)
    BY <1>0, <2>1, AheadStays
  <2>3. \A x \in Entry : Arrived(x) => Ahead(arrived', failures', x, e)
    BY <1>0, <2>1, ArrivesLast DEF Arrived
  <2>4. Sorted(arrived', failures', written) /\ Sorted(arrived', failures', queue)
        /\ AllAhead(arrived', failures', written, queue)
    BY <1>w, <1>q, <2>2 DEF OrderInv, Sorted, AllAhead
  <2>5. /\ \A i \in DOMAIN written : Ahead(arrived', failures', written[i], e)
        /\ \A i \in DOMAIN queue : Ahead(arrived', failures', queue[i], e)
    BY <1>w, <1>q, <2>3 DEF ArrivalInv
  <2>6. /\ Sorted(arrived', failures', Append(queue, e))
        /\ AllAhead(arrived', failures', written, Append(queue, e))
    BY <1>0, <2>4, <2>5, SortedAppend, AllAheadAppend
  <2>7. CASE status # "RUNNING" /\ RunQueue(Append(queue, e), config.numberOfRetries, e, "queued")
    <3>1. \A f \in Entry : ~Busy(f)
      BY <2>7 DEF WorkInv, RunningBusy
    <3>2. \A f \in Entry : at[f] # "beforeLog" /\ at[f] # "onError"
      BY <3>1 DEF Busy, Awaiting
    <3>3. Append(queue, e) \in Seq(Entry)
      BY <1>0
    <3> QED
      BY <1>t, <2>1, <2>4, <2>6, <2>7, <3>2, <3>3, RunQueueSorted
  <2>8. CASE queue' = Append(queue, e) /\ at' = [at EXCEPT ![e] = "queued"]
    <3>1. ASSUME NEW f \in Entry, at'[f] = "beforeLog"
          PROVE  /\ \A i \in DOMAIN written : Ahead(arrived', failures', written[i], f)
                 /\ \A j \in DOMAIN queue' : Ahead(arrived', failures', f, queue'[j])
      <4>1. at[f] = "beforeLog"
        BY <1>0, <2>8, <3>1
      <4>2. /\ \A i \in DOMAIN written : Ahead(arrived', failures', written[i], f)
            /\ \A j \in DOMAIN queue : Ahead(arrived', failures', f, queue[j])
        BY <1>w, <1>q, <2>2, <4>1 DEF OrderInv
      <4>3. Ahead(arrived', failures', f, e)
        BY <2>3, <4>1 DEF ArrivalInv
      <4>4. \A j \in DOMAIN queue' : (j \in DOMAIN queue /\ queue'[j] = queue[j]) \/ queue'[j] = e
        BY <1>0, <2>8, AppendAt
      <4> QED
        BY <4>2, <4>3, <4>4
    <3>2. \A f \in Entry : at'[f] = "onError" => failures'[f] # 0
      BY <1>0, <2>1, <2>8 DEF OrderInv
    <3> QED
      BY <2>1, <2>4, <2>6, <2>8, <3>1, <3>2 DEF OrderInv
  <2> QED
    BY <1>1, <2>7, <2>8 DEF Log
<1>2. ASSUME NEW e \in Entry, BeforeLog(e), ~Caught(e)
      PROVE  OrderInv'
  <2>1. /\ at[e] = "beforeLog" /\ at' = [at EXCEPT ![e] = "onLog"]
        /\ written' = Append(written, e) \/ written' = written
        /\ UNCHANGED <<queue, failures, arrived>>
    BY <1>2 DEF BeforeLog
  <2>2. \A f \in Entry : at'[f] # "beforeLog"
    BY <1>0, <1>b, <2>1 DEF Awaiting
  <2>3. \A f \in Entry : at'[f] = "onError" => failures'[f] # 0
    BY <1>0, <2>1 DEF OrderInv
  <2>4. CASE written' = Append(written, e)
    <3>1. \A i \in DOMAIN written : Ahead(arrived, failures, written[i], e)
      BY <2>1 DEF OrderInv
    <3>2. Sorted(arrived', failures', written')
      BY <1>0, <2>1, <2>4, <3>1, SortedAppend DEF OrderInv
    <3>3. AllAhead(arrived', failures', written', queue')
      <4>1. \A j \in DOMAIN queue : Ahead(arrived, failures, e, queue[j])
        BY <2>1 DEF OrderInv
      <4>2. \A i \in DOMAIN written' : (i \in DOMAIN written /\ written'[i] = written[i])
                                       \/ written'[i] = e
        BY <1>0, <2>4, AppendAt
      <4> QED
        BY <2>1, <4>1, <4>2 DEF OrderInv, AllAhead
    <3> QED
      BY <2>1, <2>2, <2>3, <3>2, <3>3 DEF OrderInv
  <2> QED
    BY <2>1, <2>2, <2>3, <2>4 DEF OrderInv
<1>3. ASSUME NEW e \in Entry, at[e] \in Awaiting, Caught(e), UNCHANGED <<arrived, written>>
      PROVE  OrderInv'
  <2>1. at' = [at EXCEPT ![e] = "onError"] /\ failures' = [failures EXCEPT ![e] = @ + 1]
        /\ UNCHANGED queue
    BY <1>3 DEF Caught
  <2>2. \A x, y \in Entry : Ahead(arrived, failures, x, y) => Ahead(arrived', failures', x, y)
    BY <1>0, <1>3, <2>1, AheadStays
  <2>3. Sorted(arrived', failures', written') /\ Sorted(arrived', failures', queue')
        /\ AllAhead(arrived', failures', written', queue')
    BY <1>w, <1>q, <1>3, <2>1, <2>2 DEF OrderInv, Sorted, AllAhead
  <2>4. \A f \in Entry : at'[f] # "beforeLog"
    BY <1>0, <1>b, <1>3, <2>1 DEF Awaiting
  <2>5. \A f \in Entry : at'[f] = "onError" => failures'[f] # 0
    BY <1>0, <2>1 DEF OrderInv
  <2> QED
    BY <2>3, <2>4, <2>5 DEF OrderInv
<1>4. ASSUME NEW e \in Entry, OnLog(e)
      PROVE  OrderInv'
  <2>1. at[e] = "onLog" /\ UNCHANGED <<arrived, written>>
    BY <1>4 DEF OnLog
  <2>2. CASE RunQueue(queue, config.numberOfRetries, e, "logged") /\ UNCHANGED failures
    <3>1. \A f \in Entry : at[f] # "beforeLog" /\ at[f] # "onError"
      BY <1>b, <2>1 DEF Awaiting
    <3> QED
      BY <1>0, <1>t, <2>1, <2>2, <3>1, RunQueueSorted DEF OrderInv
  <2>3. CASE Caught(e)
    BY <1>3, <2>1, <2>3 DEF Awaiting
  <2> QED
    BY <1>4, <2>2, <2>3 DEF OnLog
<1>5. ASSUME NEW e \in Entry, OnError(e)
      PROVE  OrderInv'
  <2>1. at[e] = "onError" /\ UNCHANGED <<arrived, written, failures>>
    BY <1>5 DEF OnError, history
  <2>2. \A f \in Entry : /\ at[f] # "beforeLog" /\ (at[f] = "onError" => f = e)
    BY <1>b, <2>1 DEF Awaiting
  <2>3. \A x : Ahead(arrived', failures', x, e)
    BY <2>1 DEF OrderInv, Ahead
  <2>4. CASE RunQueue(Append(queue, e), retry[e] - 1, e, "queued")
    <3>1. /\ Sorted(arrived', failures', Append(queue, e))
          /\ AllAhead(arrived', failures', written, Append(queue, e))
      BY <1>0, <2>1, <2>3, SortedAppend, AllAheadAppend DEF OrderInv
    <3>2. Append(queue, e) \in Seq(Entry)
      BY <1>0
    <3>3. Sorted(arrived', failures', written)
      BY <2>1 DEF OrderInv
    <3> QED
      BY <1>t, <2>1, <2>2, <2>4, <3>1, <3>2, <3>3, RunQueueSorted
  <2>5. CASE RunQueue(queue, config.numberOfRetries, e, "skipped")
    BY <1>0, <1>t, <2>1, <2>2, <2>5, RunQueueSorted DEF OrderInv
  <2>6. CASE at' = [at EXCEPT ![e] = "thrown"] /\ UNCHANGED queue
    <3>1. \A f \in Entry : at'[f] # "beforeLog" /\ at'[f] # "onError"
      BY <1>0, <2>2, <2>6
    <3> QED
      BY <2>1, <2>6, <3>1 DEF OrderInv
  <2> QED
    BY <1>5, <2>4, <2>5, <2>6 DEF OnError
<1>6. CASE UNCHANGED vars
  BY <1>6 DEF vars, history, OrderInv
<1>7. ASSUME NEW e \in Entry, BeforeLog(e), Caught(e)
      PROVE  OrderInv'
  <2>1. at[e] \in Awaiting /\ UNCHANGED arrived
    BY <1>7 DEF BeforeLog, Awaiting
  <2>2. UNCHANGED written
    BY <1>0, <1>7, <2>1 DEF BeforeLog, Caught, Awaiting
  <2> QED
    BY <1>3, <1>7, <2>1, <2>2
<1> QED
  BY <1>1, <1>2, <1>4, <1>5, <1>6, <1>7 DEF Next

QueueInv == WorkInv /\ ArrivalInv /\ OrderInv

LEMMA QueueInit == Init => QueueInv
<1> SUFFICES ASSUME Init
             PROVE  ArrivalInv /\ OrderInv
  BY WorkInit DEF QueueInv
<1>1. DOMAIN arrived = {} /\ DOMAIN queue = {} /\ DOMAIN written = {}
  BY DEF Init
<1> QED
  BY <1>1 DEF Init, ArrivalInv, Arrived, OrderInv, Sorted, AllAhead

LEMMA QueueStep == QueueInv /\ [Next]_vars => QueueInv'
BY WorkStep, ArrivalStep, OrderStep DEF QueueInv, WorkInv

LEMMA QueueImplies == QueueInv => OrderKept
BY DEF QueueInv, OrderInv, Sorted, Ahead, Precedes, OrderKept, Before

(* Retries move an entry to the end of the queue, and only that entry: those  *)
(* that have not failed are written in the order they were logged, and once, *)
(* for any number of entries and retries and whichever hooks throw.          *)
THEOREM EntriesKeepOrder == Spec => []OrderKept
BY QueueInit, QueueStep, QueueImplies, PTL DEF Spec

=============================================================================
