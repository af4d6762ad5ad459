---------------------------- MODULE LoggerServer ----------------------------
(***************************************************************************)
(* core/logger/src/logger-server.ts: log entries are queued and passed one  *)
(* after the other to the plugins and to stdout.                           *)
(*                                                                         *)
(* Every call of runQueue is a coroutine with an entry and a number of     *)
(* retries of its own, and nothing but status keeps two from running at    *)
(* once.  at[e] says what the call that took entry e awaits, so that an    *)
(* action is what happens from one await to the next.  Entries that        *)
(* config.silent or the log level discard change nothing and are left out. *)
(***************************************************************************)
EXTENDS Integers, Sequences, FiniteSets

CONSTANTS
  Entry,         \* log entries: each is logged once
  Configs,       \* the configurations: numberOfRetries and shouldSkip
  FailingHooks   \* the hooks with a plugin that may throw

ASSUME LoggerAssumption ==
  Configs \subseteq [numberOfRetries : Nat, shouldSkip : BOOLEAN]

VARIABLES
  config,    \* the configuration, which no step changes
  queue,     \* the entries that wait
  status,    \* a LogQueueStatus
  at,        \* where each entry is
  retry,     \* the retries left to the call of runQueue that took the entry
  arrived,   \* the entries in the order they were logged
  written,   \* what was written to stdout
  failures   \* how often the plugins or stdout have failed for each entry

history == <<arrived, written, failures>>
vars    == <<config, queue, status, at, retry, history>>

(* thrown: runQueue has rejected, which nobody sees.                        *)
Awaiting == {"beforeLog", "onLog", "onError"}
Settled  == {"logged", "skipped", "thrown"}
InWork   == {e \in Entry : at[e] \in Awaiting}

Throws(hook) == hook \in FailingHooks

TypeOK ==
  /\ config \in Configs
  /\ queue \in Seq(Entry)
  /\ status \in {"EMPTY", "RUNNING"}
  /\ at \in [Entry -> {"new", "queued"} \cup Awaiting \cup Settled]
  /\ retry \in [Entry -> 0..config.numberOfRetries]
  /\ arrived \in Seq(Entry)
  /\ written \in Seq(Entry)
  /\ failures \in [Entry -> Nat]

Init ==
  /\ config \in Configs
  /\ queue = <<>>
  /\ status = "EMPTY"
  /\ at = [e \in Entry |-> "new"]
  /\ retry = [e \in Entry |-> 0]
  /\ arrived = <<>>
  /\ written = <<>>
  /\ failures = [e \in Entry |-> 0]

-----------------------------------------------------------------------------
(* Mutants of runQueue: the last entry is taken; the status stays RUNNING.   *)
RunQueueLast(q, tries, e, s) ==
  \/ q = <<>> /\ status' = "EMPTY" /\ queue' = q /\ at' = [at EXCEPT ![e] = s]
     /\ UNCHANGED retry
  \/ /\ q # <<>>
     /\ status' = "RUNNING"
     /\ queue' = SubSeq(q, 1, Len(q) - 1)
     /\ at' = [[at EXCEPT ![e] = s] EXCEPT ![q[Len(q)]] = "beforeLog"]
     /\ retry' = [retry EXCEPT ![q[Len(q)]] = tries]

RunQueueStaysRunning(q, tries, e, s) ==
  \/ q = <<>> /\ queue' = q /\ at' = [at EXCEPT ![e] = s]
     /\ UNCHANGED <<status, retry>>
  \/ /\ q # <<>>
     /\ status' = "RUNNING"
     /\ queue' = Tail(q)
     /\ at' = [[at EXCEPT ![e] = s] EXCEPT ![Head(q)] = "beforeLog"]
     /\ retry' = [retry EXCEPT ![Head(q)] = tries]

(* runQueue(tries) with the queue q, up to its first await, in a step that   *)
(* leaves entry e in s: the first entry is taken, if there is one.           *)
RunQueue(q, tries, e, s) ==
  \/ q = <<>> /\ status' = "EMPTY" /\ queue' = q /\ at' = [at EXCEPT ![e] = s]
     /\ UNCHANGED retry
  \/ /\ q # <<>>
     /\ status' = "RUNNING"
     /\ queue' = Tail(q)
     /\ at' = [[at EXCEPT ![e] = s] EXCEPT ![Head(q)] = "beforeLog"]
     /\ retry' = [retry EXCEPT ![Head(q)] = tries]

(* Mutant of log(): the status is not tested.                                *)
LogAlwaysRuns(e) ==
  /\ at[e] = "new"
  /\ arrived' = Append(arrived, e)
  /\ RunQueue(Append(queue, e), config.numberOfRetries, e, "queued")
  /\ UNCHANGED <<config, written, failures>>

(* log(): the queue is started unless it runs.                               *)
Log(e) ==
  /\ at[e] = "new"
  /\ arrived' = Append(arrived, e)
  /\ \/ /\ status # "RUNNING"
        /\ RunQueue(Append(queue, e), config.numberOfRetries, e, "queued")
     \/ /\ status = "RUNNING"
        /\ queue' = Append(queue, e)
        /\ at' = [at EXCEPT ![e] = "queued"]
        /\ UNCHANGED <<status, retry>>
  /\ UNCHANGED <<config, written, failures>>

(* The catch: onError is called.                                             *)
Caught(e) ==
  /\ at' = [at EXCEPT ![e] = "onError"]
  /\ failures' = [failures EXCEPT ![e] = @ + 1]
  /\ UNCHANGED <<queue, status, retry>>

(* beforeLog has answered: the entry is written unless it is muted.          *)
BeforeLog(e) ==
  /\ at[e] = "beforeLog"
  /\ \/ /\ written' = Append(written, e) \/ UNCHANGED written
        /\ at' = [at EXCEPT ![e] = "onLog"]
        /\ UNCHANGED <<queue, status, retry, failures>>
     \/ Throws("beforeLog") /\ Caught(e) /\ UNCHANGED written
  /\ UNCHANGED <<config, arrived>>

(* onLog has answered: the next call of runQueue starts.                     *)
OnLog(e) ==
  /\ at[e] = "onLog"
  /\ \/ RunQueue(queue, config.numberOfRetries, e, "logged") /\ UNCHANGED failures
     \/ Throws("onLog") /\ Caught(e)
  /\ UNCHANGED <<config, arrived, written>>

(* onError has answered: the entry goes to the end of the queue while there   *)
(* are retries, and the call that takes the first one gets what is left of   *)
(* them.  Without retries it is skipped, or the error thrown again, and then *)
(* the status stays RUNNING.                                                 *)
OnError(e) ==
  /\ at[e] = "onError"
  /\ \/ retry[e] > 0 /\ RunQueue(Append(queue, e), retry[e] - 1, e, "queued")
     \/ /\ retry[e] = 0 /\ config.shouldSkip
        /\ RunQueue(queue, config.numberOfRetries, e, "skipped")
     \/ /\ Throws("onError") \/ (retry[e] = 0 /\ ~config.shouldSkip)
        /\ at' = [at EXCEPT ![e] = "thrown"]
        /\ UNCHANGED <<queue, status, retry>>
  /\ UNCHANGED <<config, history>>

Next == \E e \in Entry : Log(e) \/ BeforeLog(e) \/ OnLog(e) \/ OnError(e)

Spec == Init /\ [][Next]_vars

(* Hooks answer.  Nobody has to log.                                          *)
Fairness == \A e \in Entry : WF_vars(BeforeLog(e)) /\ WF_vars(OnLog(e)) /\ WF_vars(OnError(e))

FairSpec == Spec /\ Fairness

-----------------------------------------------------------------------------
(* Two calls of runQueue never work at the same time: log() starts one only   *)
(* when none is under way, though the status is set and tested in different  *)
(* turns of the event loop.                                                  *)
OneAtATime ==
  /\ Cardinality(InWork) <= 1
  /\ status = "RUNNING" <=> InWork # {} \/ \E e \in Entry : at[e] = "thrown"

Before(e, f) == \E i, j \in DOMAIN arrived : i < j /\ arrived[i] = e /\ arrived[j] = f

(* Retries move an entry to the end of the queue, and only that entry: those  *)
(* that have not failed are written in the order they were logged, and once. *)
OrderKept ==
  \A i, j \in DOMAIN written :
    i < j /\ failures[written[i]] = 0 /\ failures[written[j]] = 0
      => Before(written[i], written[j])

(* Every entry is logged or skipped in the end, whatever the plugins throw,   *)
(* unless an error is thrown that is not to be skipped.                      *)
EntriesSettled ==
  \A e \in Entry :
    at[e] = "queued" ~> (at[e] \in Settled \/ \E f \in Entry : at[f] = "thrown")

=============================================================================
