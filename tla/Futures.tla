------------------------------- MODULE Futures ------------------------------
(***************************************************************************)
(* Futures, promises and the threads behind them, in three kinds:          *)
(*                                                                         *)
(* "native"   concurrent_native.rs: an entry of FUTURE_REGISTRY            *)
(* "class"    Future.aura: three words of memory, written without a lock   *)
(* "promise"  Promise.aura: the same three words, and no thread            *)
(*                                                                         *)
(* A future names a thread, an entry of THREAD_REGISTRY with the channel   *)
(* its result comes through.  await joins the thread, and join takes the   *)
(* thread's entry out: the first one has the result, the others get 0 and  *)
(* do not wait for it.  A promise is settled by whoever has its handle.    *)
(*                                                                         *)
(* A lock is held over one step, and each access of a word is a step.      *)
(* Future f's thread is thread f.                                          *)
(***************************************************************************)
EXTENDS Integers

CONSTANTS
    Caller,         \* the threads that await, settle and cancel
    Future          \* the futures and promises there can be, as positive numbers

ASSUME FuturesAssumption == Future \subseteq Nat \ {0} /\ Future # {}

VARIABLES
    kind,           \* kind[f], chosen when f is made
    futures,        \* FUTURE_REGISTRY: the native futures with an entry
    done, result,   \* done[f]: 0 or 1, or -1 for a rejected promise; result[f]
    threads,        \* THREAD_REGISTRY: the threads with an entry
    running,        \* the threads that have not ended
    sent,           \* what join receives from thread f: 0 if it panicked
    step,           \* step[c]: where caller c is in its call
    of,             \* of[c]: the future it is about
    local,          \* local[c]: what its join returned; what it settles with
    answer,         \* answer[c]: what its last await returned, if c is idle
    made,           \* history: the futures and promises made
    cancelled,      \* history: those cancelled
    awaits,         \* history: awaits[f], the calls of Future.await begun, up to 2
    settled         \* history: settled[f], what the settles of f begun write

cells == <<kind, futures, done, result>>
workers == <<threads, running, sent>>
futureHistory == <<made, cancelled, awaits, settled>>
calling == <<step, of, local, answer>>
futureVars == <<cells, workers, calling, futureHistory>>

Null == -99

\* What the function of future f returns; what promise f is resolved with,
\* or rejected with, negated.
Value(f) == f

FutureInit ==
    /\ kind = [f \in Future |-> "native"]
    /\ futures = {} /\ threads = {} /\ running = {} /\ made = {} /\ cancelled = {}
    /\ done = [f \in Future |-> 0]
    /\ result = [f \in Future |-> 0]
    /\ sent = [f \in Future |-> 0]
    /\ awaits = [f \in Future |-> 0]
    /\ settled = [f \in Future |-> {}]
    /\ step = [c \in Caller |-> "idle"]
    /\ of \in [Caller -> {CHOOSE f \in Future : TRUE}]
    /\ local = [c \in Caller |-> 0]
    /\ answer = [c \in Caller |-> Null]

\* spawn: the thread, then the entry or the words; nobody has the handle
\* before.  Promise.create: the words.
Spawn(f) ==
    /\ f \notin made /\ made' = made \cup {f}
    /\ \E k \in {"native", "class", "promise"} :
          /\ kind' = [kind EXCEPT ![f] = k]
          /\ futures' = IF k = "native" THEN futures \cup {f} ELSE futures
          /\ threads' = IF k = "promise" THEN threads ELSE threads \cup {f}
          /\ running' = IF k = "promise" THEN running ELSE running \cup {f}
    /\ UNCHANGED <<done, result, sent, calling, cancelled, awaits, settled>>

\* The function returns; or it fails or panics, and join receives 0.
End(f) ==
    /\ f \in running
    /\ running' = running \ {f}
    /\ \E v \in {0, Value(f)} : sent' = [sent EXCEPT ![f] = v]
    /\ UNCHANGED <<cells, threads, calling, futureHistory>>

\* cancel leaves the thread.  A native future loses its entry; the words of
\* one of the class are freed, so that nobody may be in a call of it, then
\* or later.
Cancel(f) ==
    /\ f \in made \ cancelled /\ cancelled' = cancelled \cup {f}
    /\ \/ /\ kind[f] = "native"
          /\ futures' = futures \ {f}
          /\ UNCHANGED done
       \/ /\ kind[f] = "class" /\ \A c \in Caller : step[c] = "idle" \/ of[c] # f
          /\ done' = [done EXCEPT ![f] = 1]
          /\ UNCHANGED futures
    /\ UNCHANGED <<kind, result, workers, calling, made, awaits, settled>>

-----------------------------------------------------------------------------
\* Future.await, and each await of all, the one of any, then and thenMap.

CallGoto(c, where) == step' = [step EXCEPT ![c] = where]

Begin(c, f, where) ==
    /\ step[c] = "idle" /\ f \in made
    /\ kind[f] = "native" \/ f \notin cancelled
    /\ of' = [of EXCEPT ![c] = f]
    /\ answer' = [answer EXCEPT ![c] = Null]
    /\ CallGoto(c, where)

Await(c, f) ==
    /\ Begin(c, f, "look")
    /\ awaits' = [awaits EXCEPT ![f] = IF @ < 2 THEN @ + 1 ELSE @]
    /\ UNCHANGED <<cells, workers, local, made, cancelled, settled>>

\* The thread's id; without an entry Null at once.
Look(c) ==
    /\ step[c] = "look"
    /\ IF kind[of[c]] = "native" /\ of[c] \notin futures
       THEN CallGoto(c, "idle") ELSE CallGoto(c, "join")
    /\ UNCHANGED <<cells, workers, of, local, answer, futureHistory>>

\* join takes the thread's entry; without one, and for the 0 that a promise
\* has for a thread, it returns 0.
ThreadJoin(c) ==
    /\ step[c] = "join"
    /\ \/ /\ of[c] \in threads /\ threads' = threads \ {of[c]}
          /\ CallGoto(c, "wait") /\ UNCHANGED local
       \/ /\ of[c] \notin threads /\ UNCHANGED threads
          /\ local' = [local EXCEPT ![c] = 0] /\ CallGoto(c, "store")
    /\ UNCHANGED <<cells, running, sent, of, answer, futureHistory>>

\* Slip: join looks into the channel without waiting for the thread.
JoinedEarly(c) ==
    /\ step[c] = "wait"
    /\ local' = [local EXCEPT ![c] = sent[of[c]]]
    /\ CallGoto(c, "store")
    /\ UNCHANGED <<cells, workers, of, answer, futureHistory>>

\* handle.join and recv: the thread has ended.
Joined(c) ==
    /\ step[c] = "wait" /\ of[c] \notin running
    /\ local' = [local EXCEPT ![c] = sent[of[c]]]
    /\ CallGoto(c, "store")
    /\ UNCHANGED <<cells, workers, of, answer, futureHistory>>

\* Natively the flag and the result, in the entry if it is still there; in
\* the class the word of the result.
StoreResult(c) ==
    /\ step[c] = "store"
    /\ LET f == of[c] IN
       IF kind[f] = "native"
       THEN /\ IF f \in futures
               THEN /\ done' = [done EXCEPT ![f] = 1]
                    /\ result' = [result EXCEPT ![f] = local[c]]
               ELSE UNCHANGED <<done, result>>
            /\ CallGoto(c, "read")
       ELSE /\ result' = [result EXCEPT ![f] = local[c]]
            /\ CallGoto(c, "mark")
            /\ UNCHANGED done
    /\ UNCHANGED <<kind, futures, workers, of, local, answer, futureHistory>>

\* The native await ends with another look at the entry, which may be
\* another await's by now; that of the class sets the flag and returns what
\* its own join gave it.
Answer(c) ==
    /\ \/ /\ step[c] = "read"
          /\ answer' = [answer EXCEPT ![c] = IF of[c] \in futures THEN result[of[c]] ELSE Null]
          /\ UNCHANGED done
       \/ /\ step[c] = "mark"
          /\ answer' = [answer EXCEPT ![c] = local[c]]
          /\ done' = [done EXCEPT ![of[c]] = 1]
    /\ local' = [local EXCEPT ![c] = 0]
    /\ CallGoto(c, "idle")
    /\ UNCHANGED <<kind, futures, result, workers, of, futureHistory>>

-----------------------------------------------------------------------------
\* Promise.resolve and reject: two stores.

Settle(c, f) ==
    /\ Begin(c, f, "settle") /\ kind[f] = "promise"
    /\ \E v \in {Value(f), -Value(f)} :
          /\ local' = [local EXCEPT ![c] = v]
          /\ settled' = [settled EXCEPT ![f] = @ \cup {v}]
    /\ UNCHANGED <<cells, workers, made, cancelled, awaits>>

PutValue(c) ==
    /\ result' = [result EXCEPT ![of[c]] = local[c]]
    /\ UNCHANGED done

PutFlag(c) ==
    /\ done' = [done EXCEPT ![of[c]] = IF local[c] > 0 THEN 1 ELSE -1]
    /\ UNCHANGED result

SettleStep(c) ==
    /\ UNCHANGED <<kind, futures, workers, of, answer, futureHistory>>
    /\ \/ step[c] = "settle" /\ CallGoto(c, "flag") /\ UNCHANGED local
       \/ step[c] = "flag" /\ CallGoto(c, "idle") /\ local' = [local EXCEPT ![c] = 0]

\* Slip: the flag is set before the result.
SettleFlagFirst(c) ==
    /\ SettleStep(c)
    /\ IF step[c] = "settle" THEN PutFlag(c) ELSE PutValue(c)

\* The result, and then the flag.
Store(c) ==
    /\ SettleStep(c)
    /\ IF step[c] = "settle" THEN PutValue(c) ELSE PutFlag(c)

\* Promise.await and tryAwait.
AwaitPromise(c, f) ==
    /\ Begin(c, f, "poll") /\ kind[f] = "promise"
    /\ UNCHANGED <<cells, workers, local, futureHistory>>

\* The flag; while it is 0 await looks again and tryAwait returns -1.
Poll(c) ==
    /\ step[c] = "poll"
    /\ IF done[of[c]] # 0 THEN CallGoto(c, "get") ELSE CallGoto(c, "idle")
    /\ UNCHANGED <<cells, workers, of, local, answer, futureHistory>>

GetValue(c) ==
    /\ step[c] = "get"
    /\ answer' = [answer EXCEPT ![c] = result[of[c]]]
    /\ CallGoto(c, "idle")
    /\ UNCHANGED <<cells, workers, of, local, futureHistory>>

-----------------------------------------------------------------------------
FutureNext ==
    \/ \E f \in Future : Spawn(f) \/ End(f) \/ Cancel(f)
    \/ \E c \in Caller, f \in Future : Await(c, f) \/ Settle(c, f) \/ AwaitPromise(c, f)
    \/ \E c \in Caller :
          \/ Look(c) \/ ThreadJoin(c) \/ Joined(c) \/ StoreResult(c) \/ Answer(c)
          \/ Store(c) \/ Poll(c) \/ GetValue(c)

FutureSpec == FutureInit /\ [][FutureNext]_futureVars

-----------------------------------------------------------------------------
FutureTypeOK ==
    /\ kind \in [Future -> {"native", "class", "promise"}]
    /\ futures \subseteq Future /\ threads \subseteq Future /\ running \subseteq Future
    /\ made \subseteq Future /\ cancelled \subseteq Future
    /\ done \in [Future -> {-1, 0, 1}]
    /\ result \in [Future -> Int] /\ sent \in [Future -> Nat]
    /\ awaits \in [Future -> 0 .. 2]
    /\ step \in [Caller -> {"idle", "look", "join", "wait", "store", "mark", "read",
                            "settle", "flag", "poll", "get"}]
    /\ of \in [Caller -> Future]
    /\ local \in [Caller -> Int] /\ answer \in [Caller -> Int]

\* What an await of a future answers: the only await of one that is not
\* cancelled answers with the result of the function, after its end, and
\* isDone says so; any other answers with that, with 0, or, if it was
\* cancelled, with Null.  (A second await can answer 0 and set the flag while
\* the function still runs, and make a native first answer 0.)
AwaitAnswers ==
    [][\A c \in Caller : Answer(c) /\ kind[of[c]] # "promise" =>
          LET f == of[c] IN
          /\ awaits[f] = 1 /\ f \notin cancelled =>
                f \notin running /\ done'[f] = 1 /\ answer'[c] = sent[f]
          /\ answer'[c] = Null => f \in cancelled
          /\ answer'[c] \notin {0, Null} => f \notin running /\ answer'[c] = sent[f]]_futureVars

\* What an await of a promise answers, unless Future.await was called with
\* it, is what somebody settled it with, although no lock keeps the two
\* stores of a settle and the two loads of an await together; and if nobody
\* settles it otherwise isRejected agrees with it.
PromiseKept ==
    [][\A c \in Caller : GetValue(c) /\ awaits[of[c]] = 0 =>
          LET f == of[c] IN
          /\ answer'[c] \in settled[f]
          /\ settled[f] = {answer'[c]} => (done[f] < 0 <=> answer'[c] < 0)]_futureVars
=============================================================================
