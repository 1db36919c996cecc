--------------------------- MODULE WriterProtocol ---------------------------
(***************************************************************************)
(* The control of the managed tables: the callers of Submit, the callers   *)
(* of Close and the one writer goroutine, which meet at a bounded channel, *)
(* a mutex and channels that are only ever closed.  Their writers come in  *)
(* three shapes, named by how they end:                                    *)
(*   manage  compiledfib, dirlpm and flatlpm: Close closes the channel     *)
(*           stop, under a sync.Once, and manage then takes batch after    *)
(*           batch until it finds the queue empty;                         *)
(*   drain   splitribfib: the same Close, and drain leaves after its first *)
(*           short batch;                                                  *)
(*   range   preorder2: Close closes the queue itself, under submitMu, and *)
(*           the loop over the queue ends when it is empty.                *)
(*                                                                         *)
(* Each member of Request is one call of Submit, made by a goroutine of    *)
(* its own: a caller that submits twice is two requests, and every order   *)
(* of calls is an interleaving.  What a request asks for and what the      *)
(* table holds are added by the modules that extend this one; here a       *)
(* publication only decides whether the rebuild succeeded.                 *)
(***************************************************************************)
EXTENDS Naturals, Sequences, Functions

CONSTANTS
    Request,        \* the Submit calls of a behaviour
    Closer,         \* the Close calls of a behaviour
    QueueSize,      \* routeupdate.Options.QueueSize, after Normalize
    MaxBatchSize,   \* routeupdate.Options.MaxBatchSize, after Normalize
    MaxBatchDelay,  \* routeupdate.Options.MaxBatchDelay: only its sign matters
    Loops,          \* the shapes of the writer's loop
    NoOwner         \* submitMu is free

ASSUME OptionsAssumption ==
    /\ QueueSize \in Nat \ {0}
    /\ MaxBatchSize \in Nat \ {0}
    /\ MaxBatchDelay \in Nat
ASSUME ProcessAssumption ==
    /\ Request \cap Closer = {}
    /\ NoOwner \notin Request \cup Closer
ASSUME LoopAssumption == Loops \subseteq {"manage", "drain", "range"}

VARIABLES
    submit,     \* where each Submit call is
    close,      \* where each Close call is
    submitMu,   \* the holder of the mutex
    closed,     \* the flag that submitMu guards
    closeOnce,  \* the state of the sync.Once
    stop,       \* the channel stop is closed; in a range loop, the queue is
    done,       \* the channel done is closed
    queue,      \* the channel of requests
    loop,       \* the shape of this table's writer, which never changes
    manage,     \* where the writer is
    draining,   \* "no" before stop was taken; "last" when drain will return
    batch,      \* the requests of the batch that are still to be answered
    number,     \* the number of the generation current points to
    result,     \* the writer's result for the batch
    outcome     \* what each request's own channel has received

\* What the steps of the writer leave alone, and what those of callers do.
callVars   == <<loop, submit, close, submitMu, closed, closeOnce, stop>>
writerVars == <<loop, done, manage, draining, batch, number, result>>
protocolVars == <<callVars, writerVars, queue, outcome>>

Err == {"pending", "ok", "ErrBadIP", "ErrClosed", "ErrBuild"}
Result == [generation : Nat, err : Err]
Pending == [generation |-> 0, err |-> "pending"]

SubmitPC == {"idle", "lock", "sending", "refused", "closed", "sent", "returned"}
ClosePC  == {"idle", "once", "lock", "holding", "later", "wait", "returned"}
ManagePC == {"select", "collect", "append", "publish", "count", "notify",
             "drain", "fill", "exited"}

TypeOK ==
    /\ submit \in [Request -> SubmitPC]
    /\ close \in [Closer -> ClosePC]
    /\ submitMu \in Request \cup Closer \cup {NoOwner}
    /\ closed \in BOOLEAN
    /\ closeOnce \in {"new", "running", "ran"}
    /\ stop \in BOOLEAN
    /\ done \in BOOLEAN
    /\ queue \in Seq(Request)
    /\ manage \in ManagePC
    /\ loop \in Loops
    /\ draining \in {"no", "yes", "last"}
    /\ batch \in Seq(Request)
    /\ number \in Nat
    /\ result \in Result
    /\ outcome \in [Request -> Result]

(***************************************************************************)
(* New: the table starts with generation 1 published and the writer        *)
(* waiting for a request.                                                  *)
(***************************************************************************)
ProtocolInit ==
    /\ submit = [r \in Request |-> "idle"]
    /\ close = [c \in Closer |-> "idle"]
    /\ submitMu = NoOwner
    /\ closed = FALSE
    /\ closeOnce = "new"
    /\ stop = FALSE
    /\ done = FALSE
    /\ queue = <<>>
    /\ manage = "select"
    /\ loop \in Loops
    /\ draining = "no"
    /\ batch = <<>>
    /\ number = 1
    /\ result = Pending
    /\ outcome = [r \in Request |-> Pending]

-----------------------------------------------------------------------------
(***************************************************************************)
(* Submit.                                                                 *)
(***************************************************************************)
Answer(r, generation, err) ==
    outcome' = [outcome EXCEPT ![r] = [generation |-> generation, err |-> err]]

\* A prefix that NormalizePrefix refuses: the answer is immediate.
SubmitInvalid(r) ==
    /\ submit[r] = "idle"
    /\ submit' = [submit EXCEPT ![r] = "returned"]
    /\ Answer(r, number, "ErrBadIP")
    /\ UNCHANGED <<close, submitMu, closed, closeOnce, stop, queue, writerVars>>

\* All prefixes normalised: the call goes on to submitMu.Lock.
SubmitNormalized(r) ==
    /\ submit[r] = "idle"
    /\ submit' = [submit EXCEPT ![r] = "lock"]
    /\ UNCHANGED <<close, submitMu, closed, closeOnce, stop, queue, outcome, writerVars>>

\* (Faulty variant: closed is not read under the mutex.)
SubmitLockUnchecked(r) ==
    /\ submit[r] = "lock"
    /\ submitMu = NoOwner
    /\ submitMu' = r
    /\ submit' = [submit EXCEPT ![r] = "sending"]
    /\ UNCHANGED <<close, closed, closeOnce, stop, queue, outcome, writerVars>>

\* Lock returns, and closed is read while the mutex is held.
SubmitLock(r) ==
    /\ submit[r] = "lock"
    /\ submitMu = NoOwner
    /\ submitMu' = r
    /\ submit' = [submit EXCEPT ![r] = IF closed THEN "refused" ELSE "sending"]
    /\ UNCHANGED <<close, closed, closeOnce, stop, queue, outcome, writerVars>>

\* The early return for a closed table: Unlock, and only then load the
\* generation the refusal reports.
SubmitUnlockClosed(r) ==
    /\ submit[r] = "refused"
    /\ submitMu' = NoOwner
    /\ submit' = [submit EXCEPT ![r] = "closed"]
    /\ UNCHANGED <<close, closed, closeOnce, stop, queue, outcome, writerVars>>

SubmitErrClosed(r) ==
    /\ submit[r] = "closed"
    /\ submit' = [submit EXCEPT ![r] = "returned"]
    /\ Answer(r, number, "ErrClosed")
    /\ UNCHANGED <<close, submitMu, closed, closeOnce, stop, queue, writerVars>>

\* queue <- request blocks, with submitMu held, while the channel is full.
SubmitSend(r) ==
    /\ submit[r] = "sending"
    /\ Len(queue) < QueueSize
    /\ queue' = Append(queue, r)
    /\ submit' = [submit EXCEPT ![r] = "sent"]
    /\ UNCHANGED <<close, submitMu, closed, closeOnce, stop, outcome, writerVars>>

SubmitUnlock(r) ==
    /\ submit[r] = "sent"
    /\ submitMu' = NoOwner
    /\ submit' = [submit EXCEPT ![r] = "returned"]
    /\ UNCHANGED <<close, closed, closeOnce, stop, queue, outcome, writerVars>>

\* The steps a Submit call takes once it has normalised its prefixes.
SubmitStep(r) ==
    \/ SubmitLock(r)
    \/ SubmitUnlockClosed(r)
    \/ SubmitErrClosed(r)
    \/ SubmitSend(r)
    \/ SubmitUnlock(r)

-----------------------------------------------------------------------------
(***************************************************************************)
(* Close.  sync.Once: the first caller runs the function, the others block *)
(* until it has returned.  preorder2 has no Once: every caller locks, and  *)
(* the flag tells the later ones apart.                                    *)
(***************************************************************************)
CloseCall(c) ==
    /\ close[c] = "idle"
    /\ close' = [close EXCEPT ![c] = IF loop = "range" THEN "lock" ELSE "once"]
    /\ UNCHANGED <<submit, submitMu, closed, closeOnce, stop, queue, outcome, writerVars>>

CloseOnceFirst(c) ==
    /\ close[c] = "once"
    /\ closeOnce = "new"
    /\ closeOnce' = "running"
    /\ close' = [close EXCEPT ![c] = "lock"]
    /\ UNCHANGED <<submit, submitMu, closed, stop, queue, outcome, writerVars>>

CloseOnceLater(c) ==
    /\ close[c] = "once"
    /\ closeOnce = "ran"
    /\ close' = [close EXCEPT ![c] = "wait"]
    /\ UNCHANGED <<submit, submitMu, closed, closeOnce, stop, queue, outcome, writerVars>>

\* (Faulty variant: the flag is left for a later step.)
CloseLockUnflagged(c) ==
    /\ close[c] = "lock"
    /\ submitMu = NoOwner
    /\ submitMu' = c
    /\ close' = [close EXCEPT ![c] = "holding"]
    /\ UNCHANGED <<submit, closed, closeOnce, stop, queue, outcome, writerVars>>

\* (Faulty variant: the flag is not looked at before the channel is closed.)
CloseLockAgain(c) ==
    /\ close[c] = "lock"
    /\ submitMu = NoOwner
    /\ submitMu' = c
    /\ closed' = TRUE
    /\ close' = [close EXCEPT ![c] = "holding"]
    /\ UNCHANGED <<submit, closeOnce, stop, queue, outcome, writerVars>>

CloseLock(c) ==
    /\ close[c] = "lock"
    /\ submitMu = NoOwner
    /\ submitMu' = c
    /\ closed' = TRUE
    /\ close' = [close EXCEPT ![c] =
                    IF loop = "range" /\ closed THEN "later" ELSE "holding"]
    /\ UNCHANGED <<submit, closeOnce, stop, queue, outcome, writerVars>>

CloseStop(c) ==
    /\ close[c] = "holding"
    /\ stop' = TRUE
    /\ submitMu' = NoOwner
    /\ closeOnce' = "ran"
    /\ close' = [close EXCEPT ![c] = "wait"]
    /\ UNCHANGED <<submit, closed, queue, outcome, writerVars>>

\* preorder2: a caller that finds the flag raised only unlocks.
CloseUnlockLater(c) ==
    /\ close[c] = "later"
    /\ submitMu' = NoOwner
    /\ close' = [close EXCEPT ![c] = "wait"]
    /\ UNCHANGED <<submit, closed, closeOnce, stop, queue, outcome, writerVars>>

CloseReturn(c) ==
    /\ close[c] = "wait"
    /\ done
    /\ close' = [close EXCEPT ![c] = "returned"]
    /\ UNCHANGED <<submit, submitMu, closed, closeOnce, stop, queue, outcome, writerVars>>

CloseStep(c) ==
    \/ CloseOnceFirst(c)
    \/ CloseOnceLater(c)
    \/ CloseLock(c)
    \/ CloseStop(c)
    \/ CloseUnlockLater(c)
    \/ CloseReturn(c)

-----------------------------------------------------------------------------
(***************************************************************************)
(* The writer goroutine.  A select with several ready cases takes any of   *)
(* them.                                                                   *)
(***************************************************************************)
Receive ==
    /\ queue # <<>>
    /\ batch' = Append(batch, Head(queue))
    /\ queue' = Tail(queue)

\* The outer select, or the range over the queue, takes a request and enters
\* collect.
ManageFirst ==
    /\ manage = "select"
    /\ Receive
    /\ manage' = IF MaxBatchDelay = 0 THEN "append" ELSE "collect"
    /\ UNCHANGED <<done, draining, number, result, outcome, callVars>>

\* (Faulty variant: the writer leaves at stop without draining.)
ManageStopAtOnce ==
    /\ manage = "select"
    /\ stop
    /\ manage' = "exited"
    /\ done' = TRUE
    /\ draining' = "yes"
    /\ UNCHANGED <<batch, queue, number, result, outcome, callVars>>

\* stop is taken: manage enters its second loop, writer calls drain.
ManageStop ==
    /\ loop # "range"
    /\ manage = "select"
    /\ stop
    /\ manage' = IF loop = "manage" THEN "drain" ELSE "fill"
    /\ draining' = "yes"
    /\ UNCHANGED <<done, batch, queue, number, result, outcome, callVars>>

\* manage's loop after stop: take what is queued, or return and close(done).
DrainFirst ==
    /\ manage = "drain"
    /\ Receive
    /\ manage' = "append"
    /\ UNCHANGED <<done, draining, number, result, outcome, callVars>>

\* (Faulty variant: done is not closed.)
DrainReturnSilently ==
    /\ manage = "drain"
    /\ queue = <<>>
    /\ manage' = "exited"
    /\ UNCHANGED <<done, draining, batch, queue, number, result, outcome, callVars>>

DrainReturn ==
    /\ manage = "drain"
    /\ queue = <<>>
    /\ manage' = "exited"
    /\ done' = TRUE
    /\ UNCHANGED <<draining, batch, queue, number, result, outcome, callVars>>

\* drain of splitribfib fills a batch without waiting.  It returns when it finds
\* the queue empty, after the batch it then has: nobody sends any more.
FillReceive ==
    /\ manage = "fill"
    /\ Len(batch) < MaxBatchSize
    /\ Receive
    /\ UNCHANGED <<manage, done, draining, number, result, outcome, callVars>>

FillFull ==
    /\ manage = "fill"
    /\ Len(batch) >= MaxBatchSize
    /\ manage' = "publish"
    /\ UNCHANGED <<done, draining, batch, queue, number, result, outcome, callVars>>

FillShort ==
    /\ manage = "fill"
    /\ Len(batch) < MaxBatchSize
    /\ queue = <<>>
    /\ batch # <<>>
    /\ manage' = "publish"
    /\ draining' = "last"
    /\ UNCHANGED <<done, batch, queue, number, result, outcome, callVars>>

FillEmpty ==
    /\ manage = "fill"
    /\ queue = <<>>
    /\ batch = <<>>
    /\ manage' = "exited"
    /\ done' = TRUE
    /\ UNCHANGED <<draining, batch, queue, number, result, outcome, callVars>>

\* preorder2: the range over a closed queue ends when the queue is empty.
RangeReturn ==
    /\ loop = "range"
    /\ manage = "select"
    /\ stop
    /\ queue = <<>>
    /\ manage' = "exited"
    /\ done' = TRUE
    /\ UNCHANGED <<draining, batch, queue, number, result, outcome, callVars>>

\* collect: wait for more requests until the batch is full, the timer fires
\* or stop is closed.
CollectReceive ==
    /\ manage = "collect"
    /\ Len(batch) < MaxBatchSize
    /\ Receive
    /\ UNCHANGED <<manage, done, draining, number, result, outcome, callVars>>

CollectTimer ==
    /\ manage = "collect"
    /\ Len(batch) < MaxBatchSize
    /\ manage' = "publish"
    /\ UNCHANGED <<done, draining, batch, queue, number, result, outcome, callVars>>

\* (Faulty variant: collect abandons its batch at stop.)
CollectStopAbandons ==
    /\ manage = "collect"
    /\ Len(batch) < MaxBatchSize
    /\ stop
    /\ batch' = <<>>
    /\ manage' = "append"
    /\ UNCHANGED <<done, draining, queue, number, result, outcome, callVars>>

\* manage flushes what is queued, splitribfib does not, and a closed queue is
\* ready for preorder2 only when it is empty.
CollectStop ==
    /\ manage = "collect"
    /\ Len(batch) < MaxBatchSize
    /\ stop
    /\ loop = "range" => queue = <<>>
    /\ manage' = IF loop = "manage" THEN "append" ELSE "publish"
    /\ UNCHANGED <<done, draining, batch, queue, number, result, outcome, callVars>>

CollectFull ==
    /\ manage = "collect"
    /\ Len(batch) >= MaxBatchSize
    /\ manage' = "publish"
    /\ UNCHANGED <<done, draining, batch, queue, number, result, outcome, callVars>>

\* appendQueued: never blocks, stops at MaxBatchSize or at an empty channel.
AppendReceive ==
    /\ manage = "append"
    /\ Len(batch) < MaxBatchSize
    /\ Receive
    /\ UNCHANGED <<manage, done, draining, number, result, outcome, callVars>>

AppendReturn ==
    /\ manage = "append"
    /\ Len(batch) >= MaxBatchSize \/ queue = <<>>
    /\ manage' = "publish"
    /\ UNCHANGED <<done, draining, batch, queue, number, result, outcome, callVars>>

\* (Faulty variants: the answer is made before the Store; a number for every
\* request.)
PublishUnstored(built) ==
    /\ manage = "publish"
    /\ number' = number
    /\ result' = [generation |-> number + 1, err |-> IF built THEN "ok" ELSE "ErrBuild"]
    /\ manage' = IF built THEN "count" ELSE "notify"
    /\ UNCHANGED <<done, draining, batch, queue, outcome, callVars>>
PublishEach(built) ==
    /\ manage = "publish"
    /\ number' = number + Len(batch)
    /\ result' = [generation |-> number + Len(batch), err |-> "ok"]
    /\ manage' = "count"
    /\ UNCHANGED <<done, draining, batch, queue, outcome, callVars>>

\* publish up to and including current.Store: one new generation for the
\* whole batch, or none when the rebuild fails.  process of splitribfib counts
\* nothing.
Publish(built) ==
    /\ manage = "publish"
    /\ IF built
       THEN /\ number' = number + 1
            /\ result' = [generation |-> number + 1, err |-> "ok"]
            /\ manage' = IF loop = "drain" THEN "notify" ELSE "count"
       ELSE /\ number' = number
            /\ result' = [generation |-> number, err |-> "ErrBuild"]
            /\ manage' = "notify"
    /\ UNCHANGED <<done, draining, batch, queue, outcome, callVars>>

\* the statistics are counted after the Store and before the answers.
CountPublication ==
    /\ manage = "count"
    /\ manage' = "notify"
    /\ UNCHANGED <<done, draining, batch, queue, number, result, outcome, callVars>>

\* (Faulty variant: the batch is not reset.)
NotifyKeeps ==
    /\ manage = "notify"
    /\ batch # <<>>
    /\ Answer(Head(batch), result.generation, result.err)
    /\ UNCHANGED <<done, draining, manage, batch, queue, number, result, callVars>>

\* the loop over the batch: each request's own channel gets the same result.
Notify ==
    /\ manage = "notify"
    /\ batch # <<>>
    /\ Answer(Head(batch), result.generation, result.err)
    /\ batch' = Tail(batch)
    /\ UNCHANGED <<done, draining, manage, queue, number, result, callVars>>

\* publish returns to whichever loop called it.
PublishReturn ==
    /\ manage = "notify"
    /\ batch = <<>>
    /\ draining # "last"
    /\ manage' = CASE draining = "no" -> "select"
                   [] draining = "yes" /\ loop = "manage" -> "drain"
                   [] OTHER -> "fill"
    /\ UNCHANGED <<done, draining, batch, queue, number, result, outcome, callVars>>

\* process returns to drain, which returns to writer, which closes done.
LastReturn ==
    /\ manage = "notify"
    /\ batch = <<>>
    /\ draining = "last"
    /\ manage' = "exited"
    /\ done' = TRUE
    /\ UNCHANGED <<draining, batch, queue, number, result, outcome, callVars>>

\* The writer's steps other than publish.
Collect ==
    \/ ManageFirst \/ ManageStop \/ DrainFirst \/ DrainReturn
    \/ FillReceive \/ FillFull \/ FillShort \/ FillEmpty
    \/ RangeReturn \/ LastReturn
    \/ CollectReceive \/ CollectTimer \/ CollectStop \/ CollectFull
    \/ AppendReceive \/ AppendReturn
    \/ Notify \/ PublishReturn

Writer == Collect \/ CountPublication \/ \E built \in BOOLEAN : Publish(built)

Next ==
    \/ \E r \in Request : SubmitInvalid(r) \/ SubmitNormalized(r) \/ SubmitStep(r)
    \/ \E c \in Closer : CloseCall(c) \/ CloseStep(c)
    \/ Writer

Spec == ProtocolInit /\ [][Next]_protocolVars

(***************************************************************************)
(* The Go scheduler runs every runnable goroutine, and an armed timer      *)
(* fires: weak fairness for the writer and for each call that has begun.   *)
(* Nobody is obliged to call Submit or Close.                              *)
(***************************************************************************)
Fairness ==
    /\ WF_protocolVars(Writer)
    /\ \A r \in Request : WF_protocolVars(SubmitStep(r))
    /\ \A c \in Closer : WF_protocolVars(CloseStep(c))

FairSpec == Spec /\ Fairness

-----------------------------------------------------------------------------
(***************************************************************************)
(* Properties.                                                             *)
(***************************************************************************)
InQueue(r) == r \in Range(queue)
InBatch(r) == r \in Range(batch)
Answered(r) == outcome[r].err # "pending"

\* A request that Submit put on the channel and whose caller is waiting for
\* the writer's answer is in the channel or in the writer's batch: it is
\* never dropped, whatever Close, the timer and MaxBatchSize do (Submit,
\* collect, appendQueued, publish).
NoRequestLost ==
    \A r \in Request :
        submit[r] \in {"sent", "returned"} /\ ~Answered(r) => InQueue(r) \/ InBatch(r)

\* A request that the writer still holds or that is still queued has not been
\* answered, and is held at one place only: a second send on its closed
\* channel (publish's loop over the batch) would panic.
AnsweredOnce ==
    /\ \A r \in Request : InQueue(r) \/ InBatch(r) => ~Answered(r)
    /\ \A r \in Request : ~(InQueue(r) /\ InBatch(r))
    /\ IsInjective(queue)
    /\ IsInjective(batch)

\* Close "waits for queued work to publish": once done is closed, every Submit
\* that was not refused has its answer, and none can be put on a channel that
\* nobody reads any more.
CloseDrains ==
    done =>
        /\ queue = <<>>
        /\ \A r \in Request :
              /\ submit[r] # "sending"
              /\ submit[r] \in {"sent", "returned"} => Answered(r)

\* No channel is closed twice and, where the queue is what Close closes, nobody
\* sends on it afterwards: either would panic, in the goroutine of a caller that
\* did nothing wrong (Submit and Close of preorder2, the Once of the others).
ChannelsStayLegal ==
    /\ \A c \in Closer : close[c] = "holding" => ~stop
    /\ stop => \A r \in Request : submit[r] # "sending"

\* A caller that has been told a generation can already load it: the answer
\* is sent after current.Store, and the number never goes back.
AnswerIsPublished ==
    \A r \in Request : outcome[r].generation <= number

\* The published number only ever moves to its successor, and an answer, once
\* sent, is never changed.
MonotoneStep ==
    /\ number' \in {number, number + 1}
    /\ \A r \in Request : Answered(r) => outcome'[r] = outcome[r]
Monotone == [][MonotoneStep]_protocolVars

\* Every Submit returns and its channel receives an answer, although Submit
\* blocks on a full channel with submitMu held and Close waits for submitMu.
SubmitAnswered ==
    \A r \in Request : submit[r] # "idle" ~> submit[r] = "returned" /\ Answered(r)

\* Every Close returns.
CloseReturns ==
    \A c \in Closer : close[c] # "idle" ~> close[c] = "returned"

-----------------------------------------------------------------------------
(***************************************************************************)
(* Why the safety properties hold: the parts of the inductive invariant.   *)
(***************************************************************************)

\* submitMu is held by exactly the call that is between its Lock and its
\* Unlock, and closed is raised before stop, under the mutex: once it is set
\* no Submit is on its way to the channel.
MutexInv ==
    /\ \A r \in Request : submit[r] \in {"sending", "refused", "sent"} <=> submitMu = r
    /\ \A c \in Closer : close[c] \in {"holding", "later"} <=> submitMu = c
    /\ \A c \in Closer : close[c] \in {"holding", "later"} => closed
    /\ stop => closed
    /\ closed => \A r \in Request : submit[r] \notin {"sending", "sent"}

\* Only one call ever closes stop: the one that the Once runs or, without a Once,
\* the one that raised the flag.
OnceInv ==
    /\ \A c \in Closer : close[c] = "holding" => ~stop
    /\ loop # "range" =>
          /\ stop => closeOnce = "ran"
          /\ \A c \in Closer : close[c] \in {"lock", "holding"} => closeOnce = "running"
          /\ \A c, d \in Closer :
                close[c] \in {"lock", "holding"} /\ close[d] \in {"lock", "holding"} => c = d

\* The writer drains only after stop, leaves only when it has seen the channel
\* empty after that, and holds a batch only between receiving and notifying.
WriterInv ==
    /\ draining # "no" => stop
    /\ manage \in {"drain", "fill", "exited"} => stop
    /\ done <=> manage = "exited"
    /\ manage = "exited" \/ draining = "last" => queue = <<>>
    /\ manage \in {"select", "drain", "exited"} => batch = <<>>

\* A request is in the writer's custody, queued or in the batch, exactly from
\* its send until its answer.
CustodyInv ==
    /\ AnsweredOnce
    /\ NoRequestLost
    /\ \A r \in Request : InQueue(r) \/ InBatch(r) => submit[r] \in {"sent", "returned"}
    /\ \A r \in Request : Answered(r) => submit[r] \in {"sent", "returned"}

\* The result that is being handed out is an answer and is published.
ResultInv ==
    /\ manage \in {"count", "notify"} => result.err # "pending"
    /\ result.generation <= number
    /\ AnswerIsPublished

\* The inductive invariant of the control of Submit, Close and the writer.
Inv == TypeOK /\ MutexInv /\ OnceInv /\ WriterInv /\ CustodyInv /\ ResultInv

-----------------------------------------------------------------------------
(***************************************************************************)
(* What publish makes of a batch, in every package: mutations are records  *)
(* with a prefix, a value and the flag delete, in the order of their       *)
(* requests; a table is a function from prefixes to values.                *)
(***************************************************************************)
\* The prefixes of the mutations at the places s, and the last one of them for p.
Named(all, s) == {all[i].prefix : i \in s}
LastFor(all, s, p) ==
    all[CHOOSE i \in s : all[i].prefix = p /\ \A j \in s : all[j].prefix = p => j <= i]

\* Coalescing: the last mutation for a prefix wins.
LastOnes(all) == [p \in Named(all, DOMAIN all) |-> LastFor(all, DOMAIN all, p)]

\* A map overwritten by another, without the prefixes in gone.
Overwrite(map, new, gone) ==
    [p \in (DOMAIN map \cup DOMAIN new) \ gone |->
        IF p \in DOMAIN new THEN new[p] ELSE map[p]]

\* The loop over the coalesced mutations, on a copy of the catalogue.
Amended(map, changes) ==
    Overwrite(map, [p \in {q \in DOMAIN changes : ~changes[q].delete} |-> changes[p].value],
              {p \in DOMAIN changes : changes[p].delete})

\* One mutation, on a table.
Applied(values, m) ==
    IF m.delete THEN Overwrite(values, <<>>, {m.prefix})
    ELSE Overwrite(values, [p \in {m.prefix} |-> m.value], {})

-----------------------------------------------------------------------------
(***************************************************************************)
(* The control as RouteTable sees it: the queue and the batch that is not  *)
(* stored yet are the backlog, and the Store decides on a request.         *)
(***************************************************************************)
Stored == manage \in {"count", "notify"}
Accepted(r) ==
    /\ submit[r] \in {"sent", "returned"}
    /\ outcome[r].err \notin {"ErrBadIP", "ErrClosed"}
Backlog == IF Stored THEN queue ELSE batch \o queue
Fate == [r \in Request |-> IF Stored /\ InBatch(r) THEN result ELSE outcome[r]]

\* An open request has no answer at all, no empty batch is published, and the
\* writer's answers are not those of Submit.
OpenInv ==
    /\ \A r \in Request : ~Answered(r) => outcome[r] = Pending
    /\ manage \in {"collect", "append", "publish"} => batch # <<>>
    /\ manage \in {"count", "notify"} => result.err \in {"ok", "ErrBuild"}
=============================================================================
