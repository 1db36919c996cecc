------------------------ MODULE WriterProtocolProofs ------------------------
(***************************************************************************)
(* Proofs about WriterProtocol, for every set of Submit and Close calls,   *)
(* every queue and batch size and every delay.                             *)
(***************************************************************************)
EXTENDS WriterProtocol, Foundations

-----------------------------------------------------------------------------
(* Sequences. *)

\* The elements after an append, as in queue <- request and append(batch, ...).
LEMMA RangeOfAppend ==
    ASSUME NEW S, NEW s \in Seq(S), NEW e \in S
    PROVE  Range(Append(s, e)) = Range(s) \cup {e}
<1>1. /\ Append(s, e) \in Seq(S)
      /\ Len(Append(s, e)) = Len(s) + 1
      /\ \A i \in 1 .. Len(s) : Append(s, e)[i] = s[i]
      /\ Append(s, e)[Len(s) + 1] = e
      /\ Len(s) \in Nat
  BY AppendProperties, LenProperties
<1>2. /\ Range(s) = {s[i] : i \in 1 .. Len(s)}
      /\ Range(Append(s, e)) = {Append(s, e)[i] : i \in 1 .. Len(s) + 1}
  BY <1>1, RangeEquality
<1>3. 1 .. Len(s) + 1 = 1 .. Len(s) \cup {Len(s) + 1}
  BY <1>1
<1> QED BY <1>1, <1>2, <1>3

\* Appending what a sequence does not hold yet leaves it without duplicates.
LEMMA InjectiveAppend ==
    ASSUME NEW S, NEW s \in Seq(S), NEW e \in S, IsInjective(s), e \notin Range(s)
    PROVE  IsInjective(Append(s, e))
<1>1. /\ DOMAIN Append(s, e) = 1 .. Len(s) + 1
      /\ DOMAIN s = 1 .. Len(s)
      /\ \A i \in 1 .. Len(s) : Append(s, e)[i] = s[i]
      /\ Append(s, e)[Len(s) + 1] = e
      /\ Len(s) \in Nat
  BY AppendProperties, LenProperties
<1>2. \A i \in 1 .. Len(s) : s[i] # e
  BY <1>1 DEF Range
<1> QED BY <1>1, <1>2 DEF IsInjective

\* The elements of a sequence are its head and those of its tail.
LEMMA RangeOfTail ==
    ASSUME NEW S, NEW s \in Seq(S), s # <<>>
    PROVE  /\ Head(s) \in S
           /\ Tail(s) \in Seq(S)
           /\ Range(s) = {Head(s)} \cup Range(Tail(s))
<1>1. /\ Head(s) \in S
      /\ Tail(s) \in Seq(S)
      /\ Len(Tail(s)) = Len(s) - 1
      /\ \A i \in 1 .. Len(Tail(s)) : Tail(s)[i] = s[i + 1]
  BY HeadTailProperties
<1>2. /\ Len(s) \in Nat \ {0}
      /\ Head(s) = s[1]
      /\ Range(s) = {s[i] : i \in 1 .. Len(s)}
      /\ Range(Tail(s)) = {Tail(s)[i] : i \in 1 .. Len(Tail(s))}
  <2>1. Len(s) \in Nat \ {0} /\ Head(s) = s[1]
    BY EmptySeq
  <2>2. Range(s) = {s[i] : i \in 1 .. Len(s)}
    BY RangeEquality
  <2>3. Range(Tail(s)) = {Tail(s)[i] : i \in 1 .. Len(Tail(s))}
    BY <1>1, RangeEquality
  <2> QED BY <2>1, <2>2, <2>3
<1>3. ASSUME NEW i \in 1 .. Len(s)
      PROVE  s[i] \in {Head(s)} \cup Range(Tail(s))
  <2>1. CASE i = 1
    BY <2>1, <1>2
  <2>2. CASE i # 1
    <3>1. i - 1 \in 1 .. Len(Tail(s))
      BY <1>1, <1>2, <2>2
    <3>2. Tail(s)[i - 1] = s[i]
      BY <1>1, <3>1
    <3> QED BY <3>1, <3>2, <1>2
  <2> QED BY <2>1, <2>2
<1>4. ASSUME NEW i \in 1 .. Len(Tail(s))
      PROVE  Tail(s)[i] \in Range(s)
  <2>1. i + 1 \in 1 .. Len(s) /\ Tail(s)[i] = s[i + 1]
    BY <1>1, <1>2
  <2> QED BY <2>1, <1>2
<1>5. Head(s) \in Range(s)
  BY <1>2
<1> QED BY <1>1, <1>2, <1>3, <1>4, <1>5

\* Taking the head of a sequence without duplicates takes it for good.
LEMMA InjectiveTail ==
    ASSUME NEW S, NEW s \in Seq(S), s # <<>>, IsInjective(s)
    PROVE  IsInjective(Tail(s)) /\ Head(s) \notin Range(Tail(s))
<1>1. /\ Tail(s) \in Seq(S)
      /\ DOMAIN s = 1 .. Len(s)
      /\ DOMAIN Tail(s) = 1 .. Len(Tail(s))
      /\ Len(s) \in Nat \ {0}
      /\ Len(Tail(s)) = Len(s) - 1
      /\ \A i \in 1 .. Len(Tail(s)) : Tail(s)[i] = s[i + 1]
      /\ Head(s) = s[1]
  BY HeadTailProperties, LenProperties, EmptySeq
<1>2. \A i, j \in 1 .. Len(s) : s[i] = s[j] => i = j
  BY <1>1 DEF IsInjective
<1>3. \A i \in 1 .. Len(Tail(s)) : i + 1 \in 1 .. Len(s) /\ i + 1 # 1
  BY <1>1
<1>4. \A i \in DOMAIN Tail(s) : Tail(s)[i] # Head(s)
  BY <1>1, <1>2, <1>3
<1>5. ASSUME NEW i \in DOMAIN Tail(s), NEW j \in DOMAIN Tail(s), Tail(s)[i] = Tail(s)[j]
      PROVE  i = j
  <2>1. s[i + 1] = s[j + 1]
    BY <1>1, <1>5
  <2>2. i + 1 = j + 1
    BY <1>1, <1>2, <1>3, <2>1
  <2> QED BY <1>1, <2>2
<1> QED BY <1>4, <1>5 DEF IsInjective, Range

-----------------------------------------------------------------------------
(* Types. *)

\* A receive leaves a channel and a batch of requests.
LEMMA ReceiveTypes ==
    ASSUME TypeOK, Receive
    PROVE  queue' \in Seq(Request) /\ batch' \in Seq(Request)
BY RangeOfTail, AppendProperties DEF TypeOK, Receive

\* New starts with every variable in its type.
LEMMA InitTypes == ProtocolInit => TypeOK
<1> SUFFICES ASSUME ProtocolInit PROVE TypeOK
  OBVIOUS
<1>1. <<>> \in Seq(Request)
  BY EmptySeq
<1> QED BY <1>1 DEF ProtocolInit, TypeOK, SubmitPC, ClosePC, ManagePC, Pending,
    Result, Err

\* No step of Submit, Close or manage leaves the types.
LEMMA StepTypes == TypeOK /\ [Next]_protocolVars => TypeOK'
<1> SUFFICES ASSUME TypeOK, [Next]_protocolVars PROVE TypeOK'
  OBVIOUS
<1> USE DEF TypeOK, callVars, writerVars
<1>1. ASSUME NEW r \in Request, SubmitInvalid(r) PROVE TypeOK'
  BY <1>1 DEF SubmitInvalid, SubmitPC, Answer, Result, Err
<1>2. ASSUME NEW r \in Request, SubmitNormalized(r) PROVE TypeOK'
  BY <1>2 DEF SubmitNormalized, SubmitPC
<1>3. ASSUME NEW r \in Request, SubmitLock(r) PROVE TypeOK'
  BY <1>3 DEF SubmitLock, SubmitPC
<1>4. ASSUME NEW r \in Request, SubmitUnlockClosed(r) PROVE TypeOK'
  BY <1>4 DEF SubmitUnlockClosed, SubmitPC
<1>5. ASSUME NEW r \in Request, SubmitErrClosed(r) PROVE TypeOK'
  BY <1>5 DEF SubmitErrClosed, SubmitPC, Answer, Result, Err
<1>6. ASSUME NEW r \in Request, SubmitSend(r) PROVE TypeOK'
  BY <1>6, AppendProperties DEF SubmitSend, SubmitPC
<1>7. ASSUME NEW r \in Request, SubmitUnlock(r) PROVE TypeOK'
  BY <1>7 DEF SubmitUnlock, SubmitPC
<1>8. ASSUME NEW c \in Closer, CloseCall(c) PROVE TypeOK'
  BY <1>8 DEF CloseCall, ClosePC
<1>9. ASSUME NEW c \in Closer, CloseOnceFirst(c) PROVE TypeOK'
  BY <1>9 DEF CloseOnceFirst, ClosePC
<1>10. ASSUME NEW c \in Closer, CloseOnceLater(c) PROVE TypeOK'
  BY <1>10 DEF CloseOnceLater, ClosePC
<1>11. ASSUME NEW c \in Closer, CloseLock(c) PROVE TypeOK'
  BY <1>11 DEF CloseLock, ClosePC
<1>12. ASSUME NEW c \in Closer, CloseStop(c) PROVE TypeOK'
  BY <1>12 DEF CloseStop, ClosePC
<1>13. ASSUME NEW c \in Closer, CloseReturn(c) PROVE TypeOK'
  BY <1>13 DEF CloseReturn, ClosePC
<1>14. CASE ManageFirst
  BY <1>14, ReceiveTypes DEF ManageFirst, ManagePC, Receive
<1>15. CASE ManageStop
  BY <1>15 DEF ManageStop, ManagePC
<1>16. CASE DrainFirst
  BY <1>16, ReceiveTypes DEF DrainFirst, ManagePC, Receive
<1>17. CASE DrainReturn
  BY <1>17 DEF DrainReturn, ManagePC
<1>18. CASE CollectReceive
  BY <1>18, ReceiveTypes DEF CollectReceive, ManagePC, Receive
<1>19. CASE CollectTimer
  BY <1>19 DEF CollectTimer, ManagePC
<1>20. CASE CollectStop
  BY <1>20 DEF CollectStop, ManagePC
<1>21. CASE CollectFull
  BY <1>21 DEF CollectFull, ManagePC
<1>22. CASE AppendReceive
  BY <1>22, ReceiveTypes DEF AppendReceive, ManagePC, Receive
<1>23. CASE AppendReturn
  BY <1>23 DEF AppendReturn, ManagePC
<1>24. ASSUME NEW built \in BOOLEAN, Publish(built) PROVE TypeOK'
  BY <1>24 DEF Publish, ManagePC, Result, Err
<1>25. CASE CountPublication
  BY <1>25 DEF CountPublication, ManagePC
<1>26. CASE Notify
  BY <1>26, RangeOfTail DEF Notify, Answer, Result, Err
<1>27. CASE PublishReturn
  BY <1>27 DEF PublishReturn, ManagePC
<1>28. CASE UNCHANGED protocolVars
  BY <1>28 DEF protocolVars
<1>29. ASSUME NEW c \in Closer, CloseUnlockLater(c) PROVE TypeOK'
  BY <1>29 DEF CloseUnlockLater, ClosePC
<1>30. CASE FillReceive
  BY <1>30, ReceiveTypes DEF FillReceive, ManagePC, Receive
<1>31. CASE FillFull
  BY <1>31 DEF FillFull, ManagePC
<1>32. CASE FillShort
  BY <1>32 DEF FillShort, ManagePC
<1>33. CASE FillEmpty
  BY <1>33 DEF FillEmpty, ManagePC
<1>34. CASE RangeReturn
  BY <1>34 DEF RangeReturn, ManagePC
<1>35. CASE LastReturn
  BY <1>35 DEF LastReturn, ManagePC
<1> QED
  BY <1>1, <1>2, <1>3, <1>4, <1>5, <1>6, <1>7, <1>8, <1>9, <1>10, <1>11,
      <1>12, <1>13, <1>14, <1>15, <1>16, <1>17, <1>18, <1>19, <1>20, <1>21,
      <1>22, <1>23, <1>24, <1>25, <1>26, <1>27, <1>28, <1>29, <1>30, <1>31,
      <1>32, <1>33, <1>34, <1>35
  DEF Next, SubmitStep, CloseStep, Writer, Collect

\* Every variable stays in its type: the writer is at one of its places, the
\* channel and the batch hold requests, an answer is one of those the code
\* gives (TypeOK).
THEOREM TypeCorrect == Spec => []TypeOK
BY InitTypes, StepTypes, PTL DEF Spec
-----------------------------------------------------------------------------
(* The mutex, the flag and the two channels. *)

\* New starts with the mutex free and the table open.
LEMMA InitMutex == ProtocolInit => MutexInv
BY ProcessAssumption DEF ProtocolInit, MutexInv

\* The writer changes nothing that the mutex, the flag and stop are about.
LEMMA WriterLeavesCalls == Writer => UNCHANGED callVars
BY DEF Writer, Collect, ManageFirst, ManageStop, DrainFirst, DrainReturn,
    FillReceive, FillFull, FillShort, FillEmpty, RangeReturn, LastReturn,
    CollectReceive, CollectTimer, CollectStop, CollectFull, AppendReceive,
    AppendReturn, Publish, CountPublication, Notify, PublishReturn

\* Lock and Unlock keep the mutex with one call, and Close raises the flag
\* before it closes stop.
LEMMA StepMutex == TypeOK /\ MutexInv /\ [Next]_protocolVars => MutexInv'
<1> SUFFICES ASSUME TypeOK, MutexInv, [Next]_protocolVars PROVE MutexInv'
  OBVIOUS
<1> USE ProcessAssumption DEF TypeOK, MutexInv
<1>1. ASSUME NEW r \in Request, SubmitInvalid(r) PROVE MutexInv'
  BY <1>1 DEF SubmitInvalid, SubmitPC
<1>2. ASSUME NEW r \in Request, SubmitNormalized(r) PROVE MutexInv'
  BY <1>2 DEF SubmitNormalized, SubmitPC
<1>3. ASSUME NEW r \in Request, SubmitLock(r) PROVE MutexInv'
  BY <1>3 DEF SubmitLock, SubmitPC
<1>4. ASSUME NEW r \in Request, SubmitUnlockClosed(r) PROVE MutexInv'
  BY <1>4 DEF SubmitUnlockClosed, SubmitPC
<1>5. ASSUME NEW r \in Request, SubmitErrClosed(r) PROVE MutexInv'
  BY <1>5 DEF SubmitErrClosed, SubmitPC
<1>6. ASSUME NEW r \in Request, SubmitSend(r) PROVE MutexInv'
  BY <1>6 DEF SubmitSend, SubmitPC
<1>7. ASSUME NEW r \in Request, SubmitUnlock(r) PROVE MutexInv'
  BY <1>7 DEF SubmitUnlock, SubmitPC
<1>8. ASSUME NEW c \in Closer, CloseCall(c) PROVE MutexInv'
  BY <1>8 DEF CloseCall, ClosePC
<1>9. ASSUME NEW c \in Closer, CloseOnceFirst(c) PROVE MutexInv'
  BY <1>9 DEF CloseOnceFirst, ClosePC
<1>10. ASSUME NEW c \in Closer, CloseOnceLater(c) PROVE MutexInv'
  BY <1>10 DEF CloseOnceLater, ClosePC
<1>11. ASSUME NEW c \in Closer, CloseLock(c) PROVE MutexInv'
  BY <1>11 DEF CloseLock, ClosePC
<1>12. ASSUME NEW c \in Closer, CloseStop(c) PROVE MutexInv'
  BY <1>12 DEF CloseStop, ClosePC
<1>13. ASSUME NEW c \in Closer, CloseReturn(c) PROVE MutexInv'
  BY <1>13 DEF CloseReturn, ClosePC
<1>14. CASE Writer
  BY <1>14, WriterLeavesCalls DEF callVars
<1>15. CASE UNCHANGED protocolVars
  BY <1>15 DEF protocolVars, callVars
<1>16. ASSUME NEW c \in Closer, CloseUnlockLater(c) PROVE MutexInv'
  BY <1>16 DEF CloseUnlockLater, ClosePC
<1> QED
  BY <1>1, <1>2, <1>3, <1>4, <1>5, <1>6, <1>7, <1>8, <1>9, <1>10, <1>11,
      <1>12, <1>13, <1>14, <1>15, <1>16
  DEF Next, SubmitStep, CloseStep

-----------------------------------------------------------------------------
(* Who closes stop. *)

\* At first nobody has called Close.
LEMMA InitOnce == ProtocolInit => OnceInv
BY DEF ProtocolInit, OnceInv

\* Submit never touches what Close decides with.
LEMMA SubmitLeavesOnce ==
    ASSUME NEW r \in Request, SubmitInvalid(r) \/ SubmitNormalized(r) \/ SubmitStep(r)
    PROVE  UNCHANGED <<loop, close, closeOnce, stop>>
BY DEF SubmitStep, SubmitInvalid, SubmitNormalized, SubmitLock, SubmitUnlockClosed,
    SubmitErrClosed, SubmitSend, SubmitUnlock, writerVars

\* The Once lets one call through to the mutex, and without it the flag, read
\* and raised under the mutex, lets one call through to stop.
LEMMA StepOnce == TypeOK /\ MutexInv /\ OnceInv /\ [Next]_protocolVars => OnceInv'
<1> SUFFICES ASSUME TypeOK, MutexInv, OnceInv, [Next]_protocolVars PROVE OnceInv'
  OBVIOUS
<1> USE DEF TypeOK, OnceInv, writerVars
<1>0. ASSUME UNCHANGED <<loop, close, closeOnce, stop>> PROVE OnceInv'
  BY <1>0
<1>1. ASSUME NEW r \in Request, SubmitInvalid(r) \/ SubmitNormalized(r) \/ SubmitStep(r)
      PROVE  OnceInv'
  BY <1>0, <1>1, SubmitLeavesOnce
<1>2. ASSUME NEW c \in Closer, CloseCall(c) PROVE OnceInv'
  BY <1>2 DEF CloseCall, ClosePC
<1>3. ASSUME NEW c \in Closer, CloseOnceFirst(c) PROVE OnceInv'
  BY <1>3 DEF CloseOnceFirst, ClosePC
<1>4. ASSUME NEW c \in Closer, CloseOnceLater(c) PROVE OnceInv'
  BY <1>4 DEF CloseOnceLater, ClosePC
<1>5. ASSUME NEW c \in Closer, CloseLock(c) PROVE OnceInv'
  BY <1>5 DEF CloseLock, ClosePC, MutexInv
<1>6. ASSUME NEW c \in Closer, CloseStop(c) PROVE OnceInv'
  BY <1>6 DEF CloseStop, ClosePC, MutexInv
<1>7. ASSUME NEW c \in Closer, CloseUnlockLater(c) PROVE OnceInv'
  BY <1>7 DEF CloseUnlockLater, ClosePC
<1>8. ASSUME NEW c \in Closer, CloseReturn(c) PROVE OnceInv'
  BY <1>8 DEF CloseReturn, ClosePC
<1>9. CASE Writer
  BY <1>0, <1>9, WriterLeavesCalls DEF callVars
<1>10. CASE UNCHANGED protocolVars
  BY <1>0, <1>10 DEF protocolVars, callVars
<1> QED
  BY <1>1, <1>2, <1>3, <1>4, <1>5, <1>6, <1>7, <1>8, <1>9, <1>10
  DEF Next, CloseStep

-----------------------------------------------------------------------------
(* The writer. *)

\* New starts the writer in its select, without a batch.
LEMMA InitWriter == ProtocolInit => WriterInv
BY DEF ProtocolInit, WriterInv

\* The loops of manage, collect and appendQueued keep WriterInv; a send after
\* the writer has left is excluded by MutexInv.
LEMMA StepWriter == TypeOK /\ MutexInv /\ WriterInv /\ [Next]_protocolVars => WriterInv'
<1> SUFFICES ASSUME TypeOK, MutexInv, WriterInv, [Next]_protocolVars PROVE WriterInv'
  OBVIOUS
<1> USE DEF TypeOK, WriterInv, callVars, writerVars
<1>1. ASSUME NEW r \in Request, SubmitInvalid(r) PROVE WriterInv'
  BY <1>1 DEF SubmitInvalid
<1>2. ASSUME NEW r \in Request, SubmitNormalized(r) PROVE WriterInv'
  BY <1>2 DEF SubmitNormalized
<1>3. ASSUME NEW r \in Request, SubmitLock(r) PROVE WriterInv'
  BY <1>3 DEF SubmitLock
<1>4. ASSUME NEW r \in Request, SubmitUnlockClosed(r) PROVE WriterInv'
  BY <1>4 DEF SubmitUnlockClosed
<1>5. ASSUME NEW r \in Request, SubmitErrClosed(r) PROVE WriterInv'
  BY <1>5 DEF SubmitErrClosed
<1>6. ASSUME NEW r \in Request, SubmitSend(r) PROVE WriterInv'
  BY <1>6 DEF SubmitSend, MutexInv
<1>7. ASSUME NEW r \in Request, SubmitUnlock(r) PROVE WriterInv'
  BY <1>7 DEF SubmitUnlock
<1>8. ASSUME NEW c \in Closer, CloseCall(c) PROVE WriterInv'
  BY <1>8 DEF CloseCall
<1>9. ASSUME NEW c \in Closer, CloseOnceFirst(c) PROVE WriterInv'
  BY <1>9 DEF CloseOnceFirst
<1>10. ASSUME NEW c \in Closer, CloseOnceLater(c) PROVE WriterInv'
  BY <1>10 DEF CloseOnceLater
<1>11. ASSUME NEW c \in Closer, CloseLock(c) PROVE WriterInv'
  BY <1>11 DEF CloseLock
<1>12. ASSUME NEW c \in Closer, CloseStop(c) PROVE WriterInv'
  BY <1>12 DEF CloseStop
<1>13. ASSUME NEW c \in Closer, CloseReturn(c) PROVE WriterInv'
  BY <1>13 DEF CloseReturn
<1>14. CASE ManageFirst
  BY <1>14 DEF ManageFirst, Receive
<1>15. CASE ManageStop
  BY <1>15 DEF ManageStop
<1>16. CASE DrainFirst
  BY <1>16 DEF DrainFirst, Receive
<1>17. CASE DrainReturn
  BY <1>17 DEF DrainReturn
<1>18. CASE CollectReceive
  BY <1>18 DEF CollectReceive, Receive
<1>19. CASE CollectTimer
  BY <1>19 DEF CollectTimer
<1>20. CASE CollectStop
  BY <1>20 DEF CollectStop
<1>21. CASE CollectFull
  BY <1>21 DEF CollectFull
<1>22. CASE AppendReceive
  BY <1>22 DEF AppendReceive, Receive
<1>23. CASE AppendReturn
  BY <1>23 DEF AppendReturn
<1>24. ASSUME NEW built \in BOOLEAN, Publish(built) PROVE WriterInv'
  BY <1>24 DEF Publish
<1>25. CASE CountPublication
  BY <1>25 DEF CountPublication
<1>26. CASE Notify
  BY <1>26 DEF Notify
<1>27. CASE PublishReturn
  BY <1>27 DEF PublishReturn
<1>28. CASE UNCHANGED protocolVars
  BY <1>28 DEF protocolVars
<1>29. ASSUME NEW c \in Closer, CloseUnlockLater(c) PROVE WriterInv'
  BY <1>29 DEF CloseUnlockLater
<1>30. CASE FillReceive
  BY <1>30 DEF FillReceive, Receive
<1>31. CASE FillFull
  BY <1>31 DEF FillFull
<1>32. CASE FillShort
  BY <1>32 DEF FillShort, MutexInv
<1>33. CASE FillEmpty
  BY <1>33 DEF FillEmpty
<1>34. CASE RangeReturn
  BY <1>34 DEF RangeReturn
<1>35. CASE LastReturn
  BY <1>35 DEF LastReturn
<1> QED
  BY <1>1, <1>2, <1>3, <1>4, <1>5, <1>6, <1>7, <1>8, <1>9, <1>10, <1>11,
      <1>12, <1>13, <1>14, <1>15, <1>16, <1>17, <1>18, <1>19, <1>20, <1>21,
      <1>22, <1>23, <1>24, <1>25, <1>26, <1>27, <1>28, <1>29, <1>30, <1>31,
      <1>32, <1>33, <1>34, <1>35
  DEF Next, SubmitStep, CloseStep, Writer, Collect

-----------------------------------------------------------------------------
(* The custody of requests. *)

\* At first no request has been sent or answered.
LEMMA InitCustody == ProtocolInit => CustodyInv
<1> SUFFICES ASSUME ProtocolInit PROVE CustodyInv
  OBVIOUS
<1>1. Range(<<>>) = {} /\ IsInjective(<<>>)
  BY DEF Range, IsInjective
<1> QED BY <1>1 DEF ProtocolInit, CustodyInv, AnsweredOnce, NoRequestLost,
                    InQueue, InBatch, Answered, Pending

\* Receiving moves a request from the head of the channel to the batch.
LEMMA ReceiveCustody ==
    ASSUME TypeOK, CustodyInv, Receive, UNCHANGED <<submit, outcome>>
    PROVE  CustodyInv'
<1> DEFINE r == Head(queue)
<1>1. /\ queue \in Seq(Request) /\ batch \in Seq(Request) /\ queue # <<>>
      /\ queue' = Tail(queue) /\ batch' = Append(batch, r)
      /\ IsInjective(queue) /\ IsInjective(batch)
  BY DEF TypeOK, Receive, CustodyInv, AnsweredOnce
<1>2. /\ r \in Request
      /\ Range(queue) = {r} \cup Range(queue')
      /\ IsInjective(queue') /\ r \notin Range(queue')
  BY <1>1, RangeOfTail, InjectiveTail
<1>3. r \notin Range(batch)
  BY <1>2 DEF CustodyInv, AnsweredOnce, InQueue, InBatch
<1>4. Range(batch') = Range(batch) \cup {r} /\ IsInjective(batch')
  BY <1>1, <1>2, <1>3, RangeOfAppend, InjectiveAppend
<1> QED BY <1>2, <1>3, <1>4 DEF CustodyInv, AnsweredOnce, NoRequestLost,
    InQueue, InBatch, Answered

\* A send, a receive and an answer move one request each, and every other step
\* leaves all of them where they are.
LEMMA StepCustody ==
    TypeOK /\ CustodyInv /\ ResultInv /\ [Next]_protocolVars => CustodyInv'
<1> SUFFICES ASSUME TypeOK, CustodyInv, ResultInv, [Next]_protocolVars PROVE CustodyInv'
  OBVIOUS
<1> USE DEF callVars, writerVars
<1> DEFINE Custody == <<submit, queue, batch, outcome>>
<1>0. ASSUME UNCHANGED Custody PROVE CustodyInv'
  BY <1>0 DEF CustodyInv, AnsweredOnce, NoRequestLost, InQueue, InBatch,
      Answered
<1>1. ASSUME NEW r \in Request, SubmitInvalid(r) PROVE CustodyInv'
  BY <1>1 DEF SubmitInvalid, Answer, TypeOK, CustodyInv, AnsweredOnce,
      NoRequestLost, InQueue, InBatch, Answered
<1>2. ASSUME NEW r \in Request, SubmitNormalized(r) PROVE CustodyInv'
  BY <1>2 DEF SubmitNormalized, TypeOK, CustodyInv, AnsweredOnce, NoRequestLost,
      InQueue, InBatch, Answered
<1>3. ASSUME NEW r \in Request, SubmitLock(r) PROVE CustodyInv'
  BY <1>3 DEF SubmitLock, TypeOK, CustodyInv, AnsweredOnce, NoRequestLost,
      InQueue, InBatch, Answered
<1>4. ASSUME NEW r \in Request, SubmitUnlockClosed(r) PROVE CustodyInv'
  BY <1>4 DEF SubmitUnlockClosed, TypeOK, CustodyInv, AnsweredOnce,
      NoRequestLost, InQueue, InBatch, Answered
<1>5. ASSUME NEW r \in Request, SubmitErrClosed(r) PROVE CustodyInv'
  BY <1>5 DEF SubmitErrClosed, Answer, TypeOK, CustodyInv, AnsweredOnce,
      NoRequestLost, InQueue, InBatch, Answered
<1>6. ASSUME NEW r \in Request, SubmitSend(r) PROVE CustodyInv'
  <2>1. /\ submit[r] = "sending" /\ queue' = Append(queue, r)
        /\ submit' = [submit EXCEPT ![r] = "sent"]
        /\ UNCHANGED <<batch, outcome>>
    BY <1>6 DEF SubmitSend
  <2>2. r \notin Range(queue) /\ r \notin Range(batch) /\ outcome[r].err = "pending"
    BY <2>1 DEF CustodyInv, AnsweredOnce, NoRequestLost, InQueue, InBatch,
        Answered
  <2>3. Range(queue') = Range(queue) \cup {r} /\ IsInjective(queue')
    BY <2>1, <2>2, RangeOfAppend, InjectiveAppend DEF TypeOK, CustodyInv,
        AnsweredOnce
  <2> QED BY <2>1, <2>2, <2>3 DEF TypeOK, CustodyInv, AnsweredOnce,
      NoRequestLost, InQueue, InBatch, Answered
<1>7. ASSUME NEW r \in Request, SubmitUnlock(r) PROVE CustodyInv'
  BY <1>7 DEF SubmitUnlock, TypeOK, CustodyInv, AnsweredOnce, NoRequestLost,
      InQueue, InBatch, Answered
<1>8. ASSUME NEW c \in Closer, CloseCall(c) PROVE CustodyInv'
  BY <1>8, <1>0 DEF CloseCall
<1>9. ASSUME NEW c \in Closer, CloseOnceFirst(c) PROVE CustodyInv'
  BY <1>9, <1>0 DEF CloseOnceFirst
<1>10. ASSUME NEW c \in Closer, CloseOnceLater(c) PROVE CustodyInv'
  BY <1>10, <1>0 DEF CloseOnceLater
<1>11. ASSUME NEW c \in Closer, CloseLock(c) PROVE CustodyInv'
  BY <1>11, <1>0 DEF CloseLock
<1>12. ASSUME NEW c \in Closer, CloseStop(c) PROVE CustodyInv'
  BY <1>12, <1>0 DEF CloseStop
<1>13. ASSUME NEW c \in Closer, CloseReturn(c) PROVE CustodyInv'
  BY <1>13, <1>0 DEF CloseReturn
<1>14. CASE ManageFirst
  BY <1>14, ReceiveCustody DEF ManageFirst
<1>15. CASE ManageStop
  BY <1>15, <1>0 DEF ManageStop
<1>16. CASE DrainFirst
  BY <1>16, ReceiveCustody DEF DrainFirst
<1>17. CASE DrainReturn
  BY <1>17, <1>0 DEF DrainReturn
<1>18. CASE CollectReceive
  BY <1>18, ReceiveCustody DEF CollectReceive
<1>19. CASE CollectTimer
  BY <1>19, <1>0 DEF CollectTimer
<1>20. CASE CollectStop
  BY <1>20, <1>0 DEF CollectStop
<1>21. CASE CollectFull
  BY <1>21, <1>0 DEF CollectFull
<1>22. CASE AppendReceive
  BY <1>22, ReceiveCustody DEF AppendReceive
<1>23. CASE AppendReturn
  BY <1>23, <1>0 DEF AppendReturn
<1>24. ASSUME NEW built \in BOOLEAN, Publish(built) PROVE CustodyInv'
  BY <1>24, <1>0 DEF Publish
<1>25. CASE CountPublication
  BY <1>25, <1>0 DEF CountPublication
<1>26. CASE Notify
  <2> DEFINE r == Head(batch)
  <2>1. /\ batch \in Seq(Request) /\ batch # <<>> /\ batch' = Tail(batch)
        /\ outcome' = [outcome EXCEPT ![r] = [generation |-> result.generation, err |-> result.err]]
        /\ result.err # "pending"
        /\ UNCHANGED <<submit, queue>>
        /\ IsInjective(batch)
    BY <1>26 DEF Notify, Answer, TypeOK, ResultInv, CustodyInv, AnsweredOnce
  <2>2. /\ r \in Request
        /\ Range(batch) = {r} \cup Range(batch')
        /\ IsInjective(batch') /\ r \notin Range(batch')
    BY <2>1, RangeOfTail, InjectiveTail
  <2>3. r \notin Range(queue) /\ submit[r] \in {"sent", "returned"}
    BY <2>2 DEF CustodyInv, AnsweredOnce, NoRequestLost, InQueue, InBatch,
        Answered
  <2>4. \A q \in Request : outcome'[q].err = IF q = r THEN result.err ELSE outcome[q].err
    BY <2>1 DEF TypeOK
  <2> QED BY <2>1, <2>2, <2>3, <2>4 DEF CustodyInv, AnsweredOnce, NoRequestLost,
      InQueue, InBatch, Answered
<1>27. CASE PublishReturn
  BY <1>27, <1>0 DEF PublishReturn
<1>28. CASE UNCHANGED protocolVars
  BY <1>28, <1>0 DEF protocolVars
<1>29. ASSUME NEW c \in Closer, CloseUnlockLater(c) PROVE CustodyInv'
  BY <1>29, <1>0 DEF CloseUnlockLater
<1>30. CASE FillReceive
  BY <1>30, ReceiveCustody DEF FillReceive
<1>31. CASE FillFull
  BY <1>31, <1>0 DEF FillFull
<1>32. CASE FillShort
  BY <1>32, <1>0 DEF FillShort
<1>33. CASE FillEmpty
  BY <1>33, <1>0 DEF FillEmpty
<1>34. CASE RangeReturn
  BY <1>34, <1>0 DEF RangeReturn
<1>35. CASE LastReturn
  BY <1>35, <1>0 DEF LastReturn
<1> QED
  BY <1>1, <1>2, <1>3, <1>4, <1>5, <1>6, <1>7, <1>8, <1>9, <1>10, <1>11,
      <1>12, <1>13, <1>14, <1>15, <1>16, <1>17, <1>18, <1>19, <1>20, <1>21,
      <1>22, <1>23, <1>24, <1>25, <1>26, <1>27, <1>28, <1>29, <1>30, <1>31,
      <1>32, <1>33, <1>34, <1>35
  DEF Next, SubmitStep, CloseStep, Writer, Collect

-----------------------------------------------------------------------------
(* Answers and generations. *)

\* At first nothing has been answered and generation 1 is published.
LEMMA InitResult == ProtocolInit => ResultInv
BY DEF ProtocolInit, ResultInv, AnswerIsPublished, Pending

\* Answers are given the number that is published, or the one the writer has
\* just published.
LEMMA StepResult == TypeOK /\ ResultInv /\ [Next]_protocolVars => ResultInv'
<1> SUFFICES ASSUME TypeOK, ResultInv, [Next]_protocolVars PROVE ResultInv'
  OBVIOUS
<1> USE DEF callVars, writerVars, TypeOK, Result, ResultInv, AnswerIsPublished
<1>1. ASSUME NEW r \in Request, SubmitInvalid(r) PROVE ResultInv'
  BY <1>1 DEF SubmitInvalid, Answer
<1>2. ASSUME NEW r \in Request, SubmitNormalized(r) PROVE ResultInv'
  BY <1>2 DEF SubmitNormalized
<1>3. ASSUME NEW r \in Request, SubmitLock(r) PROVE ResultInv'
  BY <1>3 DEF SubmitLock
<1>4. ASSUME NEW r \in Request, SubmitUnlockClosed(r) PROVE ResultInv'
  BY <1>4 DEF SubmitUnlockClosed
<1>5. ASSUME NEW r \in Request, SubmitErrClosed(r) PROVE ResultInv'
  BY <1>5 DEF SubmitErrClosed, Answer
<1>6. ASSUME NEW r \in Request, SubmitSend(r) PROVE ResultInv'
  BY <1>6 DEF SubmitSend
<1>7. ASSUME NEW r \in Request, SubmitUnlock(r) PROVE ResultInv'
  BY <1>7 DEF SubmitUnlock
<1>8. ASSUME NEW c \in Closer, CloseCall(c) PROVE ResultInv'
  BY <1>8 DEF CloseCall
<1>9. ASSUME NEW c \in Closer, CloseOnceFirst(c) PROVE ResultInv'
  BY <1>9 DEF CloseOnceFirst
<1>10. ASSUME NEW c \in Closer, CloseOnceLater(c) PROVE ResultInv'
  BY <1>10 DEF CloseOnceLater
<1>11. ASSUME NEW c \in Closer, CloseLock(c) PROVE ResultInv'
  BY <1>11 DEF CloseLock
<1>12. ASSUME NEW c \in Closer, CloseStop(c) PROVE ResultInv'
  BY <1>12 DEF CloseStop
<1>13. ASSUME NEW c \in Closer, CloseReturn(c) PROVE ResultInv'
  BY <1>13 DEF CloseReturn
<1>14. CASE ManageFirst
  BY <1>14 DEF ManageFirst
<1>15. CASE ManageStop
  BY <1>15 DEF ManageStop
<1>16. CASE DrainFirst
  BY <1>16 DEF DrainFirst
<1>17. CASE DrainReturn
  BY <1>17 DEF DrainReturn
<1>18. CASE CollectReceive
  BY <1>18 DEF CollectReceive
<1>19. CASE CollectTimer
  BY <1>19 DEF CollectTimer
<1>20. CASE CollectStop
  BY <1>20 DEF CollectStop
<1>21. CASE CollectFull
  BY <1>21 DEF CollectFull
<1>22. CASE AppendReceive
  BY <1>22 DEF AppendReceive
<1>23. CASE AppendReturn
  BY <1>23 DEF AppendReturn
<1>24. ASSUME NEW built \in BOOLEAN, Publish(built) PROVE ResultInv'
  BY <1>24 DEF Publish
<1>25. CASE CountPublication
  BY <1>25 DEF CountPublication
<1>26. CASE Notify
  BY <1>26, RangeOfTail DEF Notify, Answer
<1>27. CASE PublishReturn
  BY <1>27 DEF PublishReturn
<1>28. CASE UNCHANGED protocolVars
  BY <1>28 DEF protocolVars
<1>29. ASSUME NEW c \in Closer, CloseUnlockLater(c) PROVE ResultInv'
  BY <1>29 DEF CloseUnlockLater
<1>30. CASE FillReceive
  BY <1>30 DEF FillReceive
<1>31. CASE FillFull
  BY <1>31 DEF FillFull
<1>32. CASE FillShort
  BY <1>32 DEF FillShort
<1>33. CASE FillEmpty
  BY <1>33 DEF FillEmpty
<1>34. CASE RangeReturn
  BY <1>34 DEF RangeReturn
<1>35. CASE LastReturn
  BY <1>35 DEF LastReturn
<1> QED
  BY <1>1, <1>2, <1>3, <1>4, <1>5, <1>6, <1>7, <1>8, <1>9, <1>10, <1>11,
      <1>12, <1>13, <1>14, <1>15, <1>16, <1>17, <1>18, <1>19, <1>20, <1>21,
      <1>22, <1>23, <1>24, <1>25, <1>26, <1>27, <1>28, <1>29, <1>30, <1>31,
      <1>32, <1>33, <1>34, <1>35
  DEF Next, SubmitStep, CloseStep, Writer, Collect

\* The steps of the writer outside publish neither store nor count.
LEMMA CollectStoresNothing ==
    Collect => number' = number /\ loop' = loop /\ manage # "count" /\ manage' # "count"
<1> SUFFICES ASSUME Collect PROVE number' = number /\ loop' = loop /\ manage # "count" /\ manage' # "count"
  OBVIOUS
<1> USE DEF callVars
<1>1. CASE ManageFirst \/ ManageStop \/ DrainFirst \/ DrainReturn
  BY <1>1 DEF ManageFirst, ManageStop, DrainFirst, DrainReturn
<1>2. CASE FillReceive \/ FillFull \/ FillShort \/ FillEmpty \/ RangeReturn \/ LastReturn
  BY <1>2 DEF FillReceive, FillFull, FillShort, FillEmpty, RangeReturn, LastReturn
<1>3. CASE CollectReceive \/ CollectTimer \/ CollectStop \/ CollectFull
  BY <1>3 DEF CollectReceive, CollectTimer, CollectStop, CollectFull
<1>4. CASE AppendReceive \/ AppendReturn \/ Notify \/ PublishReturn
  BY <1>4 DEF AppendReceive, AppendReturn, Notify, PublishReturn
<1> QED BY <1>1, <1>2, <1>3, <1>4 DEF Collect


\* The parts of the inductive invariant together, for the tables' own
\* specifications too.
LEMMA InitInv == ProtocolInit => Inv
BY InitTypes, InitMutex, InitOnce, InitWriter, InitCustody, InitResult DEF Inv

LEMMA StepInv == Inv /\ [Next]_protocolVars => Inv'
BY StepTypes, StepMutex, StepOnce, StepWriter, StepCustody, StepResult DEF Inv

-----------------------------------------------------------------------------
(* The theorems. *)

\* The inductive invariant holds: the mutex is held by one call and closes the
\* channel to senders before stop, the writer leaves only an empty channel, and
\* every request is in one place from its send to its answer.
THEOREM Invariance == Spec => []Inv
<1> QED BY InitInv, StepInv, PTL DEF Spec

\* A request that was put on the channel is never dropped: until it is answered
\* it is in the channel or in the writer's batch (NoRequestLost).
THEOREM RequestsAreKept == Spec => []NoRequestLost
<1>1. Inv => NoRequestLost
  BY DEF Inv, CustodyInv
<1> QED BY <1>1, Invariance, PTL

\* No request is answered twice, which would be a second send on a channel of
\* one place (AnsweredOnce).
THEOREM AnswersAreUnique == Spec => []AnsweredOnce
<1>1. Inv => AnsweredOnce
  BY DEF Inv, CustodyInv
<1> QED BY <1>1, Invariance, PTL

\* When done is closed every Submit that was not refused has its answer, and no
\* caller can still put a request on the channel (CloseDrains).
THEOREM CloseIsComplete == Spec => []CloseDrains
<1>1. ASSUME Inv, done PROVE queue = <<>> /\ batch = <<>> /\ closed
  BY <1>1 DEF Inv, WriterInv, MutexInv
<1>2. ASSUME Inv, done, NEW r \in Request
      PROVE  /\ submit[r] # "sending"
             /\ submit[r] \in {"sent", "returned"} => Answered(r)
  <2>1. ~InQueue(r) /\ ~InBatch(r)
    BY <1>1, <1>2 DEF InQueue, InBatch, Range
  <2> QED BY <1>1, <1>2, <2>1 DEF Inv, MutexInv, CustodyInv, NoRequestLost
<1>3. Inv => CloseDrains
  BY <1>1, <1>2 DEF CloseDrains
<1> QED BY <1>3, Invariance, PTL

\* No channel is closed twice, and nobody sends after Close has closed one
\* (ChannelsStayLegal).
THEOREM NothingPanics == Spec => []ChannelsStayLegal
<1>1. Inv => ChannelsStayLegal
  BY DEF Inv, OnceInv, MutexInv, ChannelsStayLegal
<1> QED BY <1>1, Invariance, PTL

\* An answer never names a generation that cannot be loaded yet
\* (AnswerIsPublished).
THEOREM AnswersArePublished == Spec => []AnswerIsPublished
<1>1. Inv => AnswerIsPublished
  BY DEF Inv, ResultInv
<1> QED BY <1>1, Invariance, PTL

\* The published number only moves to its successor, and an answer is never
\* changed (Monotone).
THEOREM NumbersAndAnswersStay == Spec => Monotone
<1>1. Inv /\ [Next]_protocolVars => [MonotoneStep]_protocolVars
  <2> SUFFICES ASSUME Inv, Next PROVE MonotoneStep
    BY DEF MonotoneStep, protocolVars
  <2> USE DEF MonotoneStep, callVars, writerVars
  <2>1. ASSUME NEW r \in Request, SubmitInvalid(r) PROVE MonotoneStep
    BY <2>1 DEF SubmitInvalid, Answer, Answered, Inv, TypeOK, CustodyInv
  <2>2. ASSUME NEW r \in Request, SubmitNormalized(r) PROVE MonotoneStep
    BY <2>2 DEF SubmitNormalized
  <2>3. ASSUME NEW r \in Request, SubmitLock(r) PROVE MonotoneStep
    BY <2>3 DEF SubmitLock
  <2>4. ASSUME NEW r \in Request, SubmitUnlockClosed(r) PROVE MonotoneStep
    BY <2>4 DEF SubmitUnlockClosed
  <2>5. ASSUME NEW r \in Request, SubmitErrClosed(r) PROVE MonotoneStep
    BY <2>5 DEF SubmitErrClosed, Answer, Answered, Inv, TypeOK, CustodyInv
  <2>6. ASSUME NEW r \in Request, SubmitSend(r) PROVE MonotoneStep
    BY <2>6 DEF SubmitSend
  <2>7. ASSUME NEW r \in Request, SubmitUnlock(r) PROVE MonotoneStep
    BY <2>7 DEF SubmitUnlock
  <2>8. ASSUME NEW c \in Closer, CloseCall(c) \/ CloseStep(c) PROVE MonotoneStep
    BY <2>8 DEF CloseStep, CloseCall, CloseOnceFirst, CloseOnceLater, CloseLock,
        CloseStop, CloseUnlockLater, CloseReturn
  <2>9. CASE ManageFirst
    BY <2>9 DEF ManageFirst
  <2>10. CASE ManageStop
    BY <2>10 DEF ManageStop
  <2>11. CASE DrainFirst
    BY <2>11 DEF DrainFirst
  <2>12. CASE DrainReturn
    BY <2>12 DEF DrainReturn
  <2>13. CASE CollectReceive
    BY <2>13 DEF CollectReceive
  <2>14. CASE CollectTimer
    BY <2>14 DEF CollectTimer
  <2>15. CASE CollectStop
    BY <2>15 DEF CollectStop
  <2>16. CASE CollectFull
    BY <2>16 DEF CollectFull
  <2>17. CASE AppendReceive
    BY <2>17 DEF AppendReceive
  <2>18. CASE AppendReturn
    BY <2>18 DEF AppendReturn
  <2>19. ASSUME NEW built \in BOOLEAN, Publish(built) PROVE MonotoneStep
    BY <2>19 DEF Publish
  <2>20. CASE CountPublication
    BY <2>20 DEF CountPublication
  <2>21. CASE Notify
    <3>1. /\ batch \in Seq(Request) /\ batch # <<>>
          /\ outcome' = [outcome EXCEPT ![Head(batch)] =
                            [generation |-> result.generation, err |-> result.err]]
          /\ number' = number
      BY <2>21 DEF Notify, Answer, Inv, TypeOK
    <3>2. Head(batch) \in Request /\ InBatch(Head(batch))
      BY <3>1, RangeOfTail DEF InBatch
    <3>3. ~Answered(Head(batch))
      BY <3>2 DEF Inv, CustodyInv, AnsweredOnce
    <3> QED BY <3>1, <3>3 DEF Answered, Inv, TypeOK
  <2>22. CASE PublishReturn
    BY <2>22 DEF PublishReturn
  <2>23. CASE FillReceive
    BY <2>23 DEF FillReceive
  <2>24. CASE FillFull
    BY <2>24 DEF FillFull
  <2>25. CASE FillShort
    BY <2>25 DEF FillShort
  <2>26. CASE FillEmpty
    BY <2>26 DEF FillEmpty
  <2>27. CASE RangeReturn
    BY <2>27 DEF RangeReturn
  <2>28. CASE LastReturn
    BY <2>28 DEF LastReturn
  <2> QED
    BY <2>1, <2>2, <2>3, <2>4, <2>5, <2>6, <2>7, <2>8, <2>9, <2>10, <2>11,
        <2>12, <2>13, <2>14, <2>15, <2>16, <2>17, <2>18, <2>19, <2>20, <2>21,
        <2>22, <2>23, <2>24, <2>25, <2>26, <2>27, <2>28 DEF Next, SubmitStep, Writer, Collect
<1> QED BY <1>1, Invariance, PTL DEF Spec, Monotone

-----------------------------------------------------------------------------
(* What publish makes of a batch, in every package. *)

\* The last mutation for a prefix is one of its mutations, and none comes later.
LEMMA LastForIsLast ==
    ASSUME NEW S, NEW all \in Seq(S), NEW s \in SUBSET (DOMAIN all), NEW p \in Named(all, s)
    PROVE  \E i \in s : /\ LastFor(all, s, p) = all[i]
                        /\ all[i] \in S
                        /\ all[i].prefix = p
                        /\ \A j \in s : all[j].prefix = p => j <= i
<1> DEFINE places == {i \in s : all[i].prefix = p}
<1>1. DOMAIN all = 1 .. Len(all) /\ Len(all) \in Nat
  BY LenProperties
<1>2. places \in SUBSET Nat /\ places # {} /\ \A m \in places : m <= Len(all)
  BY <1>1 DEF Named
<1>3. Max(places) \in places /\ \A m \in places : m <= Max(places)
  <2> HIDE DEF places
  <2> QED BY <1>1, <1>2, GreatestElement
<1>4. \E i \in s : all[i].prefix = p /\ \A j \in s : all[j].prefix = p => j <= i
  BY <1>3
<1>5. \A i \in s : all[i] \in S
  BY <1>1
<1> QED BY <1>4, <1>5 DEF LastFor

\* Only one place is the last.
LEMMA LastForUnique ==
    ASSUME NEW S, NEW all \in Seq(S), NEW s \in SUBSET (DOMAIN all), NEW i \in s,
           \A j \in s : all[j].prefix = all[i].prefix => j <= i
    PROVE  LastFor(all, s, all[i].prefix) = all[i]
<1>1. \A k \in s : k \in Nat
  BY LenProperties
<1>2. \A k \in s : (all[k].prefix = all[i].prefix /\ \A j \in s : all[j].prefix = all[i].prefix => j <= k) => k = i
  BY <1>1
<1> QED BY <1>2 DEF LastFor

\* What is left of a table when the mutations at the places s are applied.
Final(t, all, s) ==
    [p \in {q \in DOMAIN t \cup Named(all, s) :
               q \in Named(all, s) => ~LastFor(all, s, q).delete} |->
        IF p \in Named(all, s) THEN LastFor(all, s, p).value ELSE t[p]]

\* Applying the latest of some mutations to what the others leave.
LEMMA FinalStep ==
    ASSUME NEW S, NEW all \in Seq(S), NEW s \in SUBSET (DOMAIN all), NEW t,
           NEW x \in s, \A j \in s : j <= x
    PROVE  Final(t, all, s) = Applied(Final(t, all, s \ {x}), all[x])
<1> DEFINE rest == s \ {x}
           p0 == all[x].prefix
<1>1. rest \in SUBSET (DOMAIN all) /\ all[x] \in S
  BY LenProperties
<1>2. Named(all, s) = Named(all, rest) \cup {p0}
  BY DEF Named
<1>3. LastFor(all, s, p0) = all[x]
  BY LastForUnique
<1>4. ASSUME NEW p \in Named(all, rest), p # p0
      PROVE  LastFor(all, s, p) = LastFor(all, rest, p)
  <2>1. PICK i \in rest : /\ LastFor(all, rest, p) = all[i]
                          /\ all[i].prefix = p
                          /\ \A j \in rest : all[j].prefix = p => j <= i
    BY <1>1, LastForIsLast
  <2>2. i \in s /\ \A j \in s : all[j].prefix = p => j <= i
    BY <1>4, <2>1
  <2>3. LastFor(all, s, all[i].prefix) = all[i]
    BY <2>1, <2>2, LastForUnique
  <2> QED BY <2>1, <2>3
<1> DEFINE before == Final(t, all, rest)
           kept == {q \in DOMAIN t \cup Named(all, rest) :
                       q \in Named(all, rest) => ~LastFor(all, rest, q).delete}
           left == {q \in DOMAIN t \cup Named(all, s) :
                       q \in Named(all, s) => ~LastFor(all, s, q).delete}
<1>5. DOMAIN before = kept /\ DOMAIN Final(t, all, s) = left
  BY DEF Final
<1>6. left = IF all[x].delete THEN kept \ {p0} ELSE kept \cup {p0}
  BY <1>2, <1>3, <1>4
<1>7. ASSUME NEW p \in left
      PROVE  Final(t, all, s)[p] = IF p = p0 THEN all[x].value ELSE before[p]
  <2>1. Final(t, all, s)[p] = IF p \in Named(all, s) THEN LastFor(all, s, p).value ELSE t[p]
    BY DEF Final
  <2>2. CASE p = p0
    BY <1>2, <1>3, <2>1, <2>2
  <2>3. CASE p # p0
    <3>1. p \in kept
      BY <1>6, <2>3
    <3>2. before[p] = IF p \in Named(all, rest) THEN LastFor(all, rest, p).value ELSE t[p]
      BY <3>1 DEF Final
    <3> QED BY <1>2, <1>4, <2>1, <2>3, <3>2
  <2> QED BY <2>2, <2>3
<1>8. Final(t, all, s) = [p \in left |-> Final(t, all, s)[p]]
  BY DEF Final
<1> HIDE DEF left, kept, before
<1>9. CASE all[x].delete
  <2>1. Applied(before, all[x]) = Overwrite(before, <<>>, {p0})
    BY <1>9 DEF Applied
  <2>2. Overwrite(before, <<>>, {p0}) = [p \in kept \ {p0} |-> before[p]]
    BY <1>5 DEF Overwrite
  <2>3. \A p \in left : Final(t, all, s)[p] = before[p]
    BY <1>6, <1>7, <1>9
  <2> QED BY <1>6, <1>8, <1>9, <2>1, <2>2, <2>3 DEF before
<1>10. CASE ~all[x].delete
  <2>1. Applied(before, all[x]) = Overwrite(before, [p \in {p0} |-> all[x].value], {})
    BY <1>10 DEF Applied
  <2>2. Overwrite(before, [p \in {p0} |-> all[x].value], {}) =
            [p \in kept \cup {p0} |-> IF p = p0 THEN all[x].value ELSE before[p]]
    BY <1>5 DEF Overwrite
  <2> QED BY <1>6, <1>7, <1>8, <1>10, <2>1, <2>2 DEF before
<1> QED BY <1>9, <1>10

\* A function that applies some mutations of a batch, the latest last.
AppliesInOrder(f, t, all) ==
    \A s \in SUBSET (DOMAIN all) :
        f[s] = IF s = {} THEN t ELSE Applied(f[s \ {Max(s)}], all[Max(s)])

\* Such a function exists,
LEMMA FinalApplies ==
    ASSUME NEW S, NEW all \in Seq(S), NEW t, t = [p \in DOMAIN t |-> t[p]]
    PROVE  /\ AppliesInOrder([s \in SUBSET (DOMAIN all) |-> Final(t, all, s)], t, all)
           /\ \A s \in SUBSET (DOMAIN all) : s # {} => Max(s) \in s
<1> DEFINE places == DOMAIN all
           final == [s \in SUBSET places |-> Final(t, all, s)]
<1>1. places = 1 .. Len(all) /\ Len(all) \in Nat
  BY LenProperties
<1>2. ASSUME NEW s \in SUBSET places, s # {}
      PROVE  Max(s) \in s /\ \A j \in s : j <= Max(s)
  <2>1. s \in SUBSET Nat /\ \A j \in s : j <= Len(all)
    BY <1>1
  <2> QED BY <1>1, <1>2, <2>1, GreatestElement
<1>3. Final(t, all, {}) = t
  BY DEF Final, Named
<1>4. ASSUME NEW s \in SUBSET places, s # {}
      PROVE  Final(t, all, s) = Applied(Final(t, all, s \ {Max(s)}), all[Max(s)])
  <2> DEFINE x == Max(s)
  <2>1. x \in s /\ \A j \in s : j <= x
    BY <1>2, <1>4
  <2> HIDE DEF x
  <2>2. Final(t, all, s) = Applied(Final(t, all, s \ {x}), all[x])
    BY <2>1, FinalStep
  <2> QED BY <2>2 DEF x
<1>5. \A s \in SUBSET places : s \ {Max(s)} \in SUBSET places
  OBVIOUS
<1>6. ASSUME NEW s \in SUBSET places
      PROVE  final[s] = IF s = {} THEN t ELSE Applied(final[s \ {Max(s)}], all[Max(s)])
  BY <1>3, <1>4, <1>5
<1> QED BY <1>2, <1>6 DEF AppliesInOrder

\* and what it leaves of a table is what the last mutations say.
LEMMA ApplyingIsFinal ==
    ASSUME NEW S, NEW all \in Seq(S), NEW t, t = [p \in DOMAIN t |-> t[p]],
           NEW f, AppliesInOrder(f, t, all)
    PROVE  f[DOMAIN all] = Final(t, all, DOMAIN all)
<1> DEFINE final == [s \in SUBSET DOMAIN all |-> Final(t, all, s)]
<1>1. AppliesInOrder(final, t, all)
  BY FinalApplies
<1>2. DOMAIN all = 1 .. Len(all) /\ Len(all) \in Nat
  BY LenProperties
<1> HIDE DEF final
<1>3. f[{}] = final[{}]
  BY <1>1 DEF AppliesInOrder
<1>4. ASSUME NEW s \in SUBSET (1 .. Len(all)), s # {}, Max(s) \in s,
             f[s \ {Max(s)}] = final[s \ {Max(s)}]
      PROVE  f[s] = final[s]
  BY <1>1, <1>2, <1>4 DEF AppliesInOrder
<1>5. FoldAlike(f, final, Len(all))
  BY <1>3, <1>4 DEF FoldAlike
<1>6. f[DOMAIN all] = final[DOMAIN all]
  BY <1>2, <1>5, FoldsAgree
<1> QED BY <1>6 DEF final

\* The loop of apply in splitribfib leaves what the last mutations say.
LEMMA FoldIsFinal ==
    ASSUME NEW S, NEW all \in Seq(S), NEW t, t = [p \in DOMAIN t |-> t[p]]
    PROVE  FoldLeft(Applied, t, all) = Final(t, all, DOMAIN all)
<1> DEFINE places == DOMAIN all
           Equation(f) ==
               f = [s \in SUBSET places |->
                       IF s = {} THEN t ELSE Applied(f[s \ {Max(s)}], all[Max(s)])]
           final == [s \in SUBSET places |-> Final(t, all, s)]
           fold == CHOOSE f : Equation(f)
<1>1. AppliesInOrder(final, t, all)
  BY FinalApplies
<1>2. Equation(final)
  <2>1. \A s \in SUBSET places :
           Final(t, all, s) = IF s = {} THEN t ELSE Applied(final[s \ {Max(s)}], all[Max(s)])
    BY <1>1 DEF AppliesInOrder
  <2> QED BY <2>1
<1>3. Equation(fold)
  <2> HIDE DEF Equation
  <2> QED BY <1>2
<1>4. FoldLeft(Applied, t, all) = fold[places]
  BY DEF FoldLeft, MapThenFoldSet
<1> HIDE DEF fold, final
<1>5. AppliesInOrder(fold, t, all)
  BY <1>3 DEF AppliesInOrder
<1>6. fold[places] = Final(t, all, places)
  BY <1>5, ApplyingIsFinal
<1> QED BY <1>4, <1>6

\* Coalescing first and rebuilding the catalogue amounts to applying the
\* mutations in order.
LEMMA AmendedIsFinal ==
    ASSUME NEW map, NEW all
    PROVE  Amended(map, LastOnes(all)) = Final(map, all, DOMAIN all)
<1> DEFINE places == DOMAIN all
           changes == LastOnes(all)
           set == {q \in DOMAIN changes : ~changes[q].delete}
           gone == {p \in DOMAIN changes : changes[p].delete}
<1>1. /\ DOMAIN changes = Named(all, places)
      /\ \A p \in Named(all, places) : changes[p] = LastFor(all, places, p)
  BY DEF LastOnes
<1> HIDE DEF places, changes
<1>2. (DOMAIN map \cup set) \ gone =
          {q \in DOMAIN map \cup Named(all, places) :
              q \in Named(all, places) => ~LastFor(all, places, q).delete}
  BY <1>1
<1>3. Amended(map, changes) =
          [p \in (DOMAIN map \cup set) \ gone |->
              IF p \in set THEN changes[p].value ELSE map[p]]
  BY DEF Amended, Overwrite
<1>4. \A p \in (DOMAIN map \cup set) \ gone : p \in set <=> p \in Named(all, places)
  BY <1>1
<1> HIDE DEF set, gone
<1>5. Amended(map, changes) = Final(map, all, places)
  BY <1>1, <1>2, <1>3, <1>4 DEF Final
<1> QED BY <1>5 DEF places, changes

\* A batch that adds and withdraws nothing only overwrites values.
LEMMA FinalOfUpdates ==
    ASSUME NEW t, NEW all,
           \A p \in Named(all, DOMAIN all) :
               LastFor(all, DOMAIN all, p).delete <=> p \notin DOMAIN t
    PROVE  Final(t, all, DOMAIN all) =
               [p \in DOMAIN t |-> IF p \in Named(all, DOMAIN all)
                                   THEN LastFor(all, DOMAIN all, p).value ELSE t[p]]
<1> DEFINE named == Named(all, DOMAIN all)
           Latest(p) == LastFor(all, DOMAIN all, p)
<1>1. Final(t, all, DOMAIN all) =
         [p \in {q \in DOMAIN t \cup named : q \in named => ~Latest(q).delete} |->
             IF p \in named THEN Latest(p).value ELSE t[p]]
  BY DEF Final
<1>2. \A p \in named : Latest(p).delete <=> p \notin DOMAIN t
  OBVIOUS
<1> HIDE DEF named, Latest
<1>3. {q \in DOMAIN t \cup named : q \in named => ~Latest(q).delete} = DOMAIN t
  BY <1>2
<1> QED BY <1>1, <1>3 DEF named, Latest
-----------------------------------------------------------------------------
(* What the mapping to RouteTable needs of the control. *)

\* Every step keeps what the mapping needs of the control.
LEMMA StepOpen ==
    ASSUME TypeOK, OpenInv, [Next]_protocolVars
    PROVE  OpenInv'
<1> USE DEF OpenInv, callVars, writerVars, Answered
<1>1. ASSUME NEW r \in Request, SubmitInvalid(r) \/ SubmitErrClosed(r) PROVE OpenInv'
  <2>1. outcome \in [Request -> Result]
    BY DEF TypeOK
  <2>2. PICK err \in {"ErrBadIP", "ErrClosed"} :
           outcome' = [outcome EXCEPT ![r] = [generation |-> number, err |-> err]]
    BY <1>1 DEF SubmitInvalid, SubmitErrClosed, Answer
  <2>3. ASSUME NEW q \in Request, outcome'[q].err = "pending" PROVE outcome'[q] = Pending
    BY <2>1, <2>2, <2>3
  <2>4. UNCHANGED writerVars
    BY <1>1 DEF SubmitInvalid, SubmitErrClosed
  <2> QED BY <2>3, <2>4
<1>2. ASSUME NEW r \in Request, SubmitNormalized(r) \/ SubmitLock(r) \/ SubmitUnlockClosed(r)
                                   \/ SubmitSend(r) \/ SubmitUnlock(r)
      PROVE  OpenInv'
  BY <1>2 DEF SubmitNormalized, SubmitLock, SubmitUnlockClosed, SubmitSend, SubmitUnlock
<1>3. ASSUME NEW c \in Closer, CloseCall(c) \/ CloseStep(c) PROVE OpenInv'
  BY <1>3 DEF CloseCall, CloseStep, CloseOnceFirst, CloseOnceLater, CloseLock, CloseStop,
      CloseUnlockLater, CloseReturn
<1>4. ASSUME NEW h, batch' = Append(batch, h) PROVE batch' # <<>>
  BY <1>4, AppendProperties DEF TypeOK
<1>5. CASE ManageFirst \/ DrainFirst \/ FillReceive \/ CollectReceive \/ AppendReceive
  BY <1>4, <1>5 DEF ManageFirst, DrainFirst, FillReceive, CollectReceive, AppendReceive, Receive
<1>6. CASE ManageStop \/ DrainReturn \/ FillShort \/ FillEmpty \/ RangeReturn \/ LastReturn
  BY <1>6 DEF ManageStop, DrainReturn, FillShort, FillEmpty, RangeReturn, LastReturn
<1>7. CASE FillFull
  <2>1. Len(batch) # 0
    BY <1>7, OptionsAssumption DEF FillFull, TypeOK
  <2>2. batch # <<>>
    BY <2>1
  <2> QED BY <1>7, <2>2 DEF FillFull
<1>8. CASE CollectTimer \/ CollectStop \/ CollectFull \/ AppendReturn \/ PublishReturn
  BY <1>8 DEF CollectTimer, CollectStop, CollectFull, AppendReturn, PublishReturn
<1>9. CASE Notify
  BY <1>9 DEF Notify, Answer, TypeOK
<1>10. CASE CountPublication
  BY <1>10 DEF CountPublication
<1>11. ASSUME NEW built \in BOOLEAN, Publish(built) PROVE OpenInv'
  BY <1>11 DEF Publish
<1>12. CASE UNCHANGED protocolVars
  BY <1>12 DEF protocolVars
<1> QED
  BY <1>1, <1>2, <1>3, <1>5, <1>6, <1>7, <1>8, <1>9, <1>10, <1>11, <1>12
      DEF Next, SubmitStep, Writer, Collect

\* What is in the backlog is in the queue or in the batch.
LEMMA BacklogIsHeld ==
    ASSUME TypeOK, NEW i \in DOMAIN Backlog
    PROVE  InQueue(Backlog[i]) \/ InBatch(Backlog[i])
<1>1. batch \in Seq(Request) /\ queue \in Seq(Request)
  BY DEF TypeOK
<1>2. CASE Stored
  BY <1>2 DEF Backlog, InQueue, Range
<1>3. CASE ~Stored
  <2>1. Backlog = batch \o queue
    BY <1>3 DEF Backlog
  <2>2. /\ Len(batch) \in Nat /\ Len(queue) \in Nat
        /\ Len(batch \o queue) = Len(batch) + Len(queue)
        /\ \A k \in 1 .. Len(batch) : (batch \o queue)[k] = batch[k]
        /\ \A k \in 1 .. Len(queue) : (batch \o queue)[Len(batch) + k] = queue[k]
        /\ batch \o queue \in Seq(Request)
    BY <1>1, Concatenated
  <2>3. i \in 1 .. Len(batch) + Len(queue)
    BY <2>1, <2>2
  <2>4. CASE i <= Len(batch)
    <3>1. i \in 1 .. Len(batch) /\ Backlog[i] = batch[i]
      BY <2>1, <2>2, <2>3, <2>4
    <3> QED BY <1>1, <3>1 DEF InBatch, Range
  <2>5. CASE ~(i <= Len(batch))
    <3> DEFINE k == i - Len(batch)
    <3>1. k \in 1 .. Len(queue) /\ i = Len(batch) + k
      BY <2>2, <2>3, <2>5
    <3> HIDE DEF k
    <3>2. Backlog[i] = queue[k]
      BY <2>1, <2>2, <3>1
    <3> QED BY <1>1, <3>1, <3>2 DEF InQueue, Range
  <2> QED BY <2>4, <2>5
<1> QED BY <1>2, <1>3

\* Receiving moves a request from the queue to the batch, within the backlog.
LEMMA ReceiveKeepsBacklog ==
    ASSUME TypeOK, Receive
    PROVE  batch' \o queue' = batch \o queue
<1>1. /\ batch \in Seq(Request) /\ queue \in Seq(Request) /\ queue # <<>>
      /\ batch' = Append(batch, Head(queue)) /\ queue' = Tail(queue)
  BY DEF TypeOK, Receive
<1>2. Append(batch, Head(queue)) \o Tail(queue) = batch \o queue
  <2> DEFINE s == Append(batch, Head(queue)) \o Tail(queue)
             t == batch \o queue
  <2>1. /\ Append(batch, Head(queue)) \in Seq(Request)
        /\ Tail(queue) \in Seq(Request)
        /\ Len(queue) \in Nat \ {0}
        /\ Len(batch) \in Nat
    BY <1>1, EmptySeq
  <2>2. s \in Seq(Request) /\ t \in Seq(Request) /\ Len(s) = Len(t)
    BY <1>1, <2>1
  <2>3. \A i \in 1 .. Len(s) : s[i] = t[i]
    BY <1>1, <2>1
  <2> HIDE DEF s, t
  <2>4. s = t
    BY <2>2, <2>3, SeqEqual
  <2> QED BY <2>4 DEF s, t
<1> QED BY <1>1, <1>2

-----------------------------------------------------------------------------
(***************************************************************************)
(* The steps of the control, as RouteTable sees them through the backlog,  *)
(* the fates and the answers: what is asked and what is published is added *)
(* by the tables.                                                          *)
(***************************************************************************)
Unseen(r) == Fate[r] = Pending /\ \A i \in DOMAIN Backlog : Backlog[i] # r
SameCalls == \A q \in Request : Accepted(q)' = Accepted(q)

SeesNothing == SameCalls /\ UNCHANGED <<Backlog, Fate, outcome, number>>

SeesRefusal(r) ==
    /\ Unseen(r)
    /\ \E err \in {"ErrBadIP", "ErrClosed"} :
          Fate' = [Fate EXCEPT ![r] = [generation |-> number, err |-> err]]
    /\ outcome' = [outcome EXCEPT ![r] = Fate'[r]]
    /\ SameCalls
    /\ UNCHANGED <<Backlog, number>>

SeesAcceptance(r) ==
    /\ Unseen(r)
    /\ Backlog' = Append(Backlog, r)
    /\ submit[r] = "sending"
    /\ Accepted(r)'
    /\ \A q \in Request : q # r => Accepted(q)' = Accepted(q)
    /\ UNCHANGED <<Fate, outcome, number>>

SeesAnswer(r) ==
    /\ Fate[r] # Pending
    /\ outcome[r] = Pending
    /\ outcome' = [outcome EXCEPT ![r] = Fate[r]]
    /\ SameCalls
    /\ UNCHANGED <<Backlog, Fate, number>>

\* The batch is the oldest part of the backlog, and all of it was accepted.
SeesDecision(fits) ==
    /\ Len(batch) \in DOMAIN Backlog
    /\ SubSeq(Backlog, 1, Len(batch)) = batch
    /\ \A i \in DOMAIN batch : batch[i] \in Request /\ Accepted(batch[i])
    /\ Backlog' = SubSeq(Backlog, Len(batch) + 1, Len(Backlog))
    /\ number' = IF fits THEN number + 1 ELSE number
    /\ Fate' = [r \in Request |->
                   IF \E i \in DOMAIN batch : batch[i] = r
                   THEN [generation |-> number', err |-> IF fits THEN "ok" ELSE "ErrBuild"]
                   ELSE Fate[r]]
    /\ SameCalls
    /\ UNCHANGED outcome

\* A request that was not sent yet is open.
LEMMA UnsentIsOpen ==
    ASSUME Inv, OpenInv, NEW r \in Request, submit[r] \notin {"sent", "returned"}
    PROVE  /\ outcome[r] = Pending
           /\ ~InQueue(r) /\ ~InBatch(r)
           /\ Unseen(r)
<1>1. ~InQueue(r) /\ ~InBatch(r) /\ ~Answered(r)
  BY DEF Inv, CustodyInv
<1>2. outcome[r] = Pending
  BY <1>1 DEF OpenInv
<1>3. Fate[r] = Pending
  BY <1>1, <1>2 DEF Fate
<1>4. \A i \in DOMAIN Backlog : Backlog[i] # r
  BY <1>1, BacklogIsHeld DEF Inv
<1> QED BY <1>1, <1>2, <1>3, <1>4 DEF Unseen

\* A call that is refused, for a bad prefix or because the table is closed.
LEMMA RefusalIsSeen ==
    ASSUME Inv, OpenInv, NEW r \in Request, SubmitInvalid(r) \/ SubmitErrClosed(r)
    PROVE  SeesRefusal(r)
<1>1. PICK err \in {"ErrBadIP", "ErrClosed"} :
         /\ submit[r] \notin {"sent", "returned"}
         /\ submit' = [submit EXCEPT ![r] = "returned"]
         /\ outcome' = [outcome EXCEPT ![r] = [generation |-> number, err |-> err]]
         /\ UNCHANGED <<queue, batch, manage, number, result>>
  BY DEF SubmitInvalid, SubmitErrClosed, Answer, writerVars
<1>2. /\ submit \in [Request -> SubmitPC]
      /\ outcome \in [Request -> Result]
  BY DEF Inv, TypeOK
<1>3. /\ ~InQueue(r) /\ ~InBatch(r)
      /\ Unseen(r)
  BY <1>1, UnsentIsOpen
<1>4. UNCHANGED <<Backlog, number>>
  BY <1>1 DEF Backlog, Stored
<1>5. Stored' = Stored /\ \A q \in Request : InBatch(q)' = InBatch(q)
  BY <1>1 DEF Stored, InBatch
<1>6. Fate' = [Fate EXCEPT ![r] = [generation |-> number, err |-> err]]
  BY <1>1, <1>2, <1>3, <1>5 DEF Fate
<1>7. outcome' = [outcome EXCEPT ![r] = Fate'[r]]
  BY <1>1, <1>6 DEF Fate
<1>8. SameCalls
  <2>1. ~Accepted(r) /\ ~Accepted(r)'
    BY <1>1, <1>2 DEF Accepted
  <2>2. ASSUME NEW q \in Request, q # r PROVE Accepted(q)' = Accepted(q)
    BY <1>1, <1>2, <2>2 DEF Accepted
  <2>3. ASSUME NEW q \in Request PROVE Accepted(q)' = Accepted(q)
    <3>1. CASE q = r
      BY <2>1, <3>1 DEF Accepted
    <3> QED BY <2>2, <3>1
  <2> QED BY <2>3 DEF SameCalls
<1> QED BY <1>3, <1>4, <1>6, <1>7, <1>8 DEF SeesRefusal

\* A call that puts its request on the channel.
LEMMA SendIsSeen ==
    ASSUME Inv, OpenInv, NEW r \in Request, SubmitSend(r)
    PROVE  SeesAcceptance(r)
<1>1. /\ submit[r] = "sending"
      /\ submit' = [submit EXCEPT ![r] = "sent"]
      /\ queue' = Append(queue, r)
      /\ UNCHANGED <<outcome, batch, manage, number, result>>
  BY DEF SubmitSend, writerVars
<1>2. /\ submit \in [Request -> SubmitPC]
      /\ batch \in Seq(Request) /\ queue \in Seq(Request)
  BY DEF Inv, TypeOK
<1>3. outcome[r] = Pending /\ Unseen(r)
  BY <1>1, UnsentIsOpen
<1>4. UNCHANGED <<Fate, number, outcome>>
  BY <1>1 DEF Fate, Stored, InBatch
<1>5. Backlog' = Append(Backlog, r)
  <2>1. Stored' = Stored
    BY <1>1 DEF Stored
  <2>2. batch \o Append(queue, r) = Append(batch \o queue, r)
    BY <1>2
  <2> QED BY <1>1, <2>1, <2>2 DEF Backlog
<1>6. Accepted(r)'
  BY <1>1, <1>2, <1>3 DEF Accepted, Pending
<1>7. ASSUME NEW q \in Request, q # r PROVE Accepted(q)' = Accepted(q)
  BY <1>1, <1>2, <1>7 DEF Accepted
<1> QED BY <1>1, <1>3, <1>4, <1>5, <1>6, <1>7 DEF SeesAcceptance

\* All other steps of callers are invisible, and so is a step that leaves the
\* protocol alone.
LEMMA OtherCallsAreUnseen ==
    ASSUME TypeOK,
           \/ \E r \in Request : \/ SubmitNormalized(r) \/ SubmitLock(r)
                                 \/ SubmitUnlockClosed(r) \/ SubmitUnlock(r)
           \/ \E c \in Closer : CloseCall(c) \/ CloseStep(c)
           \/ UNCHANGED protocolVars
    PROVE  SeesNothing
<1>1. UNCHANGED <<outcome, queue, writerVars>>
  BY DEF SubmitNormalized, SubmitLock, SubmitUnlockClosed, SubmitUnlock, CloseCall, CloseStep,
      CloseOnceFirst, CloseOnceLater, CloseLock, CloseStop, CloseUnlockLater, CloseReturn,
      protocolVars
<1>2. UNCHANGED <<Backlog, Fate, outcome, number>>
  BY <1>1 DEF Backlog, Fate, Stored, InBatch, writerVars
<1>3. ASSUME NEW q \in Request
      PROVE  \/ submit'[q] = submit[q]
             \/ submit[q] \notin {"sent", "returned"} /\ submit'[q] \notin {"sent", "returned"}
             \/ submit[q] = "sent" /\ submit'[q] = "returned"
  <2>1. ASSUME NEW r \in Request, \/ SubmitNormalized(r) \/ SubmitLock(r)
                                  \/ SubmitUnlockClosed(r) \/ SubmitUnlock(r)
        PROVE  \/ submit'[q] = submit[q]
               \/ submit[q] \notin {"sent", "returned"} /\ submit'[q] \notin {"sent", "returned"}
               \/ submit[q] = "sent" /\ submit'[q] = "returned"
    BY <2>1 DEF TypeOK, SubmitNormalized, SubmitLock, SubmitUnlockClosed, SubmitUnlock
  <2>2. ASSUME NEW c \in Closer, CloseCall(c) \/ CloseStep(c) PROVE submit' = submit
    BY <2>2 DEF CloseCall, CloseStep, CloseOnceFirst, CloseOnceLater, CloseLock, CloseStop,
        CloseUnlockLater, CloseReturn
  <2>3. UNCHANGED protocolVars => submit' = submit
    BY DEF protocolVars, callVars
  <2> QED BY <2>1, <2>2, <2>3
<1>4. SameCalls
  BY <1>1, <1>3 DEF SameCalls, Accepted
<1> QED BY <1>2, <1>4 DEF SeesNothing

\* Gathering, waiting and draining are invisible.
LEMMA GatheringIsUnseen ==
    ASSUME Inv, Collect, ~Notify
    PROVE  SeesNothing
<1>1. UNCHANGED <<submit, outcome, number, result>>
  <2> USE DEF callVars
  <2>1. CASE ManageFirst \/ ManageStop \/ DrainFirst \/ DrainReturn
    BY <2>1 DEF ManageFirst, ManageStop, DrainFirst, DrainReturn
  <2>2. CASE FillReceive \/ FillFull \/ FillShort \/ FillEmpty \/ RangeReturn \/ LastReturn
    BY <2>2 DEF FillReceive, FillFull, FillShort, FillEmpty, RangeReturn, LastReturn
  <2>3. CASE CollectReceive \/ CollectTimer \/ CollectStop \/ CollectFull
    BY <2>3 DEF CollectReceive, CollectTimer, CollectStop, CollectFull
  <2>4. CASE AppendReceive \/ AppendReturn \/ PublishReturn
    BY <2>4 DEF AppendReceive, AppendReturn, PublishReturn
  <2> QED BY <2>1, <2>2, <2>3, <2>4 DEF Collect
<1>2. SameCalls
  BY <1>1 DEF SameCalls, Accepted
<1>3. CASE ManageFirst \/ DrainFirst \/ FillReceive \/ CollectReceive \/ AppendReceive
  <2>1. Receive /\ ~Stored /\ ~Stored'
    BY <1>3 DEF ManageFirst, DrainFirst, FillReceive, CollectReceive, AppendReceive, Stored
  <2>2. Backlog' = Backlog
    BY <2>1, ReceiveKeepsBacklog DEF Backlog, Inv
  <2>3. Fate' = Fate
    BY <1>1, <2>1 DEF Fate
  <2> QED BY <1>1, <1>2, <2>2, <2>3 DEF SeesNothing
<1>4. CASE \/ ManageStop \/ DrainReturn \/ FillFull \/ FillShort \/ FillEmpty \/ RangeReturn
           \/ CollectTimer \/ CollectStop \/ CollectFull \/ AppendReturn
  <2>1. ~Stored /\ ~Stored' /\ UNCHANGED <<batch, queue>>
    BY <1>4 DEF ManageStop, DrainReturn, FillFull, FillShort, FillEmpty, RangeReturn,
        CollectTimer, CollectStop, CollectFull, AppendReturn, Stored
  <2>2. UNCHANGED <<Backlog, Fate>>
    BY <1>1, <2>1 DEF Backlog, Fate
  <2> QED BY <1>1, <1>2, <2>2 DEF SeesNothing
<1>5. CASE PublishReturn \/ LastReturn
  <2>1. Stored /\ ~Stored' /\ batch = <<>> /\ UNCHANGED <<batch, queue>>
    BY <1>5 DEF PublishReturn, LastReturn, Stored
  <2>2. queue \in Seq(Request) /\ <<>> \o queue = queue
    BY DEF Inv, TypeOK
  <2>3. Backlog' = Backlog
    BY <2>1, <2>2 DEF Backlog
  <2>4. Fate' = Fate
    BY <1>1, <2>1 DEF Fate, InBatch, Range
  <2> QED BY <1>1, <1>2, <2>3, <2>4 DEF SeesNothing
<1> QED BY <1>3, <1>4, <1>5 DEF Collect

\* The count after the Store is invisible.
LEMMA CountIsUnseen ==
    ASSUME CountPublication
    PROVE  SeesNothing
<1>1. Stored /\ Stored' /\ UNCHANGED <<submit, outcome, number, result, batch, queue>>
  BY DEF CountPublication, Stored, callVars
<1> QED BY <1>1 DEF SeesNothing, SameCalls, Accepted, Backlog, Fate, InBatch

\* A request's own channel gets its fate.
LEMMA NotifyIsSeen ==
    ASSUME Inv, OpenInv, Notify
    PROVE  \E r \in Request : SeesAnswer(r)
<1>0. PICK r \in Request : r = Head(batch)
  <2>1. batch \in Seq(Request) /\ batch # <<>>
    BY DEF Notify, Inv, TypeOK
  <2> QED BY <2>1
<1>1. /\ Stored /\ Stored'
      /\ batch \in Seq(Request) /\ batch # <<>>
      /\ outcome' = [outcome EXCEPT ![r] = [generation |-> result.generation, err |-> result.err]]
      /\ batch' = Tail(batch)
      /\ UNCHANGED <<submit, number, result, queue>>
  BY <1>0 DEF Notify, Answer, Stored, callVars, Inv, TypeOK
<1>2. /\ Range(batch) = {r} \cup Range(Tail(batch))
      /\ r \notin Range(Tail(batch))
  BY <1>0, <1>1, RangeOfTail, InjectiveTail DEF Inv, CustodyInv, AnsweredOnce
<1>3. result = [generation |-> result.generation, err |-> result.err]
  BY DEF Inv, TypeOK, Result
<1>4. result.err \in {"ok", "ErrBuild"}
  BY <1>1 DEF OpenInv, Stored
<1>5. InBatch(r) /\ ~Answered(r) /\ outcome[r] = Pending
  BY <1>2 DEF InBatch, Inv, CustodyInv, AnsweredOnce, OpenInv
<1>6. outcome \in [Request -> Result] /\ submit[r] \in {"sent", "returned"}
  BY <1>2, <1>5 DEF Inv, TypeOK, CustodyInv
<1>7. Fate[r] = result /\ Fate[r] # Pending
  BY <1>1, <1>2, <1>4, <1>5 DEF Fate, Pending
<1>8. outcome' = [outcome EXCEPT ![r] = Fate[r]]
  BY <1>1, <1>3, <1>7
<1>9. Fate' = Fate
  <2>1. ASSUME NEW q \in Request
        PROVE  (IF InBatch(q)' THEN result' ELSE outcome'[q]) = IF InBatch(q) THEN result ELSE outcome[q]
    <3>1. CASE q = r
      BY <1>1, <1>2, <1>3, <1>5, <1>6, <3>1 DEF InBatch
    <3>2. CASE q # r
      BY <1>1, <1>2, <1>6, <3>2 DEF InBatch
    <3> QED BY <3>1, <3>2
  <2> QED BY <1>1, <2>1 DEF Fate
<1>10. SameCalls
  <2>1. Accepted(r)
    BY <1>5, <1>6 DEF Accepted, Pending
  <2>2. outcome'[r].err = result.err /\ submit'[r] \in {"sent", "returned"}
    BY <1>1, <1>2, <1>6
  <2>3. Accepted(r)'
    BY <1>4, <2>2 DEF Accepted
  <2>4. ASSUME NEW q \in Request PROVE Accepted(q)' = Accepted(q)
    <3>1. ASSUME q # r PROVE outcome'[q] = outcome[q]
      BY <1>1, <1>6, <3>1
    <3>2. CASE q = r
      BY <2>1, <2>3, <3>2
    <3>3. CASE q # r
      BY <1>1, <3>1, <3>3 DEF Accepted
    <3> QED BY <3>2, <3>3
  <2> QED BY <2>4 DEF SameCalls
<1>11. UNCHANGED <<Backlog, number>>
  BY <1>1 DEF Backlog
<1>12. SeesAnswer(r)
  BY <1>5, <1>7, <1>8, <1>9, <1>10, <1>11 DEF SeesAnswer
<1> QED BY <1>12

\* The Store decides on the whole batch.
LEMMA PublishIsSeen ==
    ASSUME Inv, OpenInv, NEW fits, Publish(fits)
    PROVE  SeesDecision(fits)
<1>1. /\ batch \in Seq(Request) /\ queue \in Seq(Request)
      /\ batch # <<>> /\ ~Stored /\ Backlog = batch \o queue
  BY DEF Publish, Inv, TypeOK, OpenInv, Stored, Backlog
<1>2. /\ Len(batch) \in Nat \ {0} /\ Len(queue) \in Nat
      /\ Len(Backlog) = Len(batch) + Len(queue)
      /\ Backlog \in Seq(Request)
      /\ \A i \in 1 .. Len(batch) : Backlog[i] = batch[i]
      /\ \A i \in 1 .. Len(queue) : Backlog[Len(batch) + i] = queue[i]
  BY <1>1, Concatenated, EmptySeq
<1> DEFINE n == Len(batch)
           m == Len(queue)
           first == SubSeq(Backlog, 1, n)
           rest == SubSeq(Backlog, n + 1, n + m)
<1>3. n \in DOMAIN Backlog
  BY <1>2
<1>4. first = batch
  <2>1. first \in Seq(Request) /\ Len(first) = n /\ \A i \in 1 .. n : first[i] = Backlog[i]
    BY <1>2
  <2>2. \A i \in 1 .. Len(first) : first[i] = batch[i]
    BY <1>2, <2>1
  <2> HIDE DEF first
  <2> QED BY <1>1, <2>1, <2>2, SeqEqual
<1>5. rest = queue
  <2>1. /\ rest \in Seq(Request)
        /\ Len(rest) = m
        /\ \A i \in 1 .. m : rest[i] = Backlog[n + i]
    BY <1>2
  <2>2. \A i \in 1 .. Len(rest) : rest[i] = queue[i]
    BY <1>2, <2>1
  <2> HIDE DEF rest
  <2> QED BY <1>1, <2>1, <2>2, SeqEqual
<1>6. ASSUME NEW i \in DOMAIN batch PROVE batch[i] \in Request /\ Accepted(batch[i])
  <2>1. batch[i] \in Request /\ InBatch(batch[i])
    BY <1>1, <1>6, ElementOfSeq DEF InBatch, Range
  <2>2. submit[batch[i]] \in {"sent", "returned"} /\ outcome[batch[i]] = Pending
    BY <2>1 DEF Inv, CustodyInv, AnsweredOnce, OpenInv
  <2> QED BY <2>1, <2>2 DEF Accepted, Pending
<1>7. /\ UNCHANGED <<batch, queue, outcome, submit>>
      /\ Stored'
      /\ number' = IF fits THEN number + 1 ELSE number
      /\ result' = [generation |-> number', err |-> IF fits THEN "ok" ELSE "ErrBuild"]
  BY <1>1 DEF Publish, Stored, callVars
<1>8. SameCalls /\ UNCHANGED outcome /\ Backlog' = queue
  BY <1>7 DEF SameCalls, Accepted, Backlog
<1>9. Fate' = [r \in Request |->
                  IF \E i \in DOMAIN batch : batch[i] = r
                  THEN [generation |-> number', err |-> IF fits THEN "ok" ELSE "ErrBuild"]
                  ELSE Fate[r]]
  <2>1. \A r \in Request : InBatch(r) <=> \E i \in DOMAIN batch : batch[i] = r
    BY DEF InBatch, Range
  <2> QED BY <1>1, <1>7, <2>1 DEF Fate, InBatch
<1>10. Backlog' = SubSeq(Backlog, n + 1, Len(Backlog))
  BY <1>2, <1>5, <1>8
<1> QED BY <1>3, <1>4, <1>6, <1>7, <1>8, <1>9, <1>10 DEF SeesDecision

\* What Submit may be given: what is on its way to the channel is some of it.
OnTheWay(asks, all) ==
    \A r \in Request : submit[r] \in {"lock", "sending"} => asks[r] \in all

LEMMA StepOnTheWay ==
    ASSUME TypeOK, NEW all, NEW old, DOMAIN old = Request, NEW new, OnTheWay(old, all),
           \/ /\ new = old
              /\ \/ \E q \in Request : SubmitInvalid(q) \/ SubmitStep(q)
                 \/ \E c \in Closer : CloseCall(c) \/ CloseStep(c)
                 \/ Writer
                 \/ UNCHANGED protocolVars
           \/ \E q \in Request, m \in all : SubmitNormalized(q) /\ new = [old EXCEPT ![q] = m],
           NEW r \in Request, submit'[r] \in {"lock", "sending"}
    PROVE  new[r] \in all
<1>1. submit[r] \in {"lock", "sending"} => old[r] \in all
  BY DEF OnTheWay
<1>2. ASSUME NEW q \in Request, SubmitInvalid(q) PROVE submit[r] \in {"lock", "sending"}
  BY <1>2 DEF SubmitInvalid, TypeOK
<1>3. ASSUME NEW q \in Request, SubmitStep(q) PROVE submit[r] \in {"lock", "sending"}
  BY <1>3 DEF SubmitStep, SubmitLock, SubmitUnlockClosed, SubmitErrClosed, SubmitSend,
      SubmitUnlock, TypeOK
<1>4. ASSUME NEW c \in Closer, CloseCall(c) \/ CloseStep(c) PROVE submit' = submit
  BY <1>4 DEF CloseCall, CloseStep, CloseOnceFirst, CloseOnceLater, CloseLock, CloseStop,
      CloseUnlockLater, CloseReturn
<1>5. Writer => submit' = submit
  BY WriterLeavesCalls DEF callVars
<1>6. UNCHANGED protocolVars => submit' = submit
  BY DEF protocolVars, callVars
<1>7. ASSUME NEW q \in Request, NEW m \in all, SubmitNormalized(q), new = [old EXCEPT ![q] = m]
      PROVE  new[r] \in all
  BY <1>1, <1>7 DEF SubmitNormalized, TypeOK
<1> QED BY <1>1, <1>2, <1>3, <1>4, <1>5, <1>6, <1>7

\* A step of a caller, whichever it is,
LEMMA CallsAreSeen ==
    ASSUME Inv, OpenInv, NEW r \in Request, SubmitInvalid(r) \/ SubmitStep(r)
    PROVE  SeesNothing \/ SeesRefusal(r) \/ SeesAcceptance(r)
<1>1. CASE SubmitInvalid(r) \/ SubmitErrClosed(r)
  BY <1>1, RefusalIsSeen
<1>2. CASE SubmitSend(r)
  BY <1>2, SendIsSeen
<1>3. CASE SubmitLock(r) \/ SubmitUnlockClosed(r) \/ SubmitUnlock(r)
  BY <1>3, OtherCallsAreUnseen DEF Inv
<1> QED BY <1>1, <1>2, <1>3 DEF SubmitStep

\* and one of the writer outside publish.
LEMMA CollectIsSeen ==
    ASSUME Inv, OpenInv, Collect
    PROVE  SeesNothing \/ \E r \in Request : SeesAnswer(r)
BY NotifyIsSeen, GatheringIsUnseen
=============================================================================
