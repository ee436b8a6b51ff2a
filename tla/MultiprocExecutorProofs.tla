---------------------- MODULE MultiprocExecutorProofs -----------------------
(* Proofs about the RPCs of MultiprocExecutor for any number of workers and *)
(* calls: no future is lost, and without timeouts, aggregation and          *)
(* tolerated errors every result is made of the answers to its own call.    *)
EXTENDS MultiprocExecutor, TLAPS

(* Zenon, with a minute for each leaf; the leaves that count name SMT.      *)
USE ZenonT(60)

-----------------------------------------------------------------------------
(* The strengthening of UndoneAreQueued: calls not made yet have no         *)
(* outcome, the future being served is older than the queued ones, and at   *)
(* is one of the ranks that answer it.                                      *)
QueueInv ==
  /\ UndoneAreQueued
  /\ config \in Configs /\ Len(calls) <= MaxCalls
  /\ \A c \in Call : c > Len(calls) => outcome[c] = "none"
  /\ \A i \in 1 .. Len(futures) : cur < futures[i]
  /\ cur # 0 => FirstRank(cur) <= at /\ at <= LastRank(cur)

(* The strengthening of ResultsOfOwnCall.                                   *)
Plain == ~Timeouts /\ ~Aggregated /\ ~Tolerant

(* The calls whose answers by w are still to be read.                       *)
Expected(w) ==
  {c \in 1 .. taken[w] : Answers(w, c) /\ outcome[c] = "none" /\ ~(c = cur /\ w < at)}

Increasing(q) == \A i, j \in 1 .. Len(q) : i < j => q[i].call < q[j].call
CallsOf(q) == {q[i].call : i \in 1 .. Len(q)}

(* They are in w's queues, in the order of the calls.                       *)
Stream(w) ==
  /\ Increasing(resp[w]) /\ Increasing(outq[w])
  /\ \A a \in CallsOf(resp[w]), b \in CallsOf(outq[w]) : a < b
  /\ CallsOf(resp[w]) \cup CallsOf(outq[w]) = Expected(w)

(* A call that all workers answer is awaited at once, so nothing is left to *)
(* be served when it fails.                                                 *)
AllFailed == \E c \in 1 .. Len(calls) : calls[c].rank = All /\ outcome[c] = "error"

CallsInv ==
  /\ shut => dead = Worker
  /\ \A w \in Worker : taken[w] <= Len(calls)
  /\ ~Async => \A w \in Worker : outq[w] = <<>>
  /\ \A c \in 1 .. Len(calls) :
       /\ ~calls[c].timed /\ calls[c].rank \in {OutputRank, All}
       /\ calls[c].rank = All /\ outcome[c] = "none" => wait = c /\ c = Len(calls)
       /\ AllFailed => outcome[c] # "none"

(* What has been read of a call its worker has taken.                       *)
TakenInv ==
  ~shut /\ ~AllFailed =>
    \A w \in Worker, c \in 1 .. Len(calls) :
      Answers(w, c) /\ (outcome[c] # "none" \/ (c = cur /\ w < at)) => c <= taken[w]

UsedInv ==
  /\ \A c \in Call : outcome[c] = "ok" =>
       \A w \in FirstRank(c) .. LastRank(c) : used[c][w] = c
  /\ cur # 0 => \A w \in FirstRank(cur) .. at - 1 : used[cur][w] = cur

AnswersInv ==
  /\ CallsInv /\ TakenInv /\ UsedInv
  /\ \A w \in Worker : AllFailed \/ (shut /\ resp[w] = <<>>) \/ Stream(w)

ExecutorInv == QueueInv /\ (Plain => AnswersInv)

-----------------------------------------------------------------------------
(* Sequences: what the queue operations do to the elements.                 *)

(* The head and the tail of a sequence that is not empty.                   *)
LEMMA TailOf ==
  ASSUME NEW S, NEW q \in Seq(S), q # <<>>
  PROVE  /\ Len(q) \in Nat \ {0} /\ Head(q) = q[1] /\ q[1] \in S
         /\ Tail(q) \in Seq(S) /\ Len(Tail(q)) = Len(q) - 1
         /\ \A i \in 1 .. Len(Tail(q)) : i + 1 \in 1 .. Len(q) /\ Tail(q)[i] = q[i + 1]
  BY SMTT(60)

(* A sequence with one more item.                                           *)
LEMMA AppendTo ==
  ASSUME NEW S, NEW q \in Seq(S), NEW x \in S
  PROVE  /\ Append(q, x) \in Seq(S) /\ Len(Append(q, x)) = Len(q) + 1 /\ Len(q) \in Nat
         /\ \A i \in 1 .. Len(q) : Append(q, x)[i] = q[i]
         /\ Append(q, x)[Len(q) + 1] = x
  BY SMTT(60)

(* futures_queue: the oldest future leaves it, the newest joins it.         *)
LEMMA PopFuture ==
  ASSUME NEW q \in Seq(Call), q # <<>>,
         \A i, j \in 1 .. Len(q) : i < j => q[i] < q[j]
  PROVE  /\ Head(q) \in Call /\ Tail(q) \in Seq(Call)
         /\ Range(q) = {Head(q)} \cup Range(Tail(q))
         /\ \A i \in 1 .. Len(Tail(q)) : Head(q) < Tail(q)[i]
         /\ \A i, j \in 1 .. Len(Tail(q)) : i < j => Tail(q)[i] < Tail(q)[j]
<1>1. /\ Len(q) \in Nat \ {0} /\ Head(q) = q[1] /\ q[1] \in Call
      /\ Tail(q) \in Seq(Call) /\ Len(Tail(q)) = Len(q) - 1
      /\ \A i \in 1 .. Len(Tail(q)) : i + 1 \in 1 .. Len(q) /\ Tail(q)[i] = q[i + 1]
  BY TailOf
<1>2. DOMAIN q = 1 .. Len(q) /\ DOMAIN Tail(q) = 1 .. Len(Tail(q))
  BY <1>1, SMTT(60)
<1>3. Range(q) = {Head(q)} \cup Range(Tail(q))
  <2>1. \A i \in 1 .. Len(q) : i = 1 \/ (i - 1 \in 1 .. Len(Tail(q)) /\ q[i] = Tail(q)[i - 1])
    BY <1>1, SMTT(60)
  <2>2. 1 \in 1 .. Len(q)
    BY <1>1, SMTT(60)
  <2>3. Range(q) = {q[i] : i \in 1 .. Len(q)}
        /\ Range(Tail(q)) = {Tail(q)[i] : i \in 1 .. Len(Tail(q))}
    BY <1>2 DEF Range
  <2>4. ASSUME NEW x \in Range(Tail(q)) PROVE x \in Range(q)
    <3>1. PICK i \in 1 .. Len(Tail(q)) : x = Tail(q)[i]
      BY <2>3
    <3>2. QED BY <1>1, <2>3, <3>1
  <2>5. ASSUME NEW x \in Range(q) PROVE x = Head(q) \/ x \in Range(Tail(q))
    <3>1. PICK i \in 1 .. Len(q) : x = q[i]
      BY <2>3
    <3>2. QED BY <1>1, <2>1, <2>3, <3>1
  <2>6. Head(q) \in Range(q)
    BY <1>1, <2>2, <2>3
  <2>7. QED BY <2>4, <2>5, <2>6
<1>4. \A i \in 1 .. Len(Tail(q)) : Head(q) < Tail(q)[i]
  BY <1>1, SMTT(60)
<1>5. \A i, j \in 1 .. Len(Tail(q)) : i < j => Tail(q)[i] < Tail(q)[j]
  BY <1>1, SMTT(60)
<1>6. QED BY <1>1, <1>3, <1>4, <1>5

(* A future that is newer than all others goes to the back of the queue.    *)
LEMMA PushFuture ==
  ASSUME NEW q \in Seq(Call), NEW c \in Call, \A x \in Range(q) : x < c,
         \A i, j \in 1 .. Len(q) : i < j => q[i] < q[j]
  PROVE  /\ Append(q, c) \in Seq(Call) /\ Range(Append(q, c)) = Range(q) \cup {c}
         /\ \A i, j \in 1 .. Len(Append(q, c)) : i < j => Append(q, c)[i] < Append(q, c)[j]
<1>1. /\ Append(q, c) \in Seq(Call) /\ Len(Append(q, c)) = Len(q) + 1 /\ Len(q) \in Nat
      /\ \A i \in 1 .. Len(q) : Append(q, c)[i] = q[i]
      /\ Append(q, c)[Len(q) + 1] = c
  BY AppendTo
<1>2. DOMAIN q = 1 .. Len(q) /\ DOMAIN Append(q, c) = 1 .. Len(q) + 1
  BY <1>1, SMTT(60)
<1>3. \A i \in 1 .. Len(q) + 1 : i \in 1 .. Len(q) \/ i = Len(q) + 1
  BY <1>1, SMTT(60)
<1>4. \A i \in 1 .. Len(q) : i \in 1 .. Len(q) + 1
  BY <1>1, SMTT(60)
<1>5. Range(Append(q, c)) = Range(q) \cup {c}
  <2>1. Len(q) + 1 \in 1 .. Len(q) + 1
    BY <1>1, SMTT(60)
  <2>2. QED BY <1>1, <1>2, <1>3, <1>4, <2>1 DEF Range
<1>6. \A i \in 1 .. Len(q) : q[i] < c
  BY <1>2 DEF Range
<1>7. \A i, j \in 1 .. Len(Append(q, c)) : i < j => Append(q, c)[i] < Append(q, c)[j]
  BY <1>1, <1>3, <1>6, SMTT(60)
<1>8. QED BY <1>1, <1>5, <1>7

(* A response queue or output queue: the same with the answers' calls.      *)
LEMMA ReadAnswer ==
  ASSUME NEW q \in Seq(Answer), q # <<>>
  PROVE  /\ Head(q) \in Answer /\ Tail(q) \in Seq(Answer)
         /\ CallsOf(q) = {Head(q).call} \cup CallsOf(Tail(q))
         /\ Increasing(q) =>
              Increasing(Tail(q)) /\ \A a \in CallsOf(Tail(q)) : Head(q).call < a
<1>1. /\ Len(q) \in Nat \ {0} /\ Head(q) = q[1] /\ q[1] \in Answer
      /\ Tail(q) \in Seq(Answer) /\ Len(Tail(q)) = Len(q) - 1
      /\ \A i \in 1 .. Len(Tail(q)) : i + 1 \in 1 .. Len(q) /\ Tail(q)[i] = q[i + 1]
  BY TailOf
<1>2. CallsOf(q) = {Head(q).call} \cup CallsOf(Tail(q))
  <2>1. \A i \in 1 .. Len(q) : i = 1 \/ (i - 1 \in 1 .. Len(Tail(q)) /\ q[i] = Tail(q)[i - 1])
    BY <1>1, SMTT(60)
  <2>2. 1 \in 1 .. Len(q)
    BY <1>1, SMTT(60)
  <2>3. QED BY <1>1, <2>1, <2>2, SMTT(60) DEF CallsOf
<1>3. ASSUME Increasing(q) PROVE \A a \in CallsOf(Tail(q)) : Head(q).call < a
  <2>1. \A i \in 1 .. Len(Tail(q)) : q[1].call < q[i + 1].call
    BY <1>1, <1>3, SMTT(60) DEF Increasing
  <2>2. QED BY <1>1, <2>1 DEF CallsOf
<1>4. ASSUME Increasing(q) PROVE Increasing(Tail(q))
  BY <1>1, <1>4, SMTT(60) DEF Increasing
<1>5. QED BY <1>1, <1>2, <1>3, <1>4

(* An answer written to a queue adds its call to the calls answered there.  *)
LEMMA WriteAnswer ==
  ASSUME NEW q \in Seq(Answer), NEW x \in Answer
  PROVE  /\ Append(q, x) \in Seq(Answer)
         /\ CallsOf(Append(q, x)) = CallsOf(q) \cup {x.call}
         /\ Increasing(q) /\ (\A a \in CallsOf(q) : a < x.call) => Increasing(Append(q, x))
<1>1. /\ Append(q, x) \in Seq(Answer) /\ Len(Append(q, x)) = Len(q) + 1 /\ Len(q) \in Nat
      /\ \A i \in 1 .. Len(q) : Append(q, x)[i] = q[i]
      /\ Append(q, x)[Len(q) + 1] = x
  BY AppendTo
<1>2. /\ \A i \in 1 .. Len(q) + 1 : i \in 1 .. Len(q) \/ i = Len(q) + 1
      /\ \A i \in 1 .. Len(q) : i \in 1 .. Len(q) + 1
      /\ Len(q) + 1 \in 1 .. Len(q) + 1
  BY <1>1, SMTT(60)
<1>3. CallsOf(Append(q, x)) = CallsOf(q) \cup {x.call}
  BY <1>1, <1>2 DEF CallsOf
<1>4. ASSUME Increasing(q), \A a \in CallsOf(q) : a < x.call PROVE Increasing(Append(q, x))
  <2>1. \A i \in 1 .. Len(q) : q[i].call < x.call
    BY <1>4 DEF CallsOf
  <2>2. QED BY <1>1, <1>2, <1>4, <2>1, SMTT(60) DEF Increasing
<1>5. QED BY <1>1, <1>3, <1>4

-----------------------------------------------------------------------------
(* No future is lost.                                                       *)

CallRec == [rank : Worker \cup {All}, timed : BOOLEAN]

(* Facts about the numbers and ranks of calls.                              *)
LEMMA Numbers ==
  ASSUME QueueInv
  PROVE  /\ NWorker \in Nat \ {0} /\ MaxCalls \in Nat /\ OutputRank \in Worker
         /\ calls \in Seq(CallRec) /\ Len(calls) \in Nat /\ Len(calls) <= MaxCalls
         /\ cur \in Nat /\ cur <= Len(calls) /\ wait \in 0 .. MaxCalls
         /\ cur # 0 => cur \in 1 .. Len(calls) /\ outcome[cur] = "none"
         /\ \A x \in Range(futures) : x \in 1 .. Len(calls) /\ outcome[x] = "none"
         /\ \A c \in 1 .. Len(calls) :
              /\ c \in Call /\ calls[c] \in CallRec
              /\ FirstRank(c) \in Worker /\ LastRank(c) \in Worker /\ FirstRank(c) <= LastRank(c)
<1>1. NWorker \in Nat \ {0} /\ MaxCalls \in Nat /\ OutputRank \in Worker
  BY ExecutorAssumption, SMTT(60) DEF OutputRank, Worker
<1>2. calls \in Seq(CallRec) /\ Len(calls) \in Nat /\ Len(calls) <= MaxCalls
  BY SMTT(60) DEF QueueInv, UndoneAreQueued, TypeOK, CallRec
<1>3. {c \in 1 .. Len(calls) : outcome[c] = "none"} = Range(futures) \cup ({cur} \ {0})
  BY DEF QueueInv, UndoneAreQueued
<1>4. cur \in 0 .. MaxCalls /\ wait \in 0 .. MaxCalls
  BY DEF QueueInv, UndoneAreQueued, TypeOK
<1>5. cur # 0 => cur \in 1 .. Len(calls) /\ outcome[cur] = "none"
  BY <1>3
<1>6. cur \in Nat /\ cur <= Len(calls)
  BY <1>1, <1>2, <1>4, <1>5, SMTT(60)
<1>7. \A x \in Range(futures) : x \in 1 .. Len(calls) /\ outcome[x] = "none"
  BY <1>3
<1>8. ASSUME NEW c \in 1 .. Len(calls)
      PROVE  /\ c \in Call /\ calls[c] \in CallRec
             /\ FirstRank(c) \in Worker /\ LastRank(c) \in Worker /\ FirstRank(c) <= LastRank(c)
  <2>1. c \in Call /\ calls[c] \in CallRec
    BY <1>1, <1>2, SMTT(60) DEF Call
  <2>2. calls[c].rank \in Worker \cup {All}
    BY <2>1 DEF CallRec
  <2>3. 0 \in Worker /\ NWorker - 1 \in Worker
    BY <1>1, SMTT(60) DEF Worker
  <2>4. \A w \in Worker : w <= w /\ 0 <= w
    BY <1>1, SMTT(60) DEF Worker
  <2>5. QED BY <2>1, <2>2, <2>3, <2>4 DEF FirstRank, LastRank
<1>9. QED BY <1>1, <1>2, <1>4, <1>5, <1>6, <1>7, <1>8

(* The queue invariant holds initially.                                     *)
LEMMA QueueInit == Init => QueueInv
<1> SUFFICES ASSUME Init PROVE QueueInv
  OBVIOUS
<1>1. TypeOK
  <2>1. 0 \in 0 .. MaxCalls /\ 0 \in Worker
    BY ExecutorAssumption, SMTT(60) DEF Worker
  <2>2. calls \in Seq([rank : Worker \cup {All}, timed : BOOLEAN]) /\ futures \in Seq(Call)
    BY SMTT(60) DEF Init
  <2>3. outq \in [Worker -> Seq(Answer)] /\ resp \in [Worker -> Seq(Answer)]
    BY SMTT(60) DEF Init
  <2>4. QED BY <2>1, <2>2, <2>3, SMTT(60) DEF Init, TypeOK
<1>2. Len(calls) = 0 /\ Len(futures) = 0 /\ Range(futures) = {} /\ 1 .. 0 = {}
  BY SMTT(60) DEF Init, Range
<1>3. UndoneAreQueued
  BY <1>1, <1>2 DEF Init, UndoneAreQueued
<1>4. QED BY <1>2, <1>3, ExecutorAssumption, SMTT(60) DEF Init, QueueInv

(* A call joins the end of futures_queue.                                   *)
LEMMA QueueRpc ==
  ASSUME QueueInv, NEW rank \in {OutputRank, All}, NEW timed \in BOOLEAN, NEW nonBlock,
         CollectiveRpc(rank, timed, nonBlock)
  PROVE  QueueInv'
<1> DEFINE n == Len(calls) + 1  call == [rank |-> rank, timed |-> timed]
<1>1. /\ NWorker \in Nat \ {0} /\ MaxCalls \in Nat /\ OutputRank \in Worker
      /\ calls \in Seq(CallRec) /\ Len(calls) \in Nat /\ Len(calls) <= MaxCalls
      /\ cur \in Nat /\ cur <= Len(calls) /\ wait \in 0 .. MaxCalls
      /\ cur # 0 => cur \in 1 .. Len(calls) /\ outcome[cur] = "none"
      /\ \A x \in Range(futures) : x \in 1 .. Len(calls) /\ outcome[x] = "none"
  BY Numbers
<1>2. /\ calls' = Append(calls, call) /\ futures' = Append(futures, n)
      /\ wait' \in {0, n} /\ Len(calls) < MaxCalls
      /\ UNCHANGED <<config, taken, outq, dead, resp, outcome, used, cur, at, isFailed, shut>>
  BY DEF CollectiveRpc, workerVars
<1>3. n \in Call /\ n \in 0 .. MaxCalls /\ 0 \in 0 .. MaxCalls /\ n > Len(calls)
  BY <1>1, <1>2, SMTT(60) DEF Call
<1>4. call \in CallRec
  BY <1>1 DEF CallRec
<1>5. /\ calls' \in Seq(CallRec) /\ Len(calls') = n
      /\ \A i \in 1 .. Len(calls) : calls'[i] = calls[i]
  BY <1>1, <1>2, <1>4, SMTT(60)
<1>6. futures \in Seq(Call) /\ \A i, j \in 1 .. Len(futures) : i < j => futures[i] < futures[j]
  BY DEF QueueInv, UndoneAreQueued, TypeOK
<1>7. \A x \in Range(futures) : x < n
  BY <1>1, SMTT(60)
<1>8. /\ futures' \in Seq(Call) /\ Range(futures') = Range(futures) \cup {n}
      /\ \A i, j \in 1 .. Len(futures') : i < j => futures'[i] < futures'[j]
  BY <1>2, <1>3, <1>6, <1>7, PushFuture
<1>9. TypeOK'
  BY <1>2, <1>3, <1>5, <1>8 DEF QueueInv, UndoneAreQueued, TypeOK, CallRec
<1>10. {c \in 1 .. n : outcome[c] = "none"} = {c \in 1 .. Len(calls) : outcome[c] = "none"} \cup {n}
  <2>1. outcome[n] = "none"
    BY <1>3 DEF QueueInv
  <2>2. \A c : c \in 1 .. n <=> c \in 1 .. Len(calls) \/ c = n
    BY <1>1, SMTT(60)
  <2>3. QED BY <2>1, <2>2
<1>11. cur # n
  BY <1>1, SMTT(60)
<1>12. UndoneAreQueued'
  BY <1>2, <1>5, <1>8, <1>9, <1>10, <1>11 DEF QueueInv, UndoneAreQueued
<1>13. \A i \in 1 .. Len(futures') : cur < futures'[i]
  <2>1. /\ \A i \in 1 .. Len(futures) : futures'[i] = futures[i]
        /\ futures'[Len(futures) + 1] = n /\ Len(futures') = Len(futures) + 1 /\ Len(futures) \in Nat
    BY <1>2, <1>3, <1>6, SMTT(60)
  <2>2. \A i \in 1 .. Len(futures) : cur < futures[i]
    BY DEF QueueInv
  <2>3. cur < n
    BY <1>1, SMTT(60)
  <2>4. \A i \in 1 .. Len(futures) + 1 : i \in 1 .. Len(futures) \/ i = Len(futures) + 1
    BY <2>1, SMTT(60)
  <2>5. QED BY <2>1, <2>2, <2>3, <2>4
<1>14. cur # 0 => FirstRank(cur)' = FirstRank(cur) /\ LastRank(cur)' = LastRank(cur)
  BY <1>1, <1>2, <1>5 DEF FirstRank, LastRank
<1>15. n <= MaxCalls /\ \A c \in Call : c > n => c > Len(calls)
  BY <1>1, <1>2, SMTT(60) DEF Call
<1>16. QED BY <1>2, <1>5, <1>12, <1>13, <1>14, <1>15 DEF QueueInv

(* The oldest future is taken out to be served.                             *)
LEMMA QueuePop ==
  ASSUME QueueInv, Pop
  PROVE  QueueInv'
<1>1. /\ \A x \in Range(futures) : x \in 1 .. Len(calls) /\ outcome[x] = "none"
      /\ \A c \in 1 .. Len(calls) :
           c \in Call /\ FirstRank(c) \in Worker /\ FirstRank(c) <= LastRank(c)
      /\ NWorker \in Nat \ {0} /\ MaxCalls \in Nat
  BY Numbers
<1>2. /\ cur = 0 /\ cur' = Head(futures) /\ futures' = Tail(futures)
      /\ at' = FirstRank(Head(futures)) /\ futures # <<>>
      /\ UNCHANGED <<config, calls, taken, outq, dead, resp, outcome, used, wait, isFailed, shut>>
  BY DEF Pop, workerVars
<1>3. futures \in Seq(Call) /\ \A i, j \in 1 .. Len(futures) : i < j => futures[i] < futures[j]
  BY DEF QueueInv, UndoneAreQueued, TypeOK
<1>4. /\ cur' \in Call /\ futures' \in Seq(Call)
      /\ Range(futures) = {cur'} \cup Range(futures')
      /\ \A i \in 1 .. Len(futures') : cur' < futures'[i]
      /\ \A i, j \in 1 .. Len(futures') : i < j => futures'[i] < futures'[j]
  BY <1>2, <1>3, PopFuture
<1>5. cur' \in 1 .. Len(calls) /\ cur' # 0 /\ cur' \in 0 .. MaxCalls
  <2>1. cur' \in 1 .. Len(calls)
    BY <1>1, <1>4
  <2>2. QED BY <1>1, <1>4, <2>1, SMTT(60) DEF Call
<1>6. cur' \notin Range(futures')
  <2>1. DOMAIN futures' = 1 .. Len(futures')
    BY <1>4, SMTT(60)
  <2>2. ASSUME cur' \in Range(futures') PROVE FALSE
    <3>1. PICK i \in 1 .. Len(futures') : cur' = futures'[i]
      BY <2>1, <2>2 DEF Range
    <3>2. cur' < cur'
      BY <1>4, <3>1
    <3>3. QED BY <1>5, <3>2, SMTT(60)
  <2>3. QED BY <2>2
<1>7. TypeOK'
  BY <1>1, <1>2, <1>4, <1>5 DEF QueueInv, UndoneAreQueued, TypeOK
<1>8. UndoneAreQueued'
  BY <1>2, <1>4, <1>5, <1>6, <1>7 DEF QueueInv, UndoneAreQueued
<1>9. FirstRank(cur') <= LastRank(cur')
  BY <1>1, <1>5
<1>10. FirstRank(cur)' = at' /\ LastRank(cur)' = LastRank(cur')
  BY <1>2 DEF FirstRank, LastRank
<1>11. at' <= at'
  BY <1>1, <1>2, <1>5, SMTT(60) DEF Worker
<1>12. QED BY <1>2, <1>4, <1>8, <1>9, <1>10, <1>11 DEF QueueInv

(* The future being served is done.                                         *)
LEMMA QueueFinish ==
  ASSUME QueueInv, cur # 0, NEW o \in {"ok", "error"}, Finish(o), TypeOK',
         UNCHANGED <<config, calls, futures, at>>
  PROVE  QueueInv'
<1>1. cur \in 1 .. Len(calls) /\ cur \in Call /\ Len(calls) \in Nat
  BY Numbers
<1>2. /\ cur' = 0 /\ outcome' = [outcome EXCEPT ![cur] = o]
      /\ outcome \in [Call -> {"none", "ok", "error"}]
  BY DEF Finish, QueueInv, UndoneAreQueued, TypeOK
<1>3. \A c \in Call : outcome'[c] = "none" <=> (outcome[c] = "none" /\ c # cur)
  BY <1>2
<1>4. \A c \in 1 .. Len(calls) : c \in Call
  BY Numbers
<1>5. UndoneAreQueued'
  <2>1. 0 \notin Range(futures)
    <3>1. \A x \in Range(futures) : x \in 1 .. Len(calls)
      BY Numbers
    <3>2. 0 \notin 1 .. Len(calls)
      BY <1>1, SMTT(60)
    <3>3. QED BY <3>1, <3>2
  <2>2. QED BY <1>2, <1>3, <1>4, <2>1 DEF QueueInv, UndoneAreQueued
<1>6. \A i \in 1 .. Len(futures) : 0 < futures[i]
  <2>1. futures \in Seq(Call)
    BY DEF QueueInv, UndoneAreQueued, TypeOK
  <2>2. QED BY <2>1, ExecutorAssumption, SMTT(60) DEF Call
<1>7. \A c \in Call : c > Len(calls) => outcome'[c] = "none"
  <2>1. \A c \in Call : c > Len(calls) => c # cur
    BY <1>1, SMTT(60) DEF Call
  <2>2. QED BY <1>3, <2>1 DEF QueueInv
<1>8. QED BY <1>2, <1>5, <1>6, <1>7 DEF QueueInv

(* One answer is read.                                                      *)
LEMMA QueueReceive ==
  ASSUME QueueInv, Receive
  PROVE  QueueInv'
<1>1. /\ cur # 0 /\ at \in Worker /\ resp[at] \in Seq(Answer) /\ resp[at] # <<>>
      /\ resp \in [Worker -> Seq(Answer)] /\ used \in [Call -> [Worker -> 0 .. MaxCalls]]
      /\ outcome \in [Call -> {"none", "ok", "error"}]
  BY DEF QueueInv, UndoneAreQueued, TypeOK, Receive
<1>2. cur \in 1 .. Len(calls) /\ cur \in Call /\ LastRank(cur) \in Worker /\ MaxCalls \in Nat
  BY <1>1, Numbers
<1>3. Head(resp[at]) \in Answer /\ Tail(resp[at]) \in Seq(Answer)
  BY <1>1, ReadAnswer
<1>4. Head(resp[at]).call \in 0 .. MaxCalls
  <2>1. Head(resp[at]).call \in Call
    BY <1>3 DEF Answer
  <2>2. QED BY <1>2, <2>1, SMTT(60) DEF Call
<1>5. resp' \in [Worker -> Seq(Answer)]
  BY <1>1, <1>3 DEF Receive
<1>6. UNCHANGED <<config, calls, taken, outq, dead, futures, wait, isFailed, shut>>
  BY DEF Receive, workerVars
<1>7. used' \in [Call -> [Worker -> 0 .. MaxCalls]]
  <2>1. \/ used' = used
        \/ used' = [used EXCEPT ![cur][at] = Head(resp[at]).call]
    BY DEF Receive
  <2>2. [used[cur] EXCEPT ![at] = Head(resp[at]).call] \in [Worker -> 0 .. MaxCalls]
    BY <1>1, <1>2, <1>4
  <2>3. QED BY <1>1, <1>2, <2>1, <2>2
<1>8. ASSUME NEW o \in {"ok", "error"}, Finish(o), UNCHANGED at PROVE QueueInv'
  <2>1. outcome' \in [Call -> {"none", "ok", "error"}] /\ cur' \in 0 .. MaxCalls
    BY <1>1, <1>2, <1>8, SMTT(60) DEF Finish
  <2>2. TypeOK'
    BY <1>5, <1>6, <1>7, <1>8, <2>1 DEF QueueInv, UndoneAreQueued, TypeOK
  <2>3. QED BY <1>1, <1>6, <1>8, <2>2, QueueFinish
<1>9. ASSUME at # LastRank(cur), at' = at + 1, UNCHANGED <<outcome, cur>> PROVE QueueInv'
  <2>1. FirstRank(cur) <= at /\ at <= LastRank(cur)
    BY <1>1 DEF QueueInv
  <2>2. FirstRank(cur) \in Worker
    BY <1>2, Numbers
  <2>3. at' \in Worker /\ FirstRank(cur) <= at' /\ at' <= LastRank(cur)
    BY <1>1, <1>2, <1>9, <2>1, <2>2, ExecutorAssumption, SMTT(60) DEF Worker
  <2>4. TypeOK'
    BY <1>5, <1>6, <1>7, <1>9, <2>3 DEF QueueInv, UndoneAreQueued, TypeOK
  <2>5. UndoneAreQueued'
    BY <1>6, <1>9, <2>4 DEF QueueInv, UndoneAreQueued
  <2>6. QED BY <1>6, <1>9, <2>3, <2>5 DEF QueueInv, FirstRank, LastRank
<1>10. QED BY <1>8, <1>9 DEF Receive

(* A worker runs a call or hands on an output.                              *)
LEMMA QueueWork ==
  ASSUME QueueInv, NEW w \in Worker, WorkerStep(w)
  PROVE  QueueInv'
<1>1. /\ taken \in [Worker -> 0 .. MaxCalls] /\ outq \in [Worker -> Seq(Answer)]
      /\ resp \in [Worker -> Seq(Answer)]
  BY DEF QueueInv, UndoneAreQueued, TypeOK
<1>2. Len(calls) \in Nat /\ Len(calls) <= MaxCalls /\ MaxCalls \in Nat
  BY Numbers
<1>3. UNCHANGED <<config, calls, dead, engineVars, isFailed, shut>>
  BY DEF WorkerStep, Execute, SendOutput
<1>4. CASE Execute(w)
  <2>1. taken[w] + 1 \in 0 .. MaxCalls /\ taken[w] + 1 \in Call
    BY <1>1, <1>2, <1>4, SMTT(60) DEF Execute, Call
  <2>2. \A ok \in BOOLEAN : [call |-> taken[w] + 1, ok |-> ok] \in Answer
    BY <2>1 DEF Answer
  <2>3. taken' \in [Worker -> 0 .. MaxCalls]
    BY <1>1, <1>4, <2>1 DEF Execute
  <2>4. \A ok \in BOOLEAN :
          /\ Append(outq[w], [call |-> taken[w] + 1, ok |-> ok]) \in Seq(Answer)
          /\ Append(resp[w], [call |-> taken[w] + 1, ok |-> ok]) \in Seq(Answer)
    BY <1>1, <2>2, WriteAnswer
  <2>5. outq' \in [Worker -> Seq(Answer)] /\ resp' \in [Worker -> Seq(Answer)]
    BY <1>1, <1>4, <2>4 DEF Execute
  <2>6. QED BY <1>3, <2>3, <2>5
    DEF QueueInv, UndoneAreQueued, TypeOK, engineVars, FirstRank, LastRank
<1>5. CASE SendOutput(w)
  <2>1. outq[w] \in Seq(Answer) /\ outq[w] # <<>> /\ resp[w] \in Seq(Answer)
    BY <1>1, <1>5 DEF SendOutput
  <2>2. Head(outq[w]) \in Answer /\ Tail(outq[w]) \in Seq(Answer)
    BY <2>1, ReadAnswer
  <2>3. \A ok \in BOOLEAN : [call |-> Head(outq[w]).call, ok |-> Head(outq[w]).ok /\ ok] \in Answer
    BY <2>2, SMTT(60) DEF Answer
  <2>4. \A ok \in BOOLEAN :
          Append(resp[w], [call |-> Head(outq[w]).call, ok |-> Head(outq[w]).ok /\ ok]) \in Seq(Answer)
    BY <2>1, <2>3, WriteAnswer
  <2>5. outq' \in [Worker -> Seq(Answer)] /\ resp' \in [Worker -> Seq(Answer)]
    BY <1>1, <1>5, <2>2, <2>4 DEF SendOutput
  <2>6. taken' = taken
    BY <1>5 DEF SendOutput
  <2>7. QED BY <1>3, <2>5, <2>6
    DEF QueueInv, UndoneAreQueued, TypeOK, engineVars, FirstRank, LastRank
<1>6. QED BY <1>4, <1>5 DEF WorkerStep

(* Every step keeps the books of the futures.                               *)
LEMMA QueueStep == QueueInv /\ [Next]_vars => QueueInv'
<1> SUFFICES ASSUME QueueInv, [Next]_vars PROVE QueueInv'
  OBVIOUS
<1>1. ASSUME NEW rank \in {OutputRank, All}, NEW timed \in IF Timeouts THEN BOOLEAN ELSE {FALSE},
             NEW nonBlock \in BOOLEAN, CollectiveRpc(rank, timed, nonBlock)
      PROVE  QueueInv'
  <2>1. timed \in BOOLEAN
    OBVIOUS
  <2>2. QED BY <1>1, <2>1, QueueRpc
<1>2. ASSUME NEW c \in Call, Result(c) PROVE QueueInv'
  <2>1. c \in 0 .. MaxCalls
    BY ExecutorAssumption, SMTT(60) DEF Call
  <2>2. QED BY <1>2, <2>1
    DEF Result, workerVars, QueueInv, UndoneAreQueued, TypeOK, FirstRank, LastRank
<1>3. CASE Pop
  BY <1>3, QueuePop
<1>4. CASE Receive
  BY <1>4, QueueReceive
<1>5. CASE Timeout \/ Cancelled
  <2>1. /\ cur # 0 /\ Finish("error")
        /\ UNCHANGED <<config, calls, taken, outq, dead, resp, futures, used, wait, at, isFailed, shut>>
    BY <1>5 DEF Timeout, Cancelled, workerVars
  <2>2. cur \in Call /\ 0 \in 0 .. MaxCalls
    <3>1. cur \in Call
      BY <2>1, Numbers
    <3>2. QED BY <3>1, ExecutorAssumption, SMTT(60)
  <2>3. outcome' \in [Call -> {"none", "ok", "error"}] /\ cur' \in 0 .. MaxCalls
    BY <2>1, <2>2 DEF Finish, QueueInv, UndoneAreQueued, TypeOK
  <2>4. TypeOK'
    BY <2>1, <2>3 DEF QueueInv, UndoneAreQueued, TypeOK
  <2>5. QED BY <2>1, <2>4, QueueFinish
<1>6. CASE Return
  <2>1. 0 \in 0 .. MaxCalls
    BY ExecutorAssumption, SMTT(60)
  <2>2. QED BY <1>6, <2>1
    DEF Return, workerVars, QueueInv, UndoneAreQueued, TypeOK, FirstRank, LastRank
<1>7. ASSUME NEW w \in Worker, WorkerStep(w) PROVE QueueInv'
  BY <1>7, QueueWork
<1>8. ASSUME NEW w \in Worker, Die(w) PROVE QueueInv'
  BY <1>8 DEF Die, engineVars, QueueInv, UndoneAreQueued, TypeOK, FirstRank, LastRank
<1>9. CASE Monitor \/ Shutdown
  BY <1>9
  DEF Monitor, Shutdown, workerVars, engineVars, QueueInv, UndoneAreQueued, TypeOK, FirstRank, LastRank
<1>10. CASE UNCHANGED vars
  BY <1>10
  DEF vars, workerVars, engineVars, QueueInv, UndoneAreQueued, TypeOK, FirstRank, LastRank
<1>11. QED
  BY <1>1, <1>2, <1>3, <1>4, <1>5, <1>6, <1>7, <1>8, <1>9, <1>10 DEF Next, EngineStep

(* FutureWrapper.result never finds futures_queue empty before its own      *)
(* future is done, for any number of workers and calls, in every            *)
(* configuration, with dying workers, timeouts and failing calls.           *)
THEOREM NoFutureLost == Spec => []UndoneAreQueued
<1>1. QueueInv => UndoneAreQueued
  BY DEF QueueInv
<1>2. QED BY <1>1, QueueInit, QueueStep, PTL DEF Spec

-----------------------------------------------------------------------------
(* Every result is made of the answers to its own call.                     *)

(* The workers that answer a call are those whose queues its future reads.  *)
LEMMA AnswerRanks ==
  ASSUME QueueInv, CallsInv, NEW c \in 1 .. Len(calls), NEW w \in Worker
  PROVE  Answers(w, c) <=> FirstRank(c) <= w /\ w <= LastRank(c)
<1>1. NWorker \in Nat \ {0}
  BY ExecutorAssumption
<1>2. calls[c].rank \in {OutputRank, All}
  BY DEF CallsInv
<1>3. w \in Int /\ 0 <= w /\ w <= NWorker - 1
  BY <1>1, SMTT(60) DEF Worker
<1>4. CASE calls[c].rank = All
  BY <1>3, <1>4 DEF Answers, FirstRank, LastRank
<1>5. CASE calls[c].rank = OutputRank
  <2>1. OutputRank # All /\ OutputRank \in Int
    BY <1>1, SMTT(60) DEF OutputRank, All
  <2>2. FirstRank(c) = OutputRank /\ LastRank(c) = OutputRank
    BY <1>5, <2>1 DEF FirstRank, LastRank
  <2>3. Answers(w, c) <=> w = OutputRank
    BY <1>5, <2>1 DEF Answers
  <2>4. QED BY <1>3, <2>1, <2>2, <2>3, SMTT(60)
<1>6. QED BY <1>2, <1>4, <1>5

(* An answer read by the future being served is the answer to its call.     *)
LEMMA ReadsOwnAnswer ==
  ASSUME QueueInv, AnswersInv, cur # 0, resp[at] # <<>>
  PROVE  /\ ~AllFailed /\ Stream(at) /\ Head(resp[at]).call = cur /\ cur \in Expected(at)
<1>1. cur \in 1 .. Len(calls) /\ outcome[cur] = "none"
  BY Numbers
<1>2. at \in Worker /\ resp[at] \in Seq(Answer) /\ outq[at] \in Seq(Answer) /\ taken[at] \in 0 .. MaxCalls
  BY DEF QueueInv, UndoneAreQueued, TypeOK
<1>3. ~AllFailed
  BY <1>1 DEF AnswersInv, CallsInv
<1>4. Stream(at)
  BY <1>2, <1>3 DEF AnswersInv
<1> DEFINE h == Head(resp[at]).call
<1>5. /\ Head(resp[at]) \in Answer
      /\ CallsOf(resp[at]) = {h} \cup CallsOf(Tail(resp[at]))
      /\ \A a \in CallsOf(Tail(resp[at])) : h < a
  BY <1>2, <1>4, ReadAnswer DEF Stream
<1>6. h \in Expected(at) /\ \A x \in Expected(at) : x = h \/ h < x
  BY <1>4, <1>5 DEF Stream
<1>7. h \in 1 .. taken[at] /\ outcome[h] = "none" /\ h <= Len(calls)
  <2>1. h \in 1 .. taken[at] /\ outcome[h] = "none"
    BY <1>6 DEF Expected
  <2>2. taken[at] <= Len(calls)
    BY <1>2 DEF AnswersInv, CallsInv
  <2>3. Len(calls) \in Nat /\ MaxCalls \in Nat
    BY Numbers
  <2>4. QED BY <1>2, <2>1, <2>2, <2>3, SMTT(60)
<1>8. cur <= h
  <2>1. h \in 1 .. Len(calls)
    <3>1. Len(calls) \in Nat
      BY Numbers
    <3>2. QED BY <1>2, <1>7, <3>1, SMTT(60)
  <2>2. h = cur \/ h \in Range(futures)
    BY <1>7, <2>1 DEF QueueInv, UndoneAreQueued
  <2>3. \A x \in Range(futures) : cur < x
    <3>1. DOMAIN futures = 1 .. Len(futures)
      BY SMTT(60) DEF QueueInv, UndoneAreQueued, TypeOK
    <3>2. QED BY <3>1 DEF QueueInv, Range
  <2>4. QED BY <1>1, <2>1, <2>2, <2>3, SMTT(60)
<1>9. cur \in Expected(at)
  <2>1. cur \in 1 .. taken[at]
    BY <1>1, <1>2, <1>7, <1>8, SMTT(60)
  <2>2. Answers(at, cur)
    <3>1. FirstRank(cur) <= at /\ at <= LastRank(cur)
      BY DEF QueueInv
    <3>2. QED BY <1>1, <1>2, <3>1, AnswerRanks DEF AnswersInv
  <2>3. ~(at < at)
    BY <1>2, ExecutorAssumption, SMTT(60) DEF Worker
  <2>4. QED BY <1>1, <2>1, <2>2, <2>3 DEF Expected
<1>10. h = cur
  BY <1>1, <1>6, <1>7, <1>8, <1>9, SMTT(60)
<1>11. QED BY <1>3, <1>4, <1>9, <1>10

(* A new call.                                                              *)
LEMMA AnswersRpc ==
  ASSUME QueueInv, Plain, AnswersInv, NEW rank \in {OutputRank, All}, NEW nonBlock,
         CollectiveRpc(rank, FALSE, nonBlock)
  PROVE  AnswersInv'
<1> DEFINE n == Len(calls) + 1
<1>1. /\ Len(calls) \in Nat /\ calls \in Seq(CallRec) /\ cur \in Nat /\ cur <= Len(calls)
      /\ cur # 0 => cur \in 1 .. Len(calls)
      /\ NWorker \in Nat \ {0} /\ MaxCalls \in Nat /\ OutputRank \in Worker
  BY Numbers
<1>2. /\ calls' = Append(calls, [rank |-> rank, timed |-> FALSE])
      /\ wait = 0 /\ wait' = (IF nonBlock THEN 0 ELSE n) /\ Len(calls) < MaxCalls
      /\ nonBlock => rank = OutputRank
      /\ UNCHANGED <<config, taken, outq, dead, resp, outcome, used, cur, at, isFailed, shut>>
  BY DEF CollectiveRpc, workerVars, Plain
<1>3. [rank |-> rank, timed |-> FALSE] \in CallRec
  BY <1>1 DEF CallRec
<1>4. /\ Len(calls') = n /\ calls'[n] = [rank |-> rank, timed |-> FALSE]
      /\ \A c \in 1 .. Len(calls) : calls'[c] = calls[c]
  BY <1>1, <1>2, <1>3, SMTT(60)
<1>5. \A c : c \in 1 .. n <=> c \in 1 .. Len(calls) \/ c = n
  BY <1>1, SMTT(60)
<1>6. n \in Call /\ outcome[n] = "none" /\ n # 0 /\ n # cur
  <2>1. n \in Call /\ n > Len(calls) /\ n # 0 /\ n # cur
    BY <1>1, <1>2, SMTT(60) DEF Call
  <2>2. QED BY <2>1 DEF QueueInv
<1>7. ~AllFailed /\ ~AllFailed'
  <2>1. \A c \in 1 .. Len(calls) : c \in Call /\ outcome[c] # "error"
    BY Numbers DEF CollectiveRpc, Running, Plain
  <2>2. outcome' = outcome /\ outcome[n] # "error"
    BY <1>2, <1>6
  <2>3. QED BY <1>4, <1>5, <2>1, <2>2 DEF AllFailed
<1>8. OutputRank # All
  BY <1>1, SMTT(60) DEF OutputRank, All
<1>9. \A c \in 1 .. Len(calls) : ~(calls[c].rank = All /\ outcome[c] = "none")
  <2>1. \A c \in 1 .. Len(calls) : c # 0
    BY <1>1, SMTT(60)
  <2>2. QED BY <1>2, <2>1 DEF AnswersInv, CallsInv
<1>10. CallsInv'
  <2>1. \A w \in Worker : taken[w] <= n
    <3>1. taken \in [Worker -> 0 .. MaxCalls] /\ \A w \in Worker : taken[w] <= Len(calls)
      BY DEF QueueInv, UndoneAreQueued, TypeOK, AnswersInv, CallsInv
    <3>2. QED BY <1>1, <3>1, SMTT(60)
  <2>2. ASSUME NEW c \in 1 .. n
        PROVE  /\ ~calls'[c].timed /\ calls'[c].rank \in {OutputRank, All}
               /\ calls'[c].rank = All /\ outcome[c] = "none" => wait' = c /\ c = n
    <3>1. CASE c = n
      <4>1. calls'[c].rank = rank /\ calls'[c].timed = FALSE
        BY <1>4, <3>1, SMTT(60)
      <4>2. rank = All => wait' = n
        BY <1>2, <1>8
      <4>3. QED BY <3>1, <4>1, <4>2
    <3>2. CASE c \in 1 .. Len(calls)
      BY <1>4, <1>9, <3>2 DEF AnswersInv, CallsInv
    <3>3. QED BY <1>5, <3>1, <3>2
  <2>3. QED BY <1>2, <1>4, <1>7, <2>1, <2>2 DEF AnswersInv, CallsInv, Async
<1>11. \A w \in Worker, c \in 1 .. Len(calls) : Answers(w, c)' = Answers(w, c)
  BY <1>4 DEF Answers
<1>12. TakenInv'
  BY <1>2, <1>4, <1>5, <1>6, <1>7, <1>11 DEF AnswersInv, TakenInv
<1>13. UsedInv'
  <2>1. \A c \in Call : outcome[c] = "ok" => c \in 1 .. Len(calls)
    <3>1. \A c \in Call : c > Len(calls) \/ c \in 1 .. Len(calls)
      BY <1>1, SMTT(60) DEF Call
    <3>2. QED BY <3>1 DEF QueueInv
  <2>2. \A c \in 1 .. Len(calls) : FirstRank(c)' = FirstRank(c) /\ LastRank(c)' = LastRank(c)
    BY <1>4 DEF FirstRank, LastRank
  <2>3. cur # 0 => FirstRank(cur)' = FirstRank(cur)
    BY <1>1, <1>2, <1>4 DEF FirstRank
  <2>4. QED BY <1>2, <2>1, <2>2, <2>3 DEF AnswersInv, UsedInv
<1>14. ASSUME NEW w \in Worker PROVE Expected(w)' = Expected(w)
  <2>1. \A c \in 1 .. taken[w] : c \in 1 .. Len(calls)
    <3>1. taken[w] \in 0 .. MaxCalls /\ taken[w] <= Len(calls)
      BY DEF QueueInv, UndoneAreQueued, TypeOK, AnswersInv, CallsInv
    <3>2. QED BY <1>1, <3>1, SMTT(60)
  <2>2. QED BY <1>2, <1>11, <2>1 DEF Expected
<1>15. QED BY <1>2, <1>7, <1>10, <1>12, <1>13, <1>14 DEF AnswersInv, Stream

(* The engine begins or ends a wait.                                        *)
LEMMA AnswersWait ==
  ASSUME QueueInv, AnswersInv, (\E c \in Call : Result(c)) \/ Return
  PROVE  AnswersInv'
<1>1. UNCHANGED <<config, calls, taken, outq, dead, resp, outcome, used, cur, at, isFailed, shut>>
  BY DEF Result, Return, workerVars
<1>2. \A c \in 1 .. Len(calls) : ~(calls[c].rank = All /\ outcome[c] = "none")
  <2>1. \A c \in 1 .. Len(calls) : c # 0
    BY Numbers, SMTT(60)
  <2>2. wait = 0 \/ outcome[wait] # "none"
    BY DEF Result, Return
  <2>3. QED BY <2>1, <2>2 DEF AnswersInv, CallsInv
<1>3. AllFailed' = AllFailed
  BY <1>1 DEF AllFailed
<1>4. CallsInv'
  BY <1>1, <1>2, <1>3 DEF AnswersInv, CallsInv, Async
<1>5. TakenInv' /\ UsedInv'
  BY <1>1, <1>3 DEF AnswersInv, TakenInv, UsedInv, Answers, FirstRank, LastRank
<1>6. \A w \in Worker : Stream(w)' = Stream(w)
  BY <1>1 DEF Stream, Expected, Answers
<1>7. QED BY <1>1, <1>3, <1>4, <1>5, <1>6 DEF AnswersInv

(* The next future is served: none of its answers has been read.            *)
LEMMA AnswersPop ==
  ASSUME QueueInv, AnswersInv, Pop
  PROVE  AnswersInv'
<1>1. /\ cur = 0 /\ cur' = Head(futures) /\ at' = FirstRank(Head(futures)) /\ futures # <<>>
      /\ UNCHANGED <<config, calls, taken, outq, dead, resp, outcome, used, wait, isFailed, shut>>
  BY DEF Pop, workerVars
<1>2. cur' \in 1 .. Len(calls)
  <2>1. futures \in Seq(Call) /\ \A i, j \in 1 .. Len(futures) : i < j => futures[i] < futures[j]
    BY DEF QueueInv, UndoneAreQueued, TypeOK
  <2>2. Range(futures) = {Head(futures)} \cup Range(Tail(futures))
    BY <1>1, <2>1, PopFuture
  <2>3. QED BY <1>1, <2>2, Numbers
<1>3. \A w \in Worker, c \in 1 .. Len(calls) : Answers(w, c) /\ c = cur' => ~(w < at')
  <2>1. ASSUME NEW w \in Worker, Answers(w, cur') PROVE ~(w < at')
    <3>1. FirstRank(cur') <= w /\ FirstRank(cur') = at'
      BY <1>1, <1>2, <2>1, AnswerRanks DEF AnswersInv
    <3>2. FirstRank(cur') \in Worker
      BY <1>2, Numbers
    <3>3. QED BY <3>1, <3>2, ExecutorAssumption, SMTT(60) DEF Worker
  <2>2. QED BY <2>1
<1>4. AllFailed' = AllFailed /\ \A w, c : Answers(w, c)' = Answers(w, c)
  BY <1>1 DEF AllFailed, Answers
<1>5. CallsInv'
  BY <1>1, <1>4 DEF AnswersInv, CallsInv, Async
<1>6. \A c \in 1 .. Len(calls) : c # 0
  BY Numbers, SMTT(60)
<1>7. TakenInv'
  BY <1>1, <1>3, <1>4, <1>6 DEF AnswersInv, TakenInv
<1>8. UsedInv'
  <2>1. FirstRank(cur)' = at' /\ at' \in Worker
    <3>1. FirstRank(cur') \in Worker
      BY <1>2, Numbers
    <3>2. QED BY <1>1, <3>1 DEF FirstRank
  <2>2. \A w \in at' .. at' - 1 : FALSE
    <3>1. at' \in Int
      BY <2>1, ExecutorAssumption, SMTT(60) DEF Worker
    <3>2. \A a \in Int : \A w \in a .. a - 1 : FALSE
      BY SMTT(60)
    <3>3. QED BY <3>1, <3>2
  <2>3. \A c \in Call : FirstRank(c)' = FirstRank(c) /\ LastRank(c)' = LastRank(c)
    BY <1>1 DEF FirstRank, LastRank
  <2>4. QED BY <1>1, <2>1, <2>2, <2>3 DEF AnswersInv, UsedInv
<1>9. ASSUME NEW w \in Worker PROVE Expected(w)' = Expected(w)
  <2>1. \A c \in 1 .. taken[w] : c \in 1 .. Len(calls)
    <3>1. taken[w] \in 0 .. MaxCalls /\ taken[w] <= Len(calls) /\ Len(calls) \in Nat
      BY Numbers DEF QueueInv, UndoneAreQueued, TypeOK, AnswersInv, CallsInv
    <3>2. QED BY <3>1, SMTT(60)
  <2>2. QED BY <1>1, <1>3, <1>4, <1>6, <2>1 DEF Expected
<1>10. QED BY <1>1, <1>4, <1>5, <1>7, <1>8, <1>9 DEF AnswersInv, Stream

(* The effect of a finished call on what is expected of the workers.        *)
LEMMA FinishExpected ==
  ASSUME QueueInv, AnswersInv, cur # 0, NEW o \in {"ok", "error"}, Finish(o),
         UNCHANGED <<calls, taken, at>>
  PROVE  /\ \A w, c : Answers(w, c)' = Answers(w, c)
         /\ cur \in 1 .. Len(calls) /\ cur \in Call /\ cur' = 0
         /\ \A c \in Call : outcome'[c] = IF c = cur THEN o ELSE outcome[c]
         /\ \A w \in Worker : Expected(w)' = Expected(w) \ {cur}
<1>1. cur \in 1 .. Len(calls) /\ cur \in Call /\ Len(calls) \in Nat /\ MaxCalls \in Nat
  BY Numbers
<1>2. outcome \in [Call -> {"none", "ok", "error"}] /\ taken \in [Worker -> 0 .. MaxCalls]
  BY DEF QueueInv, UndoneAreQueued, TypeOK
<1>3. cur' = 0 /\ \A c \in Call : outcome'[c] = IF c = cur THEN o ELSE outcome[c]
  BY <1>1, <1>2 DEF Finish
<1>4. \A w, c : Answers(w, c)' = Answers(w, c)
  BY DEF Answers
<1>5. ASSUME NEW w \in Worker PROVE Expected(w)' = Expected(w) \ {cur}
  <2>1. \A c \in 1 .. taken[w] : c \in Call /\ c # 0
    <3>1. taken[w] \in 0 .. MaxCalls
      BY <1>2
    <3>2. QED BY <1>1, <3>1, SMTT(60) DEF Call
  <2>2. \A c \in 1 .. taken[w] : outcome'[c] = "none" <=> (outcome[c] = "none" /\ c # cur)
    BY <1>3, <2>1
  <2>3. QED BY <1>3, <1>4, <2>1, <2>2 DEF Expected
<1>6. QED BY <1>1, <1>3, <1>4, <1>5

(* What no step after a failure of the awaited call of all workers changes. *)
LEMMA AllFailedEnds ==
  ASSUME QueueInv, AnswersInv, cur # 0, calls[cur].rank = All
  PROVE  \A c \in 1 .. Len(calls) : c # cur => outcome[c] # "none"
<1>1. cur \in 1 .. Len(calls) /\ outcome[cur] = "none" /\ Len(calls) \in Nat
  BY Numbers
<1>2. cur = Len(calls)
  BY <1>1 DEF AnswersInv, CallsInv
<1>3. \A x \in Range(futures) : x \in 1 .. Len(calls) /\ cur < x
  <2>1. DOMAIN futures = 1 .. Len(futures)
    BY SMTT(60) DEF QueueInv, UndoneAreQueued, TypeOK
  <2>2. QED BY <2>1, Numbers DEF QueueInv, Range
<1>4. \A x \in 1 .. Len(calls) : ~(Len(calls) < x)
  BY <1>1, SMTT(60)
<1>5. QED BY <1>2, <1>3, <1>4 DEF QueueInv, UndoneAreQueued

(* The call fails: with the failed answer read, or the queues shut down.    *)
LEMMA AnswersFail ==
  ASSUME QueueInv, AnswersInv, cur # 0, Finish("error"),
         UNCHANGED <<config, calls, workerVars, futures, used, wait, at, isFailed, shut>>,
         \/ /\ resp[at] # <<>> /\ resp' = [resp EXCEPT ![at] = Tail(@)]
         \/ /\ shut /\ resp[at] = <<>> /\ resp' = resp
  PROVE  AnswersInv'
<1>1. /\ \A w, c : Answers(w, c)' = Answers(w, c)
      /\ cur \in 1 .. Len(calls) /\ cur \in Call /\ cur' = 0
      /\ \A c \in Call : outcome'[c] = IF c = cur THEN "error" ELSE outcome[c]
      /\ \A w \in Worker : Expected(w)' = Expected(w) \ {cur}
  BY FinishExpected DEF workerVars
<1>2. UNCHANGED <<taken, outq, dead>> /\ outcome[cur] = "none"
      /\ \A c \in 1 .. Len(calls) : c \in Call /\ c # 0
  <2>1. \A c \in 1 .. Len(calls) : c # 0
    BY Numbers, SMTT(60)
  <2>2. QED BY <2>1, Numbers DEF workerVars
<1>3. ~AllFailed
  BY <1>1, <1>2 DEF AnswersInv, CallsInv
<1>4. AllFailed' => calls[cur].rank = All
  BY <1>1, <1>2, <1>3 DEF AllFailed
<1>5. CallsInv'
  <2>1. AllFailed' => \A c \in 1 .. Len(calls) : outcome'[c] # "none"
    BY <1>1, <1>2, <1>4, AllFailedEnds
  <2>2. \A c \in 1 .. Len(calls) : outcome'[c] = "none" => outcome[c] = "none"
    BY <1>1, <1>2
  <2>3. QED BY <1>2, <2>1, <2>2 DEF AnswersInv, CallsInv, Async
<1>6. UsedInv'
  <2>1. \A c \in Call : outcome'[c] = "ok" => outcome[c] = "ok"
    BY <1>1
  <2>2. \A c \in Call : FirstRank(c)' = FirstRank(c) /\ LastRank(c)' = LastRank(c)
    BY DEF FirstRank, LastRank
  <2>3. QED BY <1>1, <2>1, <2>2 DEF AnswersInv, UsedInv
<1>7. ASSUME ~AllFailed' PROVE calls[cur].rank = OutputRank /\ \A w \in Worker : Answers(w, cur) => w = OutputRank
  <2>1. calls[cur].rank # All
    BY <1>1, <1>2, <1>7 DEF AllFailed
  <2>2. calls[cur].rank = OutputRank
    BY <1>1, <2>1 DEF AnswersInv, CallsInv
  <2>3. QED BY <2>1, <2>2 DEF Answers
<1>8. ASSUME ~AllFailed' PROVE at = OutputRank /\ at \in Worker
  <2>1. FirstRank(cur) = OutputRank /\ LastRank(cur) = OutputRank
    <3>1. OutputRank # All
      BY ExecutorAssumption, SMTT(60) DEF OutputRank, All
    <3>2. QED BY <1>7, <1>8, <3>1 DEF FirstRank, LastRank
  <2>2. FirstRank(cur) <= at /\ at <= LastRank(cur) /\ at \in Worker
    BY DEF QueueInv, UndoneAreQueued, TypeOK
  <2>3. QED BY <2>1, <2>2, ExecutorAssumption, SMTT(60) DEF Worker, OutputRank
<1>9. TakenInv'
  <2>1. SUFFICES ASSUME ~shut, ~AllFailed', NEW w \in Worker, NEW c \in 1 .. Len(calls),
                        Answers(w, c), outcome'[c] # "none"
                 PROVE  c <= taken[w]
    BY <1>1, <1>2 DEF TakenInv
  <2>2. CASE c # cur
    BY <1>1, <1>2, <1>3, <2>1, <2>2 DEF AnswersInv, TakenInv
  <2>3. CASE c = cur
    <3>1. w = at
      BY <1>7, <1>8, <2>1, <2>3
    <3>2. resp[at] # <<>>
      BY <2>1
    <3>3. cur \in 1 .. taken[at]
      BY <3>2, ReadsOwnAnswer DEF Expected
    <3>4. taken[at] \in Nat
      <4>1. taken[w] \in 0 .. MaxCalls
        BY DEF QueueInv, UndoneAreQueued, TypeOK
      <4>2. QED BY <3>1, <4>1, ExecutorAssumption, SMTT(60)
    <3>5. QED BY <2>3, <3>1, <3>3, <3>4, SMTT(60)
  <2>4. QED BY <2>2, <2>3
<1>10. ASSUME NEW w \in Worker, ~AllFailed'
       PROVE  (shut' /\ resp'[w] = <<>>) \/ Stream(w)'
  <2>1. resp \in [Worker -> Seq(Answer)]
    BY DEF QueueInv, UndoneAreQueued, TypeOK
  <2>2. CASE w # at
    <3>1. resp'[w] = resp[w] /\ outq'[w] = outq[w]
      BY <1>2, <2>1, <2>2
    <3>2. cur \notin Expected(w)
      BY <1>7, <1>8, <1>10, <2>2 DEF Expected
    <3>3. Expected(w)' = Expected(w)
      BY <1>1, <3>2
    <3>4. QED BY <1>3, <3>1, <3>3 DEF AnswersInv, Stream
  <2>3. CASE w = at /\ shut /\ resp[at] = <<>> /\ resp' = resp
    BY <2>3
  <2>4. CASE w = at /\ resp[at] # <<>> /\ resp' = [resp EXCEPT ![at] = Tail(@)]
    <3>1. Stream(at) /\ Head(resp[at]).call = cur
      BY <2>4, ReadsOwnAnswer
    <3>2. /\ CallsOf(resp[at]) = {cur} \cup CallsOf(Tail(resp[at]))
          /\ Increasing(Tail(resp[at])) /\ \A a \in CallsOf(Tail(resp[at])) : cur < a
      <4>1. resp[at] \in Seq(Answer)
        BY <2>1, <2>4
      <4>2. QED BY <2>4, <3>1, <4>1, ReadAnswer DEF Stream
    <3>3. resp'[at] = Tail(resp[at]) /\ outq'[at] = outq[at]
      BY <1>2, <2>1, <2>4
    <3>4. ~(cur < cur)
      BY <1>1, ExecutorAssumption, SMTT(60) DEF Call
    <3>5. cur \notin CallsOf(Tail(resp[at])) /\ cur \notin CallsOf(outq[at])
      BY <3>1, <3>2, <3>4 DEF Stream
    <3>6. CallsOf(Tail(resp[at])) \cup CallsOf(outq[at]) = Expected(at) \ {cur}
      BY <3>1, <3>2, <3>5 DEF Stream
    <3>7. QED BY <1>1, <2>4, <3>1, <3>2, <3>3, <3>6 DEF Stream
  <2>5. QED BY <2>2, <2>3, <2>4
<1>11. QED BY <1>5, <1>6, <1>9, <1>10 DEF AnswersInv

(* An answer that has been read leaves the stream of its worker.            *)
LEMMA StreamReads ==
  ASSUME QueueInv, AnswersInv, cur # 0, resp[at] # <<>>, NEW w \in Worker,
         resp' = [resp EXCEPT ![at] = Tail(@)], UNCHANGED <<outq, shut>>,
         Expected(w)' = IF w = at THEN Expected(w) \ {cur} ELSE Expected(w)
  PROVE  (shut' /\ resp'[w] = <<>>) \/ Stream(w)'
<1>1. resp \in [Worker -> Seq(Answer)]
  BY DEF QueueInv, UndoneAreQueued, TypeOK
<1>2. ~AllFailed /\ Stream(at) /\ Head(resp[at]).call = cur
  BY ReadsOwnAnswer
<1>3. CASE w # at
  <2>1. resp'[w] = resp[w] /\ outq'[w] = outq[w] /\ Expected(w)' = Expected(w)
    BY <1>1, <1>3
  <2>2. QED BY <1>2, <2>1 DEF AnswersInv, Stream
<1>4. CASE w = at
  <2>1. /\ CallsOf(resp[at]) = {cur} \cup CallsOf(Tail(resp[at]))
        /\ Increasing(Tail(resp[at])) /\ \A a \in CallsOf(Tail(resp[at])) : cur < a
    <3>1. resp[at] \in Seq(Answer)
      BY <1>1, <1>4
    <3>2. QED BY <1>2, <3>1, ReadAnswer DEF Stream
  <2>2. resp'[at] = Tail(resp[at]) /\ outq'[at] = outq[at]
    BY <1>1, <1>4
  <2>3. ~(cur < cur)
    BY Numbers, SMTT(60)
  <2>4. cur \notin CallsOf(Tail(resp[at])) /\ cur \notin CallsOf(outq[at])
    BY <1>2, <2>1, <2>3 DEF Stream
  <2>5. CallsOf(Tail(resp[at])) \cup CallsOf(outq[at]) = Expected(at) \ {cur}
    BY <1>2, <2>1, <2>4 DEF Stream
  <2>6. QED BY <1>2, <1>4, <2>1, <2>2, <2>5 DEF Stream
<1>5. QED BY <1>3, <1>4

(* get_response reads an answer that did not fail: the next rank is read,   *)
(* or the last one has been and the call is done.                           *)
LEMMA AnswersOk ==
  ASSUME QueueInv, AnswersInv, Receive, Head(resp[at]).ok
  PROVE  AnswersInv'
<1>1. /\ cur # 0 /\ resp[at] # <<>> /\ resp' = [resp EXCEPT ![at] = Tail(@)]
      /\ UNCHANGED <<config, calls, taken, outq, dead, wait, shut>>
  BY DEF Receive, workerVars
<1>2. /\ ~AllFailed /\ Head(resp[at]).call = cur /\ cur \in Expected(at)
  BY <1>1, ReadsOwnAnswer
<1>3. /\ used' = [used EXCEPT ![cur][at] = cur]
      /\ \/ at = LastRank(cur) /\ Finish("ok") /\ at' = at
         \/ at # LastRank(cur) /\ at' = at + 1 /\ outcome' = outcome /\ cur' = cur
  BY <1>2 DEF Receive
<1>4. /\ cur \in 1 .. Len(calls) /\ cur \in Call /\ cur \in Nat /\ Len(calls) \in Nat
      /\ outcome[cur] = "none" /\ NWorker \in Nat \ {0}
      /\ \A c \in 1 .. Len(calls) : c \in Call
  BY <1>1, Numbers
<1>5. \A c \in 1 .. Len(calls) : c # 0
  BY <1>4, SMTT(60)
<1>6. /\ at \in Worker /\ outcome \in [Call -> {"none", "ok", "error"}]
      /\ used \in [Call -> [Worker -> 0 .. MaxCalls]] /\ taken \in [Worker -> 0 .. MaxCalls]
      /\ FirstRank(cur) <= at /\ at <= LastRank(cur)
  BY <1>1 DEF QueueInv, UndoneAreQueued, TypeOK
<1>7. \A w, c : Answers(w, c)' = Answers(w, c)
  BY <1>1 DEF Answers
<1>8. \A c : FirstRank(c)' = FirstRank(c) /\ LastRank(c)' = LastRank(c)
  BY <1>1 DEF FirstRank, LastRank
<1>9. \A w \in Worker : Answers(w, cur) <=> FirstRank(cur) <= w /\ w <= LastRank(cur)
  BY <1>4, AnswerRanks DEF AnswersInv
<1>10. /\ cur' \in {0, cur} /\ \A c \in Call : c # cur => outcome'[c] = outcome[c]
       /\ outcome'[cur] \in {"none", "ok"} /\ (outcome'[cur] = "ok" => at = LastRank(cur))
       /\ (cur' = cur => outcome'[cur] = "none" /\ at' = at + 1)
       /\ (cur' # cur => outcome'[cur] = "ok")
  <2>1. cur # 0
    BY <1>1
  <2>2. CASE at = LastRank(cur) /\ Finish("ok") /\ at' = at
    BY <1>4, <1>6, <2>1, <2>2 DEF Finish
  <2>3. CASE at' = at + 1 /\ outcome' = outcome /\ cur' = cur
    BY <1>4, <2>3
  <2>4. QED BY <1>3, <2>2, <2>3
<1>11. /\ used'[cur][at] = cur /\ \A w \in Worker : w # at => used'[cur][w] = used[cur][w]
       /\ \A c \in Call : c # cur => used'[c] = used[c]
  <2>1. used' = [used EXCEPT ![cur] = [used[cur] EXCEPT ![at] = cur]]
    BY <1>3
  <2>2. used[cur] \in [Worker -> 0 .. MaxCalls]
    BY <1>4, <1>6
  <2>3. used'[cur] = [used[cur] EXCEPT ![at] = cur] /\ \A c \in Call : c # cur => used'[c] = used[c]
    BY <1>4, <1>6, <2>1
  <2>4. QED BY <1>6, <2>2, <2>3
<1>12. ~AllFailed'
  <2>1. \A c \in 1 .. Len(calls) : outcome'[c] = "error" => outcome[c] = "error"
    BY <1>4, <1>10
  <2>2. QED BY <1>1, <1>2, <2>1 DEF AllFailed
<1>13. CallsInv'
  <2>1. \A c \in 1 .. Len(calls) : outcome'[c] = "none" => outcome[c] = "none"
    BY <1>4, <1>10
  <2>2. QED BY <1>1, <1>12, <2>1 DEF AnswersInv, CallsInv, Async
<1>14. \A w \in Worker : w < at' <=> w < at \/ (w = at /\ at' = at + 1)
  <2>1. at' = at \/ at' = at + 1
    BY <1>3
  <2>2. QED BY <1>4, <1>6, <2>1, SMTT(60) DEF Worker
<1>15. \A w \in Worker : ~(w <= at) => ~(w < at) /\ w # at
  BY <1>4, <1>6, SMTT(60) DEF Worker
<1>16. \A w \in Worker : w <= at => w < at \/ w = at
  BY <1>4, <1>6, SMTT(60) DEF Worker
<1>17. TakenInv'
  <2>1. SUFFICES ASSUME ~shut, NEW w \in Worker, NEW c \in 1 .. Len(calls), Answers(w, c),
                        outcome'[c] # "none" \/ (c = cur' /\ w < at')
                 PROVE  c <= taken[w]
    BY <1>1, <1>7 DEF TakenInv
  <2>2. CASE c # cur
    <3>1. outcome[c] # "none"
      BY <1>4, <1>5, <1>10, <2>1, <2>2
    <3>2. QED BY <1>2, <2>1, <3>1 DEF AnswersInv, TakenInv
  <2>3. CASE c = cur /\ w < at
    BY <1>2, <2>1, <2>3 DEF AnswersInv, TakenInv
  <2>4. CASE c = cur /\ w = at
    <3>1. cur \in 1 .. taken[at] /\ taken[at] \in 0 .. MaxCalls
      BY <1>2, <1>6 DEF Expected
    <3>2. QED BY <2>4, <3>1, ExecutorAssumption, SMTT(60)
  <2>5. c # cur \/ w < at \/ w = at
    <3>1. CASE c = cur /\ outcome'[c] # "none"
      BY <1>9, <1>10, <1>16, <2>1, <3>1
    <3>2. CASE w < at'
      BY <1>14, <3>2
    <3>3. QED BY <2>1, <3>1, <3>2
  <2>6. QED BY <2>2, <2>3, <2>4, <2>5
<1>18. UsedInv'
  <2>1. \A w \in FirstRank(cur) .. at : w \in Worker /\ (w = at \/ w \in FirstRank(cur) .. at - 1)
    <3>1. FirstRank(cur) \in Worker
      BY <1>4, Numbers
    <3>2. QED BY <1>4, <1>6, <3>1, SMTT(60) DEF Worker
  <2>2. \A w \in FirstRank(cur) .. at - 1 : used[cur][w] = cur
    BY <1>1 DEF AnswersInv, UsedInv
  <2>3. \A w \in FirstRank(cur) .. at : used'[cur][w] = cur
    BY <1>11, <2>1, <2>2
  <2>4. ASSUME NEW c \in Call, outcome'[c] = "ok"
        PROVE  \A w \in FirstRank(c) .. LastRank(c) : used'[c][w] = c
    <3>1. CASE c # cur
      <4>1. outcome[c] = "ok" /\ used'[c] = used[c]
        BY <1>10, <1>11, <2>4, <3>1
      <4>2. QED BY <4>1 DEF AnswersInv, UsedInv
    <3>2. CASE c = cur
      BY <1>10, <2>3, <2>4, <3>2
    <3>3. QED BY <3>1, <3>2
  <2>5. cur' # 0 => \A w \in FirstRank(cur) .. at' - 1 : used'[cur][w] = cur
    <3>1. cur' # 0 => at' = at + 1
      BY <1>10
    <3>2. cur' # 0 => at' - 1 = at
      BY <1>4, <1>6, <3>1, SMTT(60) DEF Worker
    <3>3. QED BY <2>3, <3>2
  <2>6. cur' # 0 => cur' = cur
    BY <1>10
  <2>7. QED BY <1>8, <2>4, <2>5, <2>6 DEF UsedInv
<1>19. ASSUME NEW w \in Worker PROVE (shut' /\ resp'[w] = <<>>) \/ Stream(w)'
  <2>1. \A c \in 1 .. taken[w] : c \in Call /\ c # 0
    <3>1. taken[w] \in 0 .. MaxCalls
      BY <1>6
    <3>2. QED BY <3>1, ExecutorAssumption, SMTT(60) DEF Call
  <2>2. \A c \in 1 .. taken[w] : c # cur => (c \in Expected(w)' <=> c \in Expected(w))
    <3>1. SUFFICES ASSUME NEW c \in 1 .. taken[w], c # cur
                   PROVE  c \in Expected(w)' <=> c \in Expected(w)
      OBVIOUS
    <3>2. outcome'[c] = outcome[c] /\ c # cur' /\ Answers(w, c)' = Answers(w, c) /\ taken' = taken
      BY <1>1, <1>7, <1>10, <2>1, <3>1
    <3>3. QED BY <3>1, <3>2 DEF Expected
  <2>3. cur \in Expected(w) => cur \in 1 .. taken[w] /\ Answers(w, cur) /\ ~(w < at)
    BY DEF Expected
  <2>4. cur \in Expected(w)' <=>
          cur \in 1 .. taken[w] /\ Answers(w, cur) /\ outcome'[cur] = "none" /\ ~(cur = cur' /\ w < at')
    BY <1>1, <1>7 DEF Expected
  <2>5. ~(w = at /\ w < at)
    BY <1>4, <1>6, SMTT(60) DEF Worker
  <2>6. cur \in Expected(w)' <=> cur \in Expected(w) /\ w # at
    <3>1. CASE cur' = cur
      <4>1. outcome'[cur] = "none" /\ at' = at + 1
        BY <1>10, <3>1
      <4>2. w < at' <=> w < at \/ w = at
        BY <1>14, <4>1
      <4>3. cur \in Expected(w) <=> cur \in 1 .. taken[w] /\ Answers(w, cur) /\ ~(w < at)
        BY <1>4 DEF Expected
      <4>4. QED BY <2>4, <3>1, <4>1, <4>2, <4>3
    <3>2. CASE cur' # cur
      <4>1. outcome'[cur] = "ok" /\ at = LastRank(cur)
        BY <1>10, <3>2
      <4>2. Answers(w, cur) => w < at \/ w = at
        BY <1>9, <1>16, <4>1
      <4>3. QED BY <2>3, <2>4, <4>1, <4>2
    <3>3. QED BY <3>1, <3>2
  <2>7. Expected(w) \subseteq 1 .. taken[w] /\ Expected(w)' \subseteq 1 .. taken[w]
    BY <1>1 DEF Expected
  <2>8. Expected(w)' = IF w = at THEN Expected(w) \ {cur} ELSE Expected(w)
    <3>1. CASE w = at
      <4>1. \A c : c \in Expected(w)' <=> c \in Expected(w) /\ c # cur
        BY <2>2, <2>6, <2>7, <3>1
      <4>2. QED BY <3>1, <4>1
    <3>2. CASE w # at
      <4>1. \A c : c \in Expected(w)' <=> c \in Expected(w)
        BY <2>2, <2>6, <2>7, <3>2
      <4>2. QED BY <3>2, <4>1
    <3>3. QED BY <3>1, <3>2
  <2>9. QED BY <1>1, <2>8, StreamReads
<1>20. QED BY <1>13, <1>17, <1>18, <1>19 DEF AnswersInv

(* get_response, whatever it reads; the queue of a dead worker may be shut  *)
(* down, and no call has a deadline.                                        *)
LEMMA AnswersReceive ==
  ASSUME QueueInv, AnswersInv, Receive \/ Timeout \/ Cancelled
  PROVE  AnswersInv'
<1>1. CASE Receive /\ Head(resp[at]).ok
  BY <1>1, AnswersOk
<1>2. CASE Receive /\ ~Head(resp[at]).ok
  BY <1>2, AnswersFail DEF Receive
<1>3. CASE Timeout
  <2>1. cur \in 1 .. Len(calls)
    BY <1>3, Numbers DEF Timeout
  <2>2. QED BY <1>3, <2>1 DEF Timeout, AnswersInv, CallsInv
<1>4. CASE Cancelled
  BY <1>4, AnswersFail DEF Cancelled
<1>5. QED BY <1>1, <1>2, <1>3, <1>4

(* A step of a live worker changes nothing the engine or another worker     *)
(* reads but the end of w's stream.                                         *)
LEMMA AnswersWorker ==
  ASSUME QueueInv, AnswersInv, NEW w \in Worker, w \notin dead,
         UNCHANGED <<config, calls, dead, outcome, used, wait, cur, at, shut>>,
         NEW t, taken' = [taken EXCEPT ![w] = t], taken[w] <= t, t <= Len(calls), t \in Nat,
         NEW o, outq' = [outq EXCEPT ![w] = o], ~Async => o = <<>>,
         NEW r, resp' = [resp EXCEPT ![w] = r],
         ~AllFailed /\ Stream(w) => Stream(w)'
  PROVE  AnswersInv'
<1>1. /\ taken \in [Worker -> 0 .. MaxCalls] /\ outq \in [Worker -> Seq(Answer)]
      /\ resp \in [Worker -> Seq(Answer)]
  BY DEF QueueInv, UndoneAreQueued, TypeOK
<1>2. ~shut
  BY DEF AnswersInv, CallsInv
<1>3. \A v, c : Answers(v, c)' = Answers(v, c)
  BY DEF Answers
<1>4. AllFailed' <=> AllFailed
  BY DEF AllFailed
<1>5. taken'[w] = t /\ \A v \in Worker : v # w => taken'[v] = taken[v] /\ outq'[v] = outq[v] /\ resp'[v] = resp[v]
  BY <1>1
<1>6. \A v \in Worker : taken'[v] <= Len(calls)
  BY <1>5 DEF AnswersInv, CallsInv
<1>7. ~Async' => \A v \in Worker : outq'[v] = <<>>
  <2>1. ~Async' => ~Async
    BY DEF Async
  <2>2. outq'[w] = o
    BY <1>1
  <2>3. QED BY <1>5, <2>1, <2>2 DEF AnswersInv, CallsInv
<1>8. CallsInv'
  BY <1>4, <1>6, <1>7 DEF AnswersInv, CallsInv
<1>9. UsedInv'
  BY DEF AnswersInv, UsedInv, FirstRank, LastRank
<1>10. TakenInv'
  <2>1. SUFFICES ASSUME ~shut, ~AllFailed, NEW v \in Worker, NEW c \in 1 .. Len(calls),
                        Answers(v, c), outcome[c] # "none" \/ (c = cur /\ v < at)
                 PROVE  c <= taken'[v]
    BY <1>3, <1>4 DEF TakenInv
  <2>2. c <= taken[v]
    BY <2>1 DEF AnswersInv, TakenInv
  <2>3. CASE v # w
    BY <1>5, <2>2, <2>3
  <2>4. CASE v = w
    <3>1. taken[w] \in 0 .. MaxCalls /\ MaxCalls \in Nat /\ Len(calls) \in Nat
      BY <1>1, Numbers
    <3>2. c <= t
      BY <2>2, <2>4, <3>1, SMTT(60)
    <3>3. QED BY <1>5, <2>4, <3>2
  <2>5. QED BY <2>3, <2>4
<1>11. ASSUME NEW v \in Worker, ~AllFailed PROVE Stream(v)'
  <2>1. Stream(v)
    BY <1>2, <1>11 DEF AnswersInv
  <2>2. CASE v # w
    <3>1. taken'[v] = taken[v] /\ outq'[v] = outq[v] /\ resp'[v] = resp[v]
      BY <1>5, <2>2
    <3>2. Expected(v)' = Expected(v)
      BY <1>3, <3>1 DEF Expected
    <3>3. QED BY <2>1, <3>1, <3>2 DEF Stream
  <2>3. QED BY <1>11, <2>1, <2>2
<1>12. QED BY <1>4, <1>8, <1>9, <1>10, <1>11 DEF AnswersInv

(* _execute_worker_rpc answers the call after the last one taken.           *)
LEMMA AnswersExecute ==
  ASSUME QueueInv, AnswersInv, NEW w \in Worker, Execute(w)
  PROVE  AnswersInv'
<1> DEFINE n == taken[w] + 1
<1>1. /\ taken \in [Worker -> 0 .. MaxCalls] /\ outq \in [Worker -> Seq(Answer)]
      /\ resp \in [Worker -> Seq(Answer)]
  BY DEF QueueInv, UndoneAreQueued, TypeOK
<1>2. /\ w \notin dead /\ taken[w] < Len(calls) /\ taken' = [taken EXCEPT ![w] = n]
      /\ UNCHANGED <<config, calls, dead, outcome, used, wait, cur, at, shut>>
  BY DEF Execute, engineVars
<1>3. /\ Len(calls) \in Nat /\ MaxCalls \in Nat /\ Len(calls) <= MaxCalls
      /\ taken[w] \in 0 .. MaxCalls /\ taken[w] \in Nat
  <2>1. Len(calls) \in Nat /\ MaxCalls \in Nat /\ Len(calls) <= MaxCalls /\ taken[w] \in 0 .. MaxCalls
    BY <1>1, Numbers
  <2>2. QED BY <2>1, SMTT(60)
<1>4. /\ taken[w] <= n /\ n <= Len(calls) /\ n \in Nat /\ n \in Call /\ n \in 1 .. Len(calls)
      /\ \A c \in 1 .. n : c \in 1 .. taken[w] \/ c = n
      /\ \A c \in 1 .. taken[w] : c \in 1 .. n /\ c < n
      /\ n \in 1 .. n /\ ~(n <= taken[w])
  BY <1>2, <1>3, SMTT(60) DEF Call
<1>5. taken'[w] = n
  BY <1>1, <1>2
<1>6. ~shut
  BY <1>2 DEF AnswersInv, CallsInv
<1>7. \A c : Answers(w, c)' = Answers(w, c)
  BY <1>2 DEF Answers
<1>8. \A c \in 1 .. taken[w] : c \in Expected(w)' <=> c \in Expected(w)
  BY <1>2, <1>4, <1>5, <1>7 DEF Expected
<1>9. Expected(w) \subseteq 1 .. taken[w] /\ Expected(w)' \subseteq 1 .. n
  BY <1>5 DEF Expected
<1>10. ASSUME ~Answers(w, n), UNCHANGED <<outq, resp>> PROVE AnswersInv'
  <2>1. n \notin Expected(w)'
    BY <1>7, <1>10 DEF Expected
  <2>2. \A c : c \in Expected(w)' <=> c \in Expected(w)
    BY <1>4, <1>8, <1>9, <2>1
  <2>3. Expected(w)' = Expected(w)
    BY <2>2
  <2>4. Stream(w) => Stream(w)'
    BY <1>10, <2>3 DEF Stream
  <2>5. outq' = [outq EXCEPT ![w] = outq[w]] /\ resp' = [resp EXCEPT ![w] = resp[w]]
    BY <1>1, <1>10
  <2>6. ~Async => outq[w] = <<>>
    BY DEF AnswersInv, CallsInv
  <2>7. QED BY <1>2, <1>4, <2>4, <2>5, <2>6, AnswersWorker
<1>11. ASSUME ~AllFailed, Answers(w, n)
       PROVE  Expected(w)' = Expected(w) \cup {n} /\ \A c \in Expected(w) : c < n
  <2>1. outcome[n] = "none" /\ ~(n = cur /\ w < at)
    BY <1>4, <1>6, <1>11 DEF AnswersInv, TakenInv
  <2>2. n \in Expected(w)'
    BY <1>2, <1>4, <1>5, <1>7, <1>11, <2>1 DEF Expected
  <2>3. \A c : c \in Expected(w)' <=> c \in Expected(w) \/ c = n
    BY <1>4, <1>8, <1>9, <2>2
  <2>4. \A c \in Expected(w) : c < n
    BY <1>4, <1>9
  <2>5. QED BY <2>3, <2>4
<1>12. ASSUME NEW ok \in BOOLEAN
       PROVE  [call |-> n, ok |-> ok] \in Answer /\ [call |-> n, ok |-> ok].call = n
  BY <1>4, SMTT(60) DEF Answer
<1>13. ASSUME NEW ok \in BOOLEAN, Answers(w, n), Async, resp' = resp,
              outq' = [outq EXCEPT ![w] = Append(@, [call |-> n, ok |-> ok])]
       PROVE  AnswersInv'
  <2> DEFINE x == [call |-> n, ok |-> ok]  o == Append(outq[w], x)
  <2>1. x \in Answer /\ x.call = n
    BY <1>12
  <2>2. outq[w] \in Seq(Answer)
    BY <1>1
  <2> HIDE DEF x
  <2>3. CallsOf(o) = CallsOf(outq[w]) \cup {n}
        /\ (Increasing(outq[w]) /\ (\A a \in CallsOf(outq[w]) : a < n) => Increasing(o))
    BY <2>1, <2>2, WriteAnswer
  <2>4. outq' = [outq EXCEPT ![w] = o] /\ resp' = [resp EXCEPT ![w] = resp[w]]
    BY <1>1, <1>13 DEF x
  <2>5. outq'[w] = o /\ resp'[w] = resp[w]
    BY <1>1, <2>4
  <2> HIDE DEF o
  <2>6. ASSUME ~AllFailed, Stream(w) PROVE Stream(w)'
    <3>1. Expected(w)' = Expected(w) \cup {n} /\ \A c \in Expected(w) : c < n
      BY <1>11, <1>13, <2>6
    <3>2. \A c \in CallsOf(resp[w]) \cup CallsOf(outq[w]) : c < n
      BY <2>6, <3>1 DEF Stream
    <3>3. Increasing(resp[w]) /\ Increasing(o)
      BY <2>3, <2>6, <3>2 DEF Stream
    <3>4. \A a \in CallsOf(resp[w]), b \in CallsOf(o) : a < b
      BY <2>3, <2>6, <3>2 DEF Stream
    <3>5. CallsOf(resp[w]) \cup CallsOf(o) = Expected(w)'
      BY <2>3, <2>6, <3>1 DEF Stream
    <3>6. QED BY <2>5, <3>3, <3>4, <3>5 DEF Stream
  <2>7. QED BY <1>2, <1>4, <1>13, <2>4, <2>6, AnswersWorker
<1>14. ASSUME NEW ok \in BOOLEAN, Answers(w, n), ~Async, outq' = outq,
              resp' = [resp EXCEPT ![w] = Append(@, [call |-> n, ok |-> ok])]
       PROVE  AnswersInv'
  <2> DEFINE x == [call |-> n, ok |-> ok]  r == Append(resp[w], x)
  <2>1. x \in Answer /\ x.call = n
    BY <1>12
  <2>2. resp[w] \in Seq(Answer) /\ outq[w] = <<>>
    BY <1>1, <1>14 DEF AnswersInv, CallsInv
  <2> HIDE DEF x
  <2>3. CallsOf(r) = CallsOf(resp[w]) \cup {n}
        /\ (Increasing(resp[w]) /\ (\A a \in CallsOf(resp[w]) : a < n) => Increasing(r))
    BY <2>1, <2>2, WriteAnswer
  <2>4. resp' = [resp EXCEPT ![w] = r] /\ outq' = [outq EXCEPT ![w] = outq[w]]
    BY <1>1, <1>14 DEF x
  <2>5. outq'[w] = outq[w] /\ resp'[w] = r
    BY <1>1, <2>4
  <2> HIDE DEF r
  <2>6. CallsOf(outq[w]) = {}
    BY <2>2, SMTT(60) DEF CallsOf
  <2>7. ASSUME ~AllFailed, Stream(w) PROVE Stream(w)'
    <3>1. Expected(w)' = Expected(w) \cup {n} /\ \A c \in Expected(w) : c < n
      BY <1>11, <1>14, <2>7
    <3>2. CallsOf(resp[w]) = Expected(w)
      BY <2>6, <2>7 DEF Stream
    <3>3. Increasing(r) /\ Increasing(outq[w]) /\ CallsOf(r) = Expected(w)'
      BY <2>3, <2>7, <3>1, <3>2 DEF Stream
    <3>4. CallsOf(r) \cup CallsOf(outq[w]) = Expected(w)' /\ \A a \in CallsOf(r), b \in CallsOf(outq[w]) : a < b
      BY <2>6, <3>3
    <3>5. QED BY <2>5, <3>3, <3>4 DEF Stream
  <2>8. QED BY <1>2, <1>4, <2>2, <2>4, <2>7, AnswersWorker
<1>15. QED BY <1>10, <1>13, <1>14 DEF Execute

(* async_output_busy_loop moves the oldest output to the response queue.    *)
LEMMA AnswersSend ==
  ASSUME QueueInv, AnswersInv, NEW w \in Worker, SendOutput(w)
  PROVE  AnswersInv'
<1>1. /\ taken \in [Worker -> 0 .. MaxCalls] /\ outq \in [Worker -> Seq(Answer)]
      /\ resp \in [Worker -> Seq(Answer)]
  BY DEF QueueInv, UndoneAreQueued, TypeOK
<1>2. /\ w \notin dead /\ outq[w] # <<>> /\ outq' = [outq EXCEPT ![w] = Tail(@)]
      /\ UNCHANGED <<config, calls, taken, dead, outcome, used, wait, cur, at, shut>>
  BY DEF SendOutput, engineVars
<1>3. PICK ok \in BOOLEAN :
        resp' = [resp EXCEPT ![w] =
                   Append(@, [call |-> Head(outq[w]).call, ok |-> Head(outq[w]).ok /\ ok])]
  BY DEF SendOutput
<1> DEFINE x == [call |-> Head(outq[w]).call, ok |-> Head(outq[w]).ok /\ ok]  r == Append(resp[w], x)  o == Tail(outq[w])
<1>4. outq[w] \in Seq(Answer) /\ resp[w] \in Seq(Answer)
  BY <1>1
<1>5. /\ Head(outq[w]) \in Answer /\ CallsOf(outq[w]) = {Head(outq[w]).call} \cup CallsOf(o)
      /\ (Increasing(outq[w]) => Increasing(o) /\ \A a \in CallsOf(o) : Head(outq[w]).call < a)
  BY <1>2, <1>4, ReadAnswer
<1>6. x \in Answer /\ x.call = Head(outq[w]).call
  <2>1. Head(outq[w]).call \in Call /\ (Head(outq[w]).ok /\ ok) \in BOOLEAN
    BY <1>5, SMTT(60) DEF Answer
  <2>2. QED BY <2>1, SMTT(60) DEF Answer
<1> HIDE DEF x
<1>7. /\ CallsOf(r) = CallsOf(resp[w]) \cup {x.call}
      /\ (Increasing(resp[w]) /\ (\A a \in CallsOf(resp[w]) : a < x.call) => Increasing(r))
  BY <1>4, <1>6, WriteAnswer
<1>8. outq' = [outq EXCEPT ![w] = o] /\ resp' = [resp EXCEPT ![w] = r]
      /\ taken' = [taken EXCEPT ![w] = taken[w]]
  BY <1>1, <1>2, <1>3 DEF x
<1> HIDE DEF r, o
<1>9. outq'[w] = o /\ resp'[w] = r
  BY <1>1, <1>8
<1>10. ASSUME Stream(w) PROVE Stream(w)'
  <2>1. Expected(w)' = Expected(w)
    BY <1>2 DEF Expected, Answers
  <2>2. \A a \in CallsOf(resp[w]) : a < x.call /\ \A b \in CallsOf(o) : a < b
    BY <1>5, <1>6, <1>10 DEF Stream
  <2>3. Increasing(r) /\ Increasing(o) /\ \A b \in CallsOf(o) : x.call < b
    BY <1>5, <1>6, <1>7, <1>10, <2>2 DEF Stream
  <2>4. \A a \in CallsOf(r), b \in CallsOf(o) : a < b
    BY <1>7, <2>2, <2>3
  <2>5. CallsOf(r) \cup CallsOf(o) = Expected(w)
    BY <1>5, <1>6, <1>7, <1>10 DEF Stream
  <2>6. QED BY <1>9, <2>1, <2>3, <2>4, <2>5 DEF Stream
<1>11. Async
  BY <1>2 DEF AnswersInv, CallsInv
<1>12. taken[w] \in Nat /\ taken[w] <= Len(calls) /\ taken[w] <= taken[w]
  <2>1. taken[w] \in 0 .. MaxCalls /\ MaxCalls \in Nat /\ taken[w] <= Len(calls)
    BY <1>1, Numbers DEF AnswersInv, CallsInv
  <2>2. QED BY <2>1, SMTT(60)
<1>13. QED BY <1>2, <1>8, <1>10, <1>11, <1>12, AnswersWorker

(* A worker dies, the monitor notices, the executor shuts down.             *)
LEMMA AnswersFailure ==
  ASSUME QueueInv, AnswersInv,
         (\E w \in Worker : Die(w)) \/ Monitor \/ Shutdown \/ UNCHANGED vars
  PROVE  AnswersInv'
<1>1. /\ UNCHANGED <<config, calls, taken, outq, resp, outcome, used, wait, cur, at>>
      /\ (shut => shut') /\ (dead = Worker => dead' = Worker) /\ (shut' => shut \/ dead' = Worker)
  <2>1. CASE \E w \in Worker : Die(w)
    <3>1. PICK w \in Worker : Die(w)
      BY <2>1
    <3>2. dead # Worker
      BY <3>1 DEF Die
    <3>3. QED BY <3>1, <3>2 DEF Die, engineVars
  <2>2. CASE Monitor
    BY <2>2 DEF Monitor, engineVars, workerVars
  <2>3. CASE Shutdown
    BY <2>3 DEF Shutdown, engineVars
  <2>4. CASE UNCHANGED vars
    BY <2>4 DEF vars, engineVars, workerVars
  <2>5. QED BY <2>1, <2>2, <2>3, <2>4
<1>2. AllFailed' <=> AllFailed
  BY <1>1 DEF AllFailed
<1>3. \A w \in Worker : Stream(w)' <=> Stream(w)
  BY <1>1 DEF Stream, Expected, Answers
<1>4. CallsInv'
  BY <1>1, <1>2 DEF AnswersInv, CallsInv, Async
<1>5. TakenInv'
  BY <1>1, <1>2 DEF AnswersInv, TakenInv, Answers
<1>6. UsedInv'
  BY <1>1 DEF AnswersInv, UsedInv, FirstRank, LastRank
<1>7. QED BY <1>1, <1>2, <1>3, <1>4, <1>5, <1>6 DEF AnswersInv

(* The invariant of the answers holds initially.                            *)
LEMMA AnswersInit == Init => AnswersInv
<1> SUFFICES ASSUME Init PROVE AnswersInv
  OBVIOUS
<1>1. /\ Len(calls) = 0 /\ cur = 0 /\ wait = 0 /\ ~shut
      /\ \A w \in Worker : taken[w] = 0 /\ outq[w] = <<>> /\ resp[w] = <<>>
      /\ \A c \in Call : outcome[c] = "none"
  BY SMTT(60) DEF Init
<1>2. \A c \in 1 .. Len(calls) : FALSE
  BY <1>1, SMTT(60)
<1>3. ~AllFailed
  BY <1>2 DEF AllFailed
<1>4. CallsInv
  <2>1. \A w \in Worker : taken[w] <= Len(calls)
    BY <1>1, SMTT(60)
  <2>2. QED BY <1>1, <1>2, <2>1 DEF CallsInv
<1>5. TakenInv
  BY <1>2 DEF TakenInv
<1>6. UsedInv
  BY <1>1 DEF UsedInv
<1>7. \A w \in Worker : Stream(w)
  <2>1. SUFFICES ASSUME NEW w \in Worker PROVE Stream(w)
    OBVIOUS
  <2>2. \A i \in 1 .. 0 : FALSE
    BY SMTT(60)
  <2>3. Len(<<>>) = 0
    BY SMTT(60)
  <2>4. CallsOf(resp[w]) = {} /\ CallsOf(outq[w]) = {} /\ Increasing(resp[w]) /\ Increasing(outq[w])
    <3>1. \A q : Len(q) = 0 => CallsOf(q) = {} /\ Increasing(q)
      BY <2>2 DEF CallsOf, Increasing
    <3>2. Len(resp[w]) = 0 /\ Len(outq[w]) = 0
      BY <1>1, <2>3
    <3>3. QED BY <3>1, <3>2
  <2>5. Expected(w) = {}
    BY <1>1, <2>2 DEF Expected
  <2>6. QED BY <2>4, <2>5 DEF Stream
<1>8. QED BY <1>4, <1>5, <1>6, <1>7 DEF AnswersInv

(* Every step keeps the invariant of the answers.                           *)
LEMMA AnswersStep == QueueInv /\ Plain /\ AnswersInv /\ [Next]_vars => AnswersInv'
<1> SUFFICES ASSUME QueueInv, Plain, AnswersInv, [Next]_vars PROVE AnswersInv'
  OBVIOUS
<1>1. ASSUME NEW rank \in {OutputRank, All}, NEW timed \in IF Timeouts THEN BOOLEAN ELSE {FALSE},
             NEW nonBlock \in BOOLEAN, CollectiveRpc(rank, timed, nonBlock)
      PROVE  AnswersInv'
  <2>1. timed = FALSE
    BY DEF Plain
  <2>2. QED BY <1>1, <2>1, AnswersRpc
<1>2. CASE \E c \in Call : Result(c)
  BY <1>2, AnswersWait
<1>3. CASE EngineStep
  BY <1>3, AnswersPop, AnswersReceive, AnswersWait DEF EngineStep
<1>4. ASSUME NEW w \in Worker, WorkerStep(w) PROVE AnswersInv'
  BY <1>4, AnswersExecute, AnswersSend DEF WorkerStep
<1>5. CASE (\E w \in Worker : Die(w)) \/ Monitor \/ Shutdown \/ UNCHANGED vars
  BY <1>5, AnswersFailure
<1>6. QED BY <1>1, <1>2, <1>3, <1>4, <1>5 DEF Next

(* The configuration never changes.                                         *)
LEMMA ConfigFixed == [Next]_vars => config' = config
<1> SUFFICES ASSUME [Next]_vars PROVE config' = config
  OBVIOUS
<1>1. ASSUME NEW w \in Worker, WorkerStep(w) \/ Die(w) PROVE config' = config
  BY <1>1 DEF WorkerStep, Execute, SendOutput, Die
<1>2. CASE EngineStep
  BY <1>2 DEF EngineStep, Pop, Receive, Timeout, Cancelled, Return
<1>3. CASE \E c \in Call : Result(c)
  BY <1>3 DEF Result
<1>4. ASSUME NEW rank, NEW timed, NEW nonBlock, CollectiveRpc(rank, timed, nonBlock)
      PROVE  config' = config
  BY <1>4 DEF CollectiveRpc
<1>5. CASE Monitor \/ Shutdown \/ UNCHANGED vars
  BY <1>5 DEF Monitor, Shutdown, vars
<1>6. QED BY <1>1, <1>2, <1>3, <1>4, <1>5 DEF Next

(* "A list containing the results from each worker": with any number of     *)
(* workers and calls, answers that fail, workers that die at any time and   *)
(* an output thread per worker, a call that returns has for every rank the  *)
(* answer that rank gave to this call.                                      *)
THEOREM OwnResults == Spec => []ResultsOfOwnCall
<1>1. Init => ExecutorInv
  BY QueueInit, AnswersInit DEF ExecutorInv
<1>2. ExecutorInv /\ [Next]_vars => ExecutorInv'
  <2>1. SUFFICES ASSUME ExecutorInv, [Next]_vars PROVE ExecutorInv'
    OBVIOUS
  <2>2. QueueInv'
    BY <2>1, QueueStep DEF ExecutorInv
  <2>3. Plain' => Plain
    BY <2>1, ConfigFixed DEF Plain, Timeouts, Aggregated, Tolerant
  <2>4. Plain' => AnswersInv'
    BY <2>1, <2>3, AnswersStep DEF ExecutorInv
  <2>5. QED BY <2>2, <2>4 DEF ExecutorInv
<1>3. ExecutorInv => ResultsOfOwnCall
  BY DEF ExecutorInv, AnswersInv, UsedInv, Plain, ResultsOfOwnCall
<1>4. QED BY <1>1, <1>2, <1>3, PTL DEF Spec

=============================================================================
