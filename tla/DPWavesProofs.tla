---------------------------- MODULE DPWavesProofs ----------------------------
(* Proofs about the waves of data-parallel engines, for any number of ranks,*)
(* any dp_sync_interval and any number of requests and pauses: the ranks    *)
(* only wait for one another in the same collective, and paused ranks stay  *)
(* paused until the client resumes them.                                    *)
EXTENDS DPWaves, FiniteSetTheorems, TLAPS

(* Zenon, with a minute for each leaf; the leaves that count name SMT.      *)
USE ZenonT(60)

-----------------------------------------------------------------------------
(* Types.                                                                   *)
PC == {"input", "forward", "reduce", "resume"}
EngineRec ==
  [pc : PC, wave : Nat, running : BOOLEAN, wasRunning : BOOLEAN, step : 0 .. Interval + 1,
   waiting : Nat, active : Nat, pause : {"none", "new", "all"},
   pending : BOOLEAN, ignore : BOOLEAN, callback : BOOLEAN]
Message == [type : {"add"}, wave : Nat] \cup [type : {"pause", "resume"}]
StartRec == [wave : Nat, exclude : Engine \cup {Everyone}]
Note == [type : {"start", "complete"}, wave : Nat]
State == [wave : Nat, running : BOOLEAN]
ClientRec == [wave : Nat, running : BOOLEAN, first : Seq(Engine),
              pausing : {"no", "asked"}, acks : SUBSET Engine]
Notice == [exclude : Engine, wave : Nat]

Types ==
  /\ config \in Configs
  /\ eng \in [Engine -> EngineRec]
  /\ input \in [Engine -> Seq(Message)]
  /\ start \in [Engine -> Seq(StartRec)]
  /\ output \in [Engine -> Seq(Note)]
  /\ coord \in State /\ published \in Seq(State)
  /\ client \in ClientRec /\ notices \in Seq(Notice)
  /\ sent \in Nat /\ sent <= MaxReq

(* The requests an engine holds and those on their way to it.               *)
Adds(q) == {i \in 1 .. Len(q) : q[i].type = "add"}
CountInv ==
  \A e \in Engine : eng[e].waiting + eng[e].active + Cardinality(Adds(input[e])) <= sent

(* The ranks count the same steps, and are in the all-reduce together.      *)
StepInv ==
  \A e, f \in Engine : /\ eng[e].step = eng[f].step
                       /\ eng[e].pc = "reduce" => eng[f].pc = "reduce"

-----------------------------------------------------------------------------
(* The pause of the engines, from the client's message to the barrier.      *)

Has(q, type) == \E i \in 1 .. Len(q) : q[i].type = type
Wants(e) == Has(input[e], "pause")
Back(e) == Has(input[e], "resume")

(* At most one message of each kind is under way, the resumption first.     *)
InOrder(q) ==
  \A i, j \in 1 .. Len(q) :
    /\ q[i].type = q[j].type /\ q[i].type # "add" => i = j
    /\ q[i].type = "resume" /\ q[j].type = "pause" => i < j

Collective(g) == g.pc \in {"input", "forward", "reduce"}
Normal(g) == g.pause = "none" /\ ~g.pending /\ ~g.ignore /\ ~g.callback /\ Collective(g)
Pausing(g) == g.pause # "none" /\ g.pending /\ ~g.ignore /\ g.callback /\ g.running /\ Collective(g)
Draining(g) == g.pause # "none" /\ ~g.pending /\ g.ignore /\ g.callback /\ g.running /\ Collective(g)
Paused(g) ==
  g.pause # "none" /\ ~g.pending /\ g.ignore /\ ~g.running /\ ~Unfinished(g) /\ g.pc = "input"
Resuming(g) == g.pause = "none" /\ ~g.pending /\ ~g.ignore /\ ~g.callback /\ g.pc = "resume"

AllRun == client.pausing = "no" /\ \A e \in Engine : ~Back(e) /\ ~Wants(e) /\ Normal(eng[e])
SomePause ==
  /\ client.pausing = "asked" /\ client.acks = {}
  /\ \A e \in Engine : ~Back(e) /\ IF Wants(e) THEN Normal(eng[e]) ELSE Pausing(eng[e])
AllDrain ==
  /\ client.pausing = "asked" /\ client.acks = {}
  /\ \A e \in Engine : ~Back(e) /\ ~Wants(e) /\ Draining(eng[e])
AllPaused ==
  /\ client.pausing = "asked"
  /\ \A e \in Engine : ~Back(e) /\ ~Wants(e) /\ Paused(eng[e]) /\ (eng[e].callback <=> e \notin client.acks)
SomeResume ==
  /\ client.pausing = "asked" => client.acks = {}
  /\ \A e \in Engine :
       /\ Wants(e) <=> client.pausing = "asked"
       /\ IF Back(e) THEN Paused(eng[e]) /\ ~eng[e].callback ELSE Resuming(eng[e])

PauseInv ==
  /\ \A e \in Engine : InOrder(input[e])
  /\ AllRun \/ SomePause \/ AllDrain \/ AllPaused \/ SomeResume

WavesInv == Types /\ CountInv /\ StepInv /\ PauseInv

-----------------------------------------------------------------------------
(* The input socket of an engine: what sending and taking a message do.     *)

(* An input queue holds finitely many requests.                             *)
LEMMA AddsFinite ==
  ASSUME NEW q \in Seq(Message)
  PROVE  IsFiniteSet(Adds(q)) /\ Cardinality(Adds(q)) \in Nat
<1>1. Len(q) \in Nat /\ Adds(q) \subseteq 1 .. Len(q)
  BY SMTT(60) DEF Adds
<1>2. IsFiniteSet(1 .. Len(q))
  BY <1>1, FS_Interval, SMTT(60)
<1>3. QED BY <1>1, <1>2, FS_Subset, FS_CardinalityType

(* What a message put on an input queue adds to it.                         *)
LEMMA PutMessage ==
  ASSUME NEW q \in Seq(Message), NEW x \in Message
  PROVE  /\ Append(q, x) \in Seq(Message)
         /\ \A t : Has(Append(q, x), t) <=> Has(q, t) \/ x.type = t
         /\ (x.type # "add" => ~Has(q, x.type)) /\ (x.type = "resume" => ~Has(q, "pause"))
              /\ InOrder(q) => InOrder(Append(q, x))
         /\ Cardinality(Adds(Append(q, x))) <= Cardinality(Adds(q)) + 1
         /\ x.type # "add" => Adds(Append(q, x)) = Adds(q)
<1> DEFINE p == Append(q, x)  n == Len(q) + 1
<1>1. /\ p \in Seq(Message) /\ Len(p) = n /\ Len(q) \in Nat /\ n \in Nat
      /\ \A i \in 1 .. Len(q) : p[i] = q[i]
      /\ p[n] = x
  BY SMTT(60)
<1> HIDE DEF p
<1>2. /\ \A i \in 1 .. n : i \in 1 .. Len(q) \/ i = n
      /\ \A i \in 1 .. Len(q) : i \in 1 .. n /\ i < n /\ i # n
      /\ n \in 1 .. n
  BY <1>1, SMTT(60)
<1> HIDE DEF n
<1>3. ASSUME NEW t PROVE Has(p, t) <=> Has(q, t) \/ x.type = t
  BY <1>1, <1>2 DEF Has
<1>4. ASSUME x.type # "add" => ~Has(q, x.type), x.type = "resume" => ~Has(q, "pause"), InOrder(q)
      PROVE  InOrder(p)
  <2>1. SUFFICES ASSUME NEW i \in 1 .. n, NEW j \in 1 .. n
                 PROVE  /\ p[i].type = p[j].type /\ p[i].type # "add" => i = j
                        /\ p[i].type = "resume" /\ p[j].type = "pause" => i < j
    BY <1>1 DEF InOrder
  <2>2. CASE i \in 1 .. Len(q) /\ j \in 1 .. Len(q)
    BY <1>1, <1>4, <2>2 DEF InOrder
  <2>3. CASE i \in 1 .. Len(q) /\ j = n
    BY <1>1, <1>2, <1>4, <2>3 DEF Has
  <2>4. CASE i = n /\ j \in 1 .. Len(q)
    BY <1>1, <1>2, <1>4, <2>4 DEF Has
  <2>5. CASE i = n /\ j = n
    <3>1. "resume" # "pause"
      OBVIOUS
    <3>2. QED BY <2>5, <3>1
  <2>6. QED BY <1>2, <2>2, <2>3, <2>4, <2>5
<1>5. x.type # "add" => Adds(p) = Adds(q)
  BY <1>1, <1>2 DEF Adds
<1>6. Cardinality(Adds(p)) <= Cardinality(Adds(q)) + 1
  <2>1. IsFiniteSet(Adds(q)) /\ Cardinality(Adds(q)) \in Nat
    BY AddsFinite
  <2>2. Adds(p) = Adds(q) \/ Adds(p) = Adds(q) \cup {n}
    BY <1>1, <1>2 DEF Adds
  <2>3. n \notin Adds(q)
    BY <1>2 DEF Adds
  <2>4. Cardinality(Adds(q) \cup {n}) = Cardinality(Adds(q)) + 1
    BY <2>1, <2>3, FS_AddElement
  <2>5. Cardinality(Adds(p)) = Cardinality(Adds(q)) \/ Cardinality(Adds(p)) = Cardinality(Adds(q)) + 1
    BY <2>2, <2>4
  <2>6. QED BY <2>1, <2>5, SMTT(60)
<1>7. QED BY <1>1, <1>3, <1>4, <1>5, <1>6 DEF p

(* What is left of an input queue when its first message is taken.          *)
LEMMA TakeMessage ==
  ASSUME NEW q \in Seq(Message), q # <<>>
  PROVE  /\ Tail(q) \in Seq(Message) /\ Head(q) \in Message /\ Has(q, Head(q).type)
         /\ \A t : t # Head(q).type => (Has(Tail(q), t) <=> Has(q, t))
         /\ InOrder(q) => /\ InOrder(Tail(q))
                          /\ Head(q).type # "add" => ~Has(Tail(q), Head(q).type)
                          /\ Head(q).type = "pause" => ~Has(q, "resume")
         /\ Cardinality(Adds(Tail(q))) <= Cardinality(Adds(q))
         /\ Head(q).type = "add" => Cardinality(Adds(Tail(q))) + 1 <= Cardinality(Adds(q))
<1> DEFINE p == Tail(q)
<1>1. /\ p \in Seq(Message) /\ Len(q) \in Nat /\ Len(p) \in Nat
      /\ Head(q) = q[1] /\ q[1] \in Message
      /\ \A i \in 1 .. Len(p) : i + 1 \in 1 .. Len(q) /\ p[i] = q[i + 1] /\ i + 1 # 1 /\ i \in Nat
      /\ \A i \in 1 .. Len(q) : i = 1 \/ (i - 1 \in 1 .. Len(p) /\ q[i] = p[i - 1])
      /\ 1 \in 1 .. Len(q)
  BY SMTT(60)
<1> HIDE DEF p
<1>2. Has(q, Head(q).type)
  BY <1>1 DEF Has
<1>3. ASSUME NEW t, t # Head(q).type PROVE Has(p, t) <=> Has(q, t)
  <2>1. ASSUME Has(p, t) PROVE Has(q, t)
    BY <1>1, <2>1 DEF Has
  <2>2. ASSUME Has(q, t) PROVE Has(p, t)
    BY <1>1, <1>3, <2>2 DEF Has
  <2>3. QED BY <2>1, <2>2
<1>4. ASSUME InOrder(q)
      PROVE  /\ InOrder(p)
             /\ Head(q).type # "add" => ~Has(p, Head(q).type)
             /\ Head(q).type = "pause" => ~Has(q, "resume")
  <2>1. ASSUME NEW i \in 1 .. Len(p), NEW j \in 1 .. Len(p)
        PROVE  /\ p[i].type = p[j].type /\ p[i].type # "add" => i = j
               /\ p[i].type = "resume" /\ p[j].type = "pause" => i < j
    <3>1. /\ q[i + 1].type = q[j + 1].type /\ q[i + 1].type # "add" => i + 1 = j + 1
          /\ q[i + 1].type = "resume" /\ q[j + 1].type = "pause" => i + 1 < j + 1
      BY <1>1, <1>4 DEF InOrder
    <3>2. (i + 1 = j + 1 => i = j) /\ (i + 1 < j + 1 => i < j)
      BY <1>1, SMTT(60)
    <3>3. p[i] = q[i + 1] /\ p[j] = q[j + 1]
      BY <1>1
    <3>4. QED BY <3>1, <3>2, <3>3
  <2>2. ASSUME Head(q).type # "add", Has(p, Head(q).type) PROVE FALSE
    <3>1. PICK i \in 1 .. Len(p) : p[i].type = q[1].type
      BY <1>1, <2>2 DEF Has
    <3>2. q[i + 1].type = q[1].type /\ i + 1 \in 1 .. Len(q) /\ i + 1 # 1
      BY <1>1, <3>1
    <3>3. QED BY <1>1, <1>4, <2>2, <3>2 DEF InOrder
  <2>3. ASSUME Head(q).type = "pause", Has(q, "resume") PROVE FALSE
    <3>1. PICK i \in 1 .. Len(q) : q[i].type = "resume"
      BY <2>3 DEF Has
    <3>2. i < 1
      BY <1>1, <1>4, <2>3, <3>1 DEF InOrder
    <3>3. QED BY <1>1, <3>2, SMTT(60)
  <2>4. InOrder(p)
    BY <2>1 DEF InOrder
  <2>5. QED BY <2>2, <2>3, <2>4
<1>5. /\ Cardinality(Adds(p)) <= Cardinality(Adds(q))
      /\ Head(q).type = "add" => Cardinality(Adds(p)) + 1 <= Cardinality(Adds(q))
  <2> DEFINE A == Adds(q) \ {1}  f == [i \in Adds(p) |-> i + 1]
  <2>1. IsFiniteSet(Adds(q)) /\ Cardinality(Adds(q)) \in Nat /\ IsFiniteSet(Adds(p)) /\ Cardinality(Adds(p)) \in Nat
    BY <1>1, AddsFinite
  <2>2. IsFiniteSet(A) /\ Cardinality(A) \in Nat
    BY <2>1, FS_Subset, FS_CardinalityType
  <2>3. \A i \in Adds(p) : i + 1 \in A /\ i \in Nat
    BY <1>1 DEF Adds
  <2>4. f \in Injection(Adds(p), A)
    <3>1. \A i, j \in Adds(p) : i + 1 = j + 1 => i = j
      BY <2>3, SMTT(60)
    <3>2. f \in [Adds(p) -> A]
      BY <2>3
    <3>3. QED BY <3>1, <3>2 DEF Injection, IsInjective
  <2>5. Cardinality(Adds(p)) <= Cardinality(A)
    BY <2>2, <2>4, FS_Injection DEF ExistsInjection
  <2>6. CASE 1 \in Adds(q)
    <3>1. Cardinality(A) = Cardinality(Adds(q)) - 1
      BY <2>1, <2>6, FS_RemoveElement
    <3>2. QED BY <2>1, <2>2, <2>5, <3>1, SMTT(60)
  <2>7. CASE 1 \notin Adds(q)
    <3>1. A = Adds(q)
      BY <2>7
    <3>2. Head(q).type # "add"
      BY <1>1, <2>7 DEF Adds
    <3>3. QED BY <2>5, <3>1, <3>2
  <2>8. QED BY <2>6, <2>7
<1>6. QED BY <1>1, <1>2, <1>3, <1>4, <1>5 DEF p

-----------------------------------------------------------------------------
(* Types: the queues, and the steps of the client and the coordinator that  *)
(* send nothing to an engine's input.                                       *)

(* Appending to a queue and taking its head keep the type of its items.     *)
LEMMA Queues ==
  ASSUME NEW S, NEW q \in Seq(S)
  PROVE  /\ \A x \in S : Append(q, x) \in Seq(S)
         /\ q # <<>> => Head(q) \in S /\ Tail(q) \in Seq(S)
  BY SMTT(60)

(* There is an engine, and ranks are naturals.                              *)
LEMMA SomeEngine == 0 \in Engine /\ Engine # {} /\ Engine \subseteq Nat
<1>1. 0 \in Engine /\ Engine \subseteq Nat
  BY WavesAssumption, SMTT(60) DEF Engine
<1>2. QED BY <1>1

(* The coordinator's start messages keep the type of the start queues.      *)
LEMMA BroadcastType ==
  ASSUME start \in [Engine -> Seq(StartRec)], NEW wave \in Nat,
         NEW exclude \in Engine \cup {Everyone}, Broadcast(wave, exclude)
  PROVE  start' \in [Engine -> Seq(StartRec)]
<1>1. [wave |-> wave, exclude |-> exclude] \in StartRec
  BY SMTT(60) DEF StartRec
<1>2. ASSUME NEW e \in Engine
      PROVE  Append(start[e], [wave |-> wave, exclude |-> exclude]) \in Seq(StartRec)
  BY <1>1, Queues
<1>3. QED BY <1>2 DEF Broadcast

(* The steps of the client and the coordinator keep the types and leave the *)
(* engines alone.                                                           *)
LEMMA TypesQuiet ==
  ASSUME Types,
         FirstRequest \/ ClientUpdate \/ HandleNotice \/ Publish \/ (\E e \in Engine : HandleOutput(e))
  PROVE  /\ Types' /\ UNCHANGED <<config, eng, input, sent>>
         /\ client'.pausing = client.pausing /\ client'.acks = client.acks
<1>1. CASE FirstRequest
  <2>1. client.first \in Seq(Engine) /\ client.wave \in Nat
    BY SMTT(60) DEF Types, ClientRec
  <2>2. Head(client.first) \in Engine /\ Tail(client.first) \in Seq(Engine)
    BY <1>1, <2>1, Queues DEF FirstRequest
  <2>3. /\ client' \in ClientRec /\ client'.pausing = client.pausing /\ client'.acks = client.acks
    <3>1. ASSUME NEW c \in ClientRec, NEW t \in Seq(Engine)
          PROVE  LET d == [c EXCEPT !.first = t, !.running = TRUE]
                 IN  d \in ClientRec /\ d.pausing = c.pausing /\ d.acks = c.acks
      BY DEF ClientRec
    <3>2. client \in ClientRec /\ client' = [client EXCEPT !.first = Tail(client.first), !.running = TRUE]
      BY <1>1 DEF FirstRequest, Types
    <3>3. QED BY <2>2, <3>1, <3>2
  <2>4. notices' \in Seq(Notice)
    <3>1. [exclude |-> Head(client.first), wave |-> client.wave] \in Notice
      BY <2>1, <2>2, SMTT(60) DEF Notice
    <3>2. QED BY <1>1, <3>1, Queues DEF FirstRequest, Types
  <2>5. QED BY <1>1, <2>3, <2>4 DEF FirstRequest, Types, MaxReq
<1>2. CASE ClientUpdate
  <2>1. Head(published) \in State /\ published' \in Seq(State)
    BY <1>2, Queues DEF ClientUpdate, Types
  <2>2. /\ client' \in ClientRec /\ client'.pausing = client.pausing /\ client'.acks = client.acks
    <3>1. ASSUME NEW c \in ClientRec, NEW s \in State
          PROVE  LET d == [c EXCEPT !.wave = s.wave, !.running = s.running]
                 IN  d \in ClientRec /\ d.pausing = c.pausing /\ d.acks = c.acks
      BY DEF ClientRec, State
    <3>2. client \in ClientRec
          /\ client' = [client EXCEPT !.wave = Head(published).wave, !.running = Head(published).running]
      BY <1>2 DEF ClientUpdate, Types
    <3>3. QED BY <2>1, <3>1, <3>2
  <2>3. QED BY <1>2, <2>1, <2>2 DEF ClientUpdate, Types, MaxReq
<1>3. CASE HandleNotice
  <2>1. Head(notices) \in Notice /\ notices' \in Seq(Notice)
    BY <1>3, Queues DEF HandleNotice, Types
  <2>2. coord.wave \in Nat /\ Head(notices).exclude \in Engine
    BY <2>1, SMTT(60) DEF Types, State, Notice
  <2>3. start' \in [Engine -> Seq(StartRec)]
    BY <1>3, <2>2, BroadcastType DEF HandleNotice, Types
  <2>4. QED BY <1>3, <2>1, <2>3 DEF HandleNotice, Types, MaxReq
<1>4. CASE Publish
  <2>1. Append(published, coord) \in Seq(State)
    BY SMTT(60) DEF Types
  <2>2. QED BY <1>4, <2>1 DEF Publish, Types, MaxReq
<1>5. ASSUME NEW e \in Engine, HandleOutput(e)
      PROVE  /\ Types' /\ UNCHANGED <<config, eng, input, sent>>
             /\ client'.pausing = client.pausing /\ client'.acks = client.acks
  <2> DEFINE m == Head(output[e])
  <2>1. m \in Note /\ Tail(output[e]) \in Seq(Note)
    BY <1>5, Queues DEF HandleOutput, Types
  <2>2. m.wave \in Nat /\ [wave |-> m.wave + 1, running |-> FALSE] \in State
        /\ [wave |-> m.wave, running |-> TRUE] \in State
    BY <2>1, SMTT(60) DEF Note, State
  <2>3. output' \in [Engine -> Seq(Note)]
    BY <1>5, <2>1 DEF HandleOutput, Types
  <2>4. coord' \in State
    BY <1>5, <2>2 DEF HandleOutput, Types
  <2>5. published' \in Seq(State)
    <3>1. Append(published, coord') \in Seq(State)
      BY <2>4, Queues DEF Types
    <3>2. QED BY <1>5, <3>1 DEF HandleOutput, Types
  <2>6. start' \in [Engine -> Seq(StartRec)]
    BY <1>5, <2>2, BroadcastType DEF HandleOutput, Types
  <2>7. QED BY <1>5, <2>3, <2>4, <2>5, <2>6 DEF HandleOutput, Types, MaxReq
<1>6. QED BY <1>1, <1>2, <1>3, <1>4, <1>5

-----------------------------------------------------------------------------
(* What keeps an engine in its phase of the pause.                          *)
Keeps(g, h) ==
  /\ Normal(g) => Normal(h)
  /\ Pausing(g) => Pausing(h)
  /\ Draining(g) => Draining(h)
  /\ Paused(g) => Paused(h) /\ (h.callback <=> g.callback)
  /\ Resuming(g) => Resuming(h)

(* The pause phase is the same when no engine, input queue or               *)
(* acknowledgement changed its part in it.                                  *)
LEMMA PauseFrame ==
  ASSUME PauseInv, client'.pausing = client.pausing, client'.acks = client.acks,
         \A e \in Engine : /\ InOrder(input[e])' /\ (Wants(e)' <=> Wants(e)) /\ (Back(e)' <=> Back(e))
                           /\ Keeps(eng[e], eng'[e])
  PROVE  PauseInv'
<1>1. CASE AllRun
  <2>1. AllRun'
    BY <1>1 DEF AllRun, Keeps
  <2>2. QED BY <2>1 DEF PauseInv
<1>2. CASE SomePause
  <2>1. SomePause'
    BY <1>2 DEF SomePause, Keeps
  <2>2. QED BY <2>1 DEF PauseInv
<1>3. CASE AllDrain
  <2>1. AllDrain'
    BY <1>3 DEF AllDrain, Keeps
  <2>2. QED BY <2>1 DEF PauseInv
<1>4. CASE AllPaused
  <2>1. AllPaused'
    BY <1>4 DEF AllPaused, Keeps
  <2>2. QED BY <2>1 DEF PauseInv
<1>5. CASE SomeResume
  <2>1. SomeResume'
    BY <1>5 DEF SomeResume, Keeps
  <2>2. QED BY <2>1 DEF PauseInv
<1>6. QED BY <1>1, <1>2, <1>3, <1>4, <1>5 DEF PauseInv

(* An engine that does not change keeps what its collectives depend on.     *)
LEMMA KeepsSame == \A g : Keeps(g, g)
  BY DEF Keeps

(* The engines and their inputs are as they were.                           *)
LEMMA QuietStep ==
  ASSUME WavesInv,
         \/ FirstRequest \/ ClientUpdate \/ HandleNotice \/ Publish
         \/ \E e \in Engine : HandleOutput(e)
  PROVE  WavesInv'
<1>1. /\ Types' /\ UNCHANGED <<config, eng, input, sent>>
      /\ client'.pausing = client.pausing /\ client'.acks = client.acks
  BY TypesQuiet DEF WavesInv
<1>2. CountInv' /\ StepInv'
  BY <1>1 DEF WavesInv, CountInv, StepInv
<1>3. PauseInv'
  <2>1. \A e \in Engine : InOrder(input[e])
    BY DEF WavesInv, PauseInv
  <2>2. \A e \in Engine : InOrder(input[e])' /\ (Wants(e)' <=> Wants(e)) /\ (Back(e)' <=> Back(e))
    BY <1>1, <2>1 DEF Wants, Back
  <2>3. \A e \in Engine : Keeps(eng[e], eng'[e])
    BY <1>1, KeepsSame
  <2>4. QED BY <1>1, <2>2, <2>3, PauseFrame DEF WavesInv
<1>4. QED BY <1>1, <1>2, <1>3 DEF WavesInv

-----------------------------------------------------------------------------
(* The client's messages to the engines.                                    *)

(* add_request_async: the client sends a request to an engine.              *)
LEMMA AddRequestStep ==
  ASSUME WavesInv, NEW e \in Engine, AddRequest(e)
  PROVE  WavesInv'
<1> DEFINE x == [type |-> "add", wave |-> client.wave]  q == Append(input[e], x)
<1>1. /\ Types /\ input \in [Engine -> Seq(Message)] /\ eng \in [Engine -> EngineRec]
      /\ sent \in Nat /\ client \in ClientRec /\ input[e] \in Seq(Message)
  BY DEF WavesInv, Types
<1>2. /\ sent < MaxReq /\ sent' = sent + 1 /\ input' = [input EXCEPT ![e] = q]
      /\ UNCHANGED <<config, eng, start, output, coord, published, notices>>
  BY DEF AddRequest, Send
<1>3. x \in Message /\ x.type = "add"
  <2>1. client.wave \in Nat
    BY <1>1, SMTT(60) DEF ClientRec
  <2>2. QED BY <2>1, SMTT(60) DEF Message
<1> HIDE DEF x
<1>4. /\ q \in Seq(Message) /\ (InOrder(input[e]) => InOrder(q))
      /\ \A t : t # "add" => (Has(q, t) <=> Has(input[e], t))
      /\ Cardinality(Adds(q)) <= Cardinality(Adds(input[e])) + 1
  BY <1>1, <1>3, PutMessage
<1> HIDE DEF q
<1>5. input' \in [Engine -> Seq(Message)] /\ input'[e] = q /\ \A f \in Engine : f # e => input'[f] = input[f]
  BY <1>1, <1>2, <1>4
<1>6. /\ client' \in ClientRec /\ client'.pausing = client.pausing /\ client'.acks = client.acks
  <2>1. ASSUME NEW c \in ClientRec
        PROVE  LET d == [c EXCEPT !.first = Append(@, e)]
               IN  d \in ClientRec /\ d.pausing = c.pausing /\ d.acks = c.acks
    <3>1. c.first \in Seq(Engine)
      BY SMTT(60) DEF ClientRec
    <3>2. Append(c.first, e) \in Seq(Engine)
      BY <3>1, Queues
    <3>3. QED BY <3>2 DEF ClientRec
  <2>2. client' = client \/ client' = [client EXCEPT !.first = Append(@, e)]
    BY DEF AddRequest
  <2>3. QED BY <1>1, <2>1, <2>2
<1>7. Types'
  <2>1. config \in Configs
    BY <1>1 DEF Types
  <2>2. MaxReq \in Nat
    <3>1. \A c \in [requests : Nat, pauses : Nat, mode : {"keep", "abort", "wait"}] : c.requests \in Nat
      BY SMTT(60)
    <3>2. QED BY <2>1, <3>1, WavesAssumption DEF MaxReq
  <2>3. sent' \in Nat /\ sent' <= MaxReq
    BY <1>1, <1>2, <2>2, SMTT(60)
  <2>4. QED BY <1>1, <1>2, <1>5, <1>6, <2>3 DEF Types, MaxReq
<1>8. CountInv'
  <2>1. ASSUME NEW f \in Engine
        PROVE  eng[f].waiting + eng[f].active + Cardinality(Adds(input'[f])) <= sent + 1
    <3>1. eng[f].waiting \in Nat /\ eng[f].active \in Nat
      BY <1>1, SMTT(60) DEF EngineRec
    <3>2. Cardinality(Adds(input[f])) \in Nat /\ Cardinality(Adds(input'[f])) \in Nat
      BY <1>1, <1>5, AddsFinite
    <3>3. Cardinality(Adds(input'[f])) <= Cardinality(Adds(input[f])) + 1
      <4>1. CASE f = e
        BY <1>4, <1>5, <4>1
      <4>2. CASE f # e
        <5>1. input'[f] = input[f]
          BY <1>5, <4>2
        <5>2. QED BY <3>2, <5>1, SMTT(60)
      <4>3. QED BY <4>1, <4>2
    <3>4. eng[f].waiting + eng[f].active + Cardinality(Adds(input[f])) <= sent
      BY DEF WavesInv, CountInv
    <3>5. QED BY <1>1, <3>1, <3>2, <3>3, <3>4, SMTT(60)
  <2>2. QED BY <1>2, <2>1 DEF CountInv
<1>9. StepInv'
  BY <1>2 DEF WavesInv, StepInv
<1>10. PauseInv'
  <2>1. "pause" # "add" /\ "resume" # "add"
    OBVIOUS
  <2>2. \A f \in Engine : InOrder(input[f])
    BY DEF WavesInv, PauseInv
  <2>3. \A f \in Engine : InOrder(input[f])' /\ (Wants(f)' <=> Wants(f)) /\ (Back(f)' <=> Back(f))
    BY <1>4, <1>5, <2>1, <2>2 DEF Wants, Back
  <2>4. \A f \in Engine : Keeps(eng[f], eng'[f])
    BY <1>2, KeepsSame
  <2>5. QED BY <1>6, <2>3, <2>4, PauseFrame DEF WavesInv
<1>11. QED BY <1>7, <1>8, <1>9, <1>10 DEF WavesInv

(* A message of the pause to every engine.                                  *)
LEMMA ControlMessage ==
  ASSUME Types, CountInv, NEW type \in {"pause", "resume"},
         input' = [e \in Engine |-> Append(input[e], [type |-> type])], UNCHANGED <<eng, sent>>
  PROVE  /\ input' \in [Engine -> Seq(Message)] /\ CountInv'
         /\ \A e \in Engine :
              /\ \A t : Has(input'[e], t) <=> Has(input[e], t) \/ t = type
              /\ ~Has(input[e], type) /\ ~Has(input[e], "pause") /\ InOrder(input[e]) => InOrder(input'[e])
<1> DEFINE x == [type |-> type]
<1>1. x \in Message /\ x.type = type /\ type # "add"
  BY SMTT(60) DEF Message
<1> HIDE DEF x
<1>2. ASSUME NEW e \in Engine
      PROVE  /\ input'[e] \in Seq(Message) /\ Adds(input'[e]) = Adds(input[e])
             /\ \A t : Has(input'[e], t) <=> Has(input[e], t) \/ t = type
             /\ ~Has(input[e], type) /\ ~Has(input[e], "pause") /\ InOrder(input[e]) => InOrder(input'[e])
  <2>1. input[e] \in Seq(Message) /\ input'[e] = Append(input[e], x)
    BY DEF Types, x
  <2>2. QED BY <1>1, <2>1, PutMessage
<1>3. input' \in [Engine -> Seq(Message)]
  BY <1>2
<1>4. CountInv'
  BY <1>2 DEF CountInv
<1>5. QED BY <1>2, <1>3, <1>4

(* pause_generation: the client sends the pause to every engine.            *)
LEMMA AskPauseStep ==
  ASSUME WavesInv, AskPause
  PROVE  WavesInv'
<1>1. /\ client.pausing = "no" /\ client' = [client EXCEPT !.pausing = "asked", !.acks = {}]
      /\ input' = [e \in Engine |-> Append(input[e], [type |-> "pause"])]
      /\ UNCHANGED <<config, eng, start, output, coord, published, notices, sent>>
  BY DEF AskPause
<1>2. client' \in ClientRec /\ client'.pausing = "asked" /\ client'.acks = {}
  <2>1. ASSUME NEW c \in ClientRec
        PROVE  LET d == [c EXCEPT !.pausing = "asked", !.acks = {}]
               IN  d \in ClientRec /\ d.pausing = "asked" /\ d.acks = {}
    BY DEF ClientRec
  <2>2. QED BY <1>1, <2>1 DEF WavesInv, Types
<1>3. /\ input' \in [Engine -> Seq(Message)] /\ CountInv'
      /\ \A e \in Engine :
           /\ \A t : Has(input'[e], t) <=> Has(input[e], t) \/ t = "pause"
           /\ ~Has(input[e], "pause") /\ InOrder(input[e]) => InOrder(input'[e])
  BY <1>1, ControlMessage DEF WavesInv
<1>4. Types' /\ StepInv'
  BY <1>1, <1>2, <1>3 DEF WavesInv, Types, StepInv, MaxReq
<1>5. "no" # "asked" /\ "pause" # "resume"
  OBVIOUS
<1>6. \A e \in Engine : Wants(e)' /\ (Back(e)' <=> Back(e))
  BY <1>3, <1>5 DEF Wants, Back
<1>7. (AllRun \/ SomeResume) /\ \A e \in Engine : ~Wants(e)
  BY <1>1, <1>5 DEF WavesInv, PauseInv, AllRun, SomePause, AllDrain, AllPaused, SomeResume
<1>8. \A e \in Engine : InOrder(input'[e])
  BY <1>3, <1>7 DEF Wants, WavesInv, PauseInv
<1>9. PauseInv'
  <2>1. CASE AllRun
    <3>1. SomePause'
      BY <1>1, <1>2, <1>6, <2>1 DEF SomePause, AllRun
    <3>2. QED BY <1>8, <3>1 DEF PauseInv
  <2>2. CASE SomeResume
    <3>1. SomeResume'
      BY <1>1, <1>2, <1>6, <2>2 DEF SomeResume
    <3>2. QED BY <1>8, <3>1 DEF PauseInv
  <2>3. QED BY <1>7, <2>1, <2>2
<1>10. QED BY <1>3, <1>4, <1>9 DEF WavesInv

(* resume_generation, after every engine has acknowledged the pause.        *)
LEMMA AskResumeStep ==
  ASSUME WavesInv, AskResume
  PROVE  WavesInv'
<1>1. /\ client.pausing = "asked" /\ client.acks = Engine /\ client' = [client EXCEPT !.pausing = "no"]
      /\ input' = [e \in Engine |-> Append(input[e], [type |-> "resume"])]
      /\ UNCHANGED <<config, eng, start, output, coord, published, notices, sent>>
  BY DEF AskResume
<1>2. client' \in ClientRec /\ client'.pausing = "no"
  <2>1. ASSUME NEW c \in ClientRec
        PROVE  LET d == [c EXCEPT !.pausing = "no"] IN d \in ClientRec /\ d.pausing = "no"
    BY DEF ClientRec
  <2>2. QED BY <1>1, <2>1 DEF WavesInv, Types
<1>3. /\ input' \in [Engine -> Seq(Message)] /\ CountInv'
      /\ \A e \in Engine :
           /\ \A t : Has(input'[e], t) <=> Has(input[e], t) \/ t = "resume"
           /\ ~Has(input[e], "resume") /\ ~Has(input[e], "pause") /\ InOrder(input[e]) => InOrder(input'[e])
  BY <1>1, ControlMessage DEF WavesInv
<1>4. Types' /\ StepInv'
  BY <1>1, <1>2, <1>3 DEF WavesInv, Types, StepInv, MaxReq
<1>5. "no" # "asked" /\ "pause" # "resume"
  OBVIOUS
<1>6. \A e \in Engine : Back(e)' /\ (Wants(e)' <=> Wants(e))
  BY <1>3, <1>5 DEF Wants, Back
<1>7. AllPaused
  BY <1>1, <1>5, SomeEngine DEF WavesInv, PauseInv, AllRun, SomePause, AllDrain, SomeResume
<1>8. \A e \in Engine : InOrder(input'[e])
  BY <1>3, <1>7 DEF AllPaused, Wants, Back, WavesInv, PauseInv
<1>9. SomeResume'
  BY <1>1, <1>2, <1>5, <1>6, <1>7 DEF SomeResume, AllPaused
<1>10. QED BY <1>3, <1>4, <1>8, <1>9 DEF WavesInv, PauseInv

-----------------------------------------------------------------------------
(* The steps of one engine.                                                 *)

(* The invariants but that of the pause, when only engine e moves.          *)
LEMMA OneEngine ==
  ASSUME WavesInv, NEW e \in Engine, NEW g \in EngineRec, NEW q \in Seq(Message),
         eng' = [eng EXCEPT ![e] = g], input' = [input EXCEPT ![e] = q], sent' = sent,
         eng[e].pc = "input", g.pc # "reduce", g.step = eng[e].step,
         g.waiting + g.active + Cardinality(Adds(q))
           <= eng[e].waiting + eng[e].active + Cardinality(Adds(input[e]))
  PROVE  /\ eng' \in [Engine -> EngineRec] /\ input' \in [Engine -> Seq(Message)]
         /\ eng'[e] = g /\ input'[e] = q
         /\ \A f \in Engine : f # e => eng'[f] = eng[f] /\ input'[f] = input[f]
         /\ CountInv' /\ StepInv'
<1>1. eng \in [Engine -> EngineRec] /\ input \in [Engine -> Seq(Message)] /\ sent \in Nat
  BY DEF WavesInv, Types
<1>2. /\ eng' \in [Engine -> EngineRec] /\ input' \in [Engine -> Seq(Message)]
      /\ eng'[e] = g /\ input'[e] = q
      /\ \A f \in Engine : f # e => eng'[f] = eng[f] /\ input'[f] = input[f]
  BY <1>1
<1>3. CountInv'
  <2>1. eng[e].waiting + eng[e].active + Cardinality(Adds(input[e])) <= sent
    BY DEF WavesInv, CountInv
  <2>2. /\ eng[e].waiting \in Nat /\ eng[e].active \in Nat /\ g.waiting \in Nat /\ g.active \in Nat
    BY <1>1, SMTT(60) DEF EngineRec
  <2>3. Cardinality(Adds(q)) \in Nat /\ Cardinality(Adds(input[e])) \in Nat
    BY <1>1, AddsFinite
  <2>4. g.waiting + g.active + Cardinality(Adds(q)) <= sent
    BY <1>1, <2>1, <2>2, <2>3, SMTT(60)
  <2>5. \A f \in Engine : eng'[f].waiting + eng'[f].active + Cardinality(Adds(input'[f])) <= sent
    BY <1>2, <2>4 DEF WavesInv, CountInv
  <2>6. QED BY <2>5 DEF CountInv
<1>4. StepInv'
  <2>1. ASSUME NEW a \in Engine, NEW b \in Engine
        PROVE  eng'[a].step = eng'[b].step /\ (eng'[a].pc = "reduce" => eng'[b].pc = "reduce")
    <3>1. \A f \in Engine : eng'[f].step = eng[f].step
      BY <1>2
    <3>2. \A f \in Engine : eng[f].pc # "reduce"
      <4>1. eng[e].pc # "reduce"
        OBVIOUS
      <4>2. QED BY <4>1 DEF WavesInv, StepInv
    <3>3. eng'[a].pc # "reduce"
      BY <1>2, <3>2
    <3>4. eng[a].step = eng[b].step
      BY DEF WavesInv, StepInv
    <3>5. QED BY <3>1, <3>3, <3>4
  <2>2. QED BY <2>1 DEF StepInv
<1>5. QED BY <1>2, <1>3, <1>4

(* The invariant of the pause, when e stays in its phase of it.             *)
LEMMA OneKeeps ==
  ASSUME PauseInv, NEW e \in Engine, InOrder(input'[e]), Keeps(eng[e], eng'[e]),
         Has(input'[e], "pause") <=> Has(input[e], "pause"),
         Has(input'[e], "resume") <=> Has(input[e], "resume"),
         \A f \in Engine : f # e => eng'[f] = eng[f] /\ input'[f] = input[f],
         client' = client
  PROVE  PauseInv'
<1>1. \A f \in Engine : InOrder(input[f])
  BY DEF PauseInv
<1>2. \A f \in Engine : Keeps(eng[f], eng'[f])
  BY KeepsSame
<1>3. \A f \in Engine : InOrder(input[f])' /\ (Wants(f)' <=> Wants(f)) /\ (Back(f)' <=> Back(f))
  BY <1>1 DEF Wants, Back
<1>4. QED BY <1>2, <1>3, PauseFrame

(* The requests a paused scheduler counts do not depend on those waiting.   *)
LEMMA UnfinishedPaused ==
  ASSUME NEW g, NEW h, g.pause # "none", g.pause \in {"none", "new", "all"},
         h.pause = g.pause, h.active = g.active
  PROVE  Unfinished(h) <=> Unfinished(g)
  BY DEF Unfinished

(* An engine takes a request, which may wake the wave.                      *)
LEMMA HandleAddStep ==
  ASSUME WavesInv, NEW e \in Engine, HandleAdd(e)
  PROVE  WavesInv'
<1> DEFINE q == Tail(input[e])  wave == Head(input[e]).wave  g == eng[e]
           stale == wave < g.wave /\ ~g.running /\ g.pause = "none"
           h == IF wave > g.wave THEN [[g EXCEPT !.waiting = @ + 1] EXCEPT !.wave = wave]
                ELSE IF stale THEN [[g EXCEPT !.waiting = @ + 1] EXCEPT !.running = TRUE]
                ELSE [g EXCEPT !.waiting = @ + 1]
<1>1. /\ Types /\ eng \in [Engine -> EngineRec] /\ input \in [Engine -> Seq(Message)]
      /\ input[e] \in Seq(Message) /\ g \in EngineRec /\ output \in [Engine -> Seq(Note)]
      /\ InOrder(input[e])
  BY DEF WavesInv, Types, PauseInv
<1>2. /\ g.pc = "input" /\ input[e] # <<>> /\ Head(input[e]).type = "add"
      /\ input' = [input EXCEPT ![e] = q]
      /\ UNCHANGED <<config, start, coord, published, client, notices, sent>>
  BY DEF HandleAdd, Take, Polls
<1>3. /\ Head(input[e]) \in Message /\ q \in Seq(Message) /\ InOrder(q)
      /\ \A t : t # "add" => (Has(q, t) <=> Has(input[e], t))
      /\ Cardinality(Adds(q)) + 1 <= Cardinality(Adds(input[e]))
  BY <1>1, <1>2, TakeMessage
<1>4. wave \in Nat
  BY <1>2, <1>3, SMTT(60) DEF Message
<1>5. /\ g.waiting \in Nat /\ g.active \in Nat /\ g.wave \in Nat /\ g.waiting + 1 \in Nat
      /\ g.pause \in {"none", "new", "all"}
  BY <1>1, SMTT(60) DEF EngineRec
<1>6. LET k == [g EXCEPT !.waiting = @ + 1]
      IN  /\ k \in EngineRec /\ k.wave = g.wave /\ k.running = g.running /\ k.pause = g.pause
          /\ k.waiting = g.waiting + 1 /\ k.active = g.active /\ k.step = g.step /\ k.pc = g.pc
          /\ k.pending = g.pending /\ k.ignore = g.ignore /\ k.callback = g.callback
  BY <1>1, <1>5 DEF EngineRec
<1>7. eng' = [eng EXCEPT ![e] = h]
  BY <1>6 DEF HandleAdd
<1>8. /\ h \in EngineRec /\ h.waiting = g.waiting + 1 /\ h.active = g.active /\ h.step = g.step
      /\ h.pc = g.pc /\ h.pause = g.pause /\ h.pending = g.pending /\ h.ignore = g.ignore
      /\ h.callback = g.callback
  <2>1. ASSUME NEW k \in EngineRec, NEW w \in Nat
        PROVE  LET a == [k EXCEPT !.wave = w]  b == [k EXCEPT !.running = TRUE]
               IN  /\ a \in EngineRec /\ a.waiting = k.waiting /\ a.active = k.active /\ a.step = k.step
                   /\ a.pc = k.pc /\ a.pause = k.pause /\ a.pending = k.pending /\ a.ignore = k.ignore
                   /\ a.callback = k.callback
                   /\ b \in EngineRec /\ b.waiting = k.waiting /\ b.active = k.active /\ b.step = k.step
                   /\ b.pc = k.pc /\ b.pause = k.pause /\ b.pending = k.pending /\ b.ignore = k.ignore
                   /\ b.callback = k.callback
    BY DEF EngineRec
  <2>2. QED BY <1>4, <1>6, <2>1
<1>9. g.running => h.running
  <2>1. ASSUME NEW k \in EngineRec, NEW w
        PROVE  [k EXCEPT !.wave = w].running = k.running /\ [k EXCEPT !.running = TRUE].running
    BY DEF EngineRec
  <2>2. QED BY <1>6, <2>1
<1>10. g.pause # "none" => (h.running <=> g.running)
  <2>1. ASSUME NEW k \in EngineRec, NEW w
        PROVE  [k EXCEPT !.wave = w].running = k.running
    BY DEF EngineRec
  <2>2. QED BY <1>6, <2>1
<1>11. output' \in [Engine -> Seq(Note)]
  <2>1. [type |-> "start", wave |-> g.wave] \in Note
    BY <1>5, SMTT(60) DEF Note
  <2>2. Append(output[e], [type |-> "start", wave |-> g.wave]) \in Seq(Note)
    BY <1>1, <2>1, Queues
  <2>3. output' = output \/ output' = [output EXCEPT ![e] = Append(@, [type |-> "start", wave |-> g.wave])]
    BY <1>6 DEF HandleAdd, Send
  <2>4. QED BY <1>1, <2>2, <2>3
<1> HIDE DEF h, q
<1>12. h.waiting + h.active + Cardinality(Adds(q)) <= g.waiting + g.active + Cardinality(Adds(input[e]))
  <2>1. Cardinality(Adds(q)) \in Nat /\ Cardinality(Adds(input[e])) \in Nat
    BY <1>1, <1>3, AddsFinite
  <2>2. QED BY <1>3, <1>5, <1>8, <2>1, SMTT(60)
<1>13. /\ eng' \in [Engine -> EngineRec] /\ input' \in [Engine -> Seq(Message)]
       /\ eng'[e] = h /\ input'[e] = q
       /\ \A f \in Engine : f # e => eng'[f] = eng[f] /\ input'[f] = input[f]
       /\ CountInv' /\ StepInv'
  BY <1>2, <1>3, <1>7, <1>8, <1>12, OneEngine
<1>14. Types'
  BY <1>1, <1>2, <1>11, <1>13 DEF Types, MaxReq
<1>15. Keeps(g, h)
  <2>1. Normal(g) => Normal(h)
    BY <1>8 DEF Normal, Collective
  <2>2. Pausing(g) => Pausing(h)
    BY <1>8, <1>9 DEF Pausing, Collective
  <2>3. Draining(g) => Draining(h)
    BY <1>8, <1>9 DEF Draining, Collective
  <2>4. Paused(g) => Paused(h)
    BY <1>5, <1>8, <1>10, UnfinishedPaused DEF Paused
  <2>5. Resuming(g) => Resuming(h)
    BY <1>8 DEF Resuming
  <2>6. QED BY <1>8, <2>1, <2>2, <2>3, <2>4, <2>5 DEF Keeps
<1>16. PauseInv'
  BY <1>2, <1>3, <1>13, <1>15, OneKeeps DEF WavesInv
<1>17. QED BY <1>13, <1>14, <1>16 DEF WavesInv

(* An engine takes the start of a wave from the coordinator.                *)
LEMMA HandleStartStep ==
  ASSUME WavesInv, NEW e \in Engine, HandleStart(e)
  PROVE  WavesInv'
<1> DEFINE g == eng[e]  m == Head(start[e])  k == [g EXCEPT !.wave = m.wave, !.running = TRUE]
<1>1. /\ Types /\ eng \in [Engine -> EngineRec] /\ input \in [Engine -> Seq(Message)]
      /\ input[e] \in Seq(Message) /\ g \in EngineRec /\ InOrder(input[e])
      /\ start \in [Engine -> Seq(StartRec)]
  BY DEF WavesInv, Types, PauseInv
<1>2. /\ g.pc = "input" /\ start[e] # <<>> /\ start' = [start EXCEPT ![e] = Tail(@)]
      /\ UNCHANGED <<config, input, output, coord, published, client, notices, sent>>
      /\ \/ eng' = eng
         \/ ~g.ignore /\ eng' = [eng EXCEPT ![e].wave = m.wave, ![e].running = TRUE]
  BY DEF HandleStart, Polls
<1>3. m \in StartRec /\ start' \in [Engine -> Seq(StartRec)]
  <2>1. start[e] \in Seq(StartRec)
    BY <1>1
  <2>2. Head(start[e]) \in StartRec /\ Tail(start[e]) \in Seq(StartRec)
    BY <1>2, <2>1, Queues
  <2>3. QED BY <1>1, <1>2, <2>2
<1>4. m.wave \in Nat
  BY <1>3, SMTT(60) DEF StartRec
<1>5. /\ k \in EngineRec /\ k.waiting = g.waiting /\ k.active = g.active /\ k.step = g.step
      /\ k.pc = g.pc /\ k.pause = g.pause /\ k.pending = g.pending /\ k.ignore = g.ignore
      /\ k.callback = g.callback /\ k.running
  BY <1>1, <1>4 DEF EngineRec
<1>6. eng' = [eng EXCEPT ![e] = g] \/ (~g.ignore /\ eng' = [eng EXCEPT ![e] = k])
  BY <1>1, <1>2
<1> HIDE DEF k
<1>7. PICK h \in {g, k} : (h = g \/ ~g.ignore) /\ eng' = [eng EXCEPT ![e] = h]
  BY <1>6
<1>8. /\ h \in EngineRec /\ h.waiting = g.waiting /\ h.active = g.active /\ h.step = g.step
      /\ h.pc = g.pc /\ h.pause = g.pause /\ h.pending = g.pending /\ h.ignore = g.ignore
      /\ h.callback = g.callback /\ (h = g \/ h.running)
  BY <1>1, <1>5, <1>7
<1>9. h.waiting + h.active + Cardinality(Adds(input[e]))
        <= g.waiting + g.active + Cardinality(Adds(input[e]))
  <2>1. g.waiting \in Nat /\ g.active \in Nat
    BY <1>1, SMTT(60) DEF EngineRec
  <2>2. Cardinality(Adds(input[e])) \in Nat
    BY <1>1, AddsFinite
  <2>3. QED BY <1>8, <2>1, <2>2, SMTT(60)
<1>10. input' = [input EXCEPT ![e] = input[e]]
  BY <1>1, <1>2
<1>11. /\ eng' \in [Engine -> EngineRec] /\ input' \in [Engine -> Seq(Message)]
       /\ eng'[e] = h /\ input'[e] = input[e]
       /\ \A f \in Engine : f # e => eng'[f] = eng[f] /\ input'[f] = input[f]
       /\ CountInv' /\ StepInv'
  BY <1>1, <1>2, <1>7, <1>8, <1>9, <1>10, OneEngine
<1>12. Types'
  BY <1>1, <1>2, <1>3, <1>11 DEF Types, MaxReq
<1>13. Keeps(g, h)
  <2>1. Normal(g) => Normal(h)
    BY <1>8 DEF Normal, Collective
  <2>2. Pausing(g) => Pausing(h)
    BY <1>8 DEF Pausing, Collective
  <2>3. Draining(g) => Draining(h)
    BY <1>8 DEF Draining, Collective
  <2>4. Paused(g) => Paused(h)
    BY <1>7 DEF Paused
  <2>5. Resuming(g) => Resuming(h)
    BY <1>8 DEF Resuming
  <2>6. QED BY <1>8, <2>1, <2>2, <2>3, <2>4, <2>5 DEF Keeps
<1>14. PauseInv'
  BY <1>1, <1>2, <1>11, <1>13, OneKeeps DEF WavesInv
<1>15. QED BY <1>11, <1>12, <1>14 DEF WavesInv

(* An engine takes a pause.                                                 *)
LEMMA HandlePauseStep ==
  ASSUME WavesInv, NEW e \in Engine, HandlePause(e)
  PROVE  WavesInv'
<1> DEFINE q == Tail(input[e])  g == eng[e]
           p == IF Mode = "keep" THEN "all" ELSE "new"
           a == IF Mode = "abort" THEN 0 ELSE g.active
           b == IF Mode = "abort" THEN 0 ELSE g.waiting
           h == [g EXCEPT !.pause = IF Mode = "keep" THEN "all" ELSE "new",
                          !.waiting = IF Mode = "abort" THEN 0 ELSE @,
                          !.active = IF Mode = "abort" THEN 0 ELSE @,
                          !.pending = TRUE, !.running = TRUE, !.callback = TRUE]
<1>1. /\ Types /\ eng \in [Engine -> EngineRec] /\ input \in [Engine -> Seq(Message)]
      /\ input[e] \in Seq(Message) /\ g \in EngineRec /\ InOrder(input[e])
  BY DEF WavesInv, Types, PauseInv
<1>2. /\ g.pc = "input" /\ input[e] # <<>> /\ Head(input[e]).type = "pause"
      /\ input' = [input EXCEPT ![e] = q] /\ eng' = [eng EXCEPT ![e] = h]
      /\ UNCHANGED <<config, start, output, coord, published, client, notices, sent>>
  BY DEF HandlePause, Take, Polls
<1>3. /\ q \in Seq(Message) /\ InOrder(q) /\ Has(input[e], "pause") /\ ~Has(input[e], "resume")
      /\ ~Has(q, "pause") /\ (Has(q, "resume") <=> Has(input[e], "resume"))
      /\ Cardinality(Adds(q)) <= Cardinality(Adds(input[e]))
  <2>1. "pause" # "add" /\ "pause" # "resume"
    OBVIOUS
  <2>2. QED BY <1>1, <1>2, <2>1, TakeMessage
<1>4. p \in {"none", "new", "all"} /\ p # "none"
  OBVIOUS
<1>5. g.waiting \in Nat /\ g.active \in Nat
  BY <1>1, SMTT(60) DEF EngineRec
<1>6. a \in Nat /\ b \in Nat /\ a <= g.active /\ b <= g.waiting
  BY <1>5, SMTT(60)
<1> HIDE DEF q
<1>7. /\ h \in EngineRec /\ h.waiting = b /\ h.active = a /\ h.step = g.step
      /\ h.pc = g.pc /\ h.pause = p /\ h.pending /\ h.ignore = g.ignore
      /\ h.callback /\ h.running
  BY <1>1, <1>4, <1>6 DEF EngineRec
<1> HIDE DEF h, a, b, p
<1>8. h.waiting + h.active + Cardinality(Adds(q)) <= g.waiting + g.active + Cardinality(Adds(input[e]))
  <2>1. Cardinality(Adds(q)) \in Nat /\ Cardinality(Adds(input[e])) \in Nat
    BY <1>1, <1>3, AddsFinite
  <2>2. QED BY <1>3, <1>5, <1>6, <1>7, <2>1, SMTT(60)
<1>9. /\ eng' \in [Engine -> EngineRec] /\ input' \in [Engine -> Seq(Message)]
      /\ eng'[e] = h /\ input'[e] = q
      /\ \A f \in Engine : f # e => eng'[f] = eng[f] /\ input'[f] = input[f]
      /\ CountInv' /\ StepInv'
  BY <1>2, <1>3, <1>7, <1>8, OneEngine
<1>10. Types'
  BY <1>1, <1>2, <1>9 DEF Types, MaxReq
<1>11. Wants(e) /\ ~Back(e)
  BY <1>3 DEF Wants, Back
<1>12. SomePause
  <2>1. g.pc # "resume"
    BY <1>2
  <2>2. QED BY <1>11, <2>1 DEF WavesInv, PauseInv, AllRun, AllDrain, AllPaused, SomeResume, Resuming
<1>13. Normal(g)
  BY <1>11, <1>12 DEF SomePause
<1>14. Pausing(h)
  BY <1>4, <1>7, <1>13 DEF Normal, Pausing, Collective
<1>15. ~Wants(e)' /\ ~Back(e)' /\ \A f \in Engine : f # e => (Wants(f)' <=> Wants(f)) /\ (Back(f)' <=> Back(f))
  BY <1>3, <1>9 DEF Wants, Back
<1>16. SomePause'
  BY <1>2, <1>9, <1>12, <1>14, <1>15 DEF SomePause
<1>17. \A f \in Engine : InOrder(input'[f])
  BY <1>3, <1>9 DEF WavesInv, PauseInv
<1>18. QED BY <1>9, <1>10, <1>16, <1>17 DEF WavesInv, PauseInv

(* An engine step that leaves the input alone: what it needs to show of the *)
(* engine's new state h.                                                    *)
LEMMA OwnStep ==
  ASSUME WavesInv, NEW e \in Engine, NEW h \in EngineRec, eng' = [eng EXCEPT ![e] = h],
         UNCHANGED <<config, input, start, output, coord, published, notices, sent>>,
         client' \in ClientRec, eng[e].pc = "input", h.pc # "reduce", h.step = eng[e].step,
         h.waiting = eng[e].waiting, h.active = eng[e].active
  PROVE  /\ Types' /\ CountInv' /\ StepInv' /\ eng'[e] = h
         /\ \A f \in Engine : f # e => eng'[f] = eng[f]
         /\ \A f \in Engine : (Wants(f)' <=> Wants(f)) /\ (Back(f)' <=> Back(f))
<1>1. /\ Types /\ eng[e] \in EngineRec /\ input[e] \in Seq(Message)
      /\ input' = [input EXCEPT ![e] = input[e]]
  BY DEF WavesInv, Types
<1>2. h.waiting + h.active + Cardinality(Adds(input[e]))
        <= eng[e].waiting + eng[e].active + Cardinality(Adds(input[e]))
  <2>1. eng[e].waiting \in Nat /\ eng[e].active \in Nat
    BY <1>1, SMTT(60) DEF EngineRec
  <2>2. Cardinality(Adds(input[e])) \in Nat
    BY <1>1, AddsFinite
  <2>3. QED BY <2>1, <2>2, SMTT(60)
<1>3. /\ eng' \in [Engine -> EngineRec] /\ input' \in [Engine -> Seq(Message)]
      /\ eng'[e] = h /\ \A f \in Engine : f # e => eng'[f] = eng[f]
      /\ CountInv' /\ StepInv'
  BY <1>1, <1>2, OneEngine
<1>4. Types'
  BY <1>1, <1>3 DEF Types, MaxReq
<1>5. QED BY <1>3, <1>4 DEF Wants, Back

(* An engine that is drained acknowledges its pause.                        *)
LEMMA PauseDoneStep ==
  ASSUME WavesInv, NEW e \in Engine, PauseDone(e)
  PROVE  WavesInv'
<1> DEFINE g == eng[e]  h == [g EXCEPT !.callback = FALSE]
<1>1. g \in EngineRec /\ client \in ClientRec /\ \A f \in Engine : InOrder(input[f])
  BY DEF WavesInv, Types, PauseInv
<1>2. /\ g.pc = "input" /\ g.callback /\ ~g.running /\ eng' = [eng EXCEPT ![e] = h]
      /\ client' = [client EXCEPT !.acks = @ \cup {e}]
      /\ UNCHANGED <<config, input, start, output, coord, published, notices, sent>>
  BY DEF PauseDone, HasWork
<1>3. /\ h \in EngineRec /\ h.waiting = g.waiting /\ h.active = g.active /\ h.step = g.step
      /\ h.pc = g.pc /\ h.pause = g.pause /\ h.pending = g.pending /\ h.ignore = g.ignore
      /\ h.running = g.running /\ ~h.callback
  BY <1>1 DEF EngineRec
<1>4. client' \in ClientRec /\ client'.pausing = client.pausing /\ client'.acks = client.acks \cup {e}
  <2>1. ASSUME NEW c \in ClientRec
        PROVE  LET d == [c EXCEPT !.acks = @ \cup {e}]
               IN  d \in ClientRec /\ d.pausing = c.pausing /\ d.acks = c.acks \cup {e}
    <3>1. c.acks \cup {e} \in SUBSET Engine
      <4>1. c.acks \in SUBSET Engine
        BY SMTT(60) DEF ClientRec
      <4>2. QED BY <4>1
    <3>2. QED BY <3>1 DEF ClientRec
  <2>2. QED BY <1>1, <1>2, <2>1
<1> HIDE DEF h
<1>5. /\ Types' /\ CountInv' /\ StepInv' /\ eng'[e] = h
      /\ \A f \in Engine : f # e => eng'[f] = eng[f]
      /\ \A f \in Engine : (Wants(f)' <=> Wants(f)) /\ (Back(f)' <=> Back(f))
  BY <1>2, <1>3, <1>4, OwnStep
<1>6. AllPaused
  BY <1>2 DEF WavesInv, PauseInv, AllRun, SomePause, AllDrain, SomeResume,
              Normal, Pausing, Draining, Resuming
<1>7. AllPaused'
  <2>1. Paused(h) /\ (h.callback <=> e \notin client'.acks)
    <3>1. Paused(g)
      BY <1>6 DEF AllPaused
    <3>2. Unfinished(h) <=> Unfinished(g)
      BY <1>3 DEF Unfinished
    <3>3. QED BY <1>3, <1>4, <3>1, <3>2 DEF Paused
  <2>2. \A f \in Engine : f # e => (f \in client'.acks <=> f \in client.acks)
    BY <1>4
  <2>3. QED BY <1>4, <1>5, <1>6, <2>1, <2>2 DEF AllPaused
<1>8. \A f \in Engine : InOrder(input'[f])
  BY <1>1, <1>2
<1>9. QED BY <1>5, <1>7, <1>8 DEF WavesInv, PauseInv

(* An engine enters a step of the wave.                                     *)
LEMMA EnterStepStep ==
  ASSUME WavesInv, NEW e \in Engine, EnterStep(e)
  PROVE  WavesInv'
<1> DEFINE g == eng[e]  h == [g EXCEPT !.pc = "forward"]
<1>1. g \in EngineRec /\ client \in ClientRec /\ \A f \in Engine : InOrder(input[f])
  BY DEF WavesInv, Types, PauseInv
<1>2. /\ g.pc = "input" /\ (g.running \/ Unfinished(g)) /\ eng' = [eng EXCEPT ![e] = h]
      /\ UNCHANGED <<config, input, start, output, coord, published, client, notices, sent>>
  BY DEF EnterStep, HasWork
<1>3. /\ h \in EngineRec /\ h.waiting = g.waiting /\ h.active = g.active /\ h.step = g.step
      /\ h.pc = "forward" /\ h.pause = g.pause /\ h.pending = g.pending /\ h.ignore = g.ignore
      /\ h.running = g.running /\ h.callback = g.callback
  BY <1>1 DEF EngineRec, PC
<1> HIDE DEF h
<1>4. /\ Types' /\ CountInv' /\ StepInv' /\ eng'[e] = h
      /\ \A f \in Engine : f # e => eng'[f] = eng[f]
      /\ \A f \in Engine : (Wants(f)' <=> Wants(f)) /\ (Back(f)' <=> Back(f))
  BY <1>1, <1>2, <1>3, OwnStep
<1>5. Keeps(g, h)
  <2>1. Normal(g) => Normal(h)
    BY <1>3 DEF Normal, Collective
  <2>2. Pausing(g) => Pausing(h)
    BY <1>3 DEF Pausing, Collective
  <2>3. Draining(g) => Draining(h)
    BY <1>3 DEF Draining, Collective
  <2>4. ~Paused(g) /\ ~Resuming(g)
    BY <1>2 DEF Paused, Resuming
  <2>5. QED BY <2>1, <2>2, <2>3, <2>4 DEF Keeps
<1>6. \A f \in Engine : Keeps(eng[f], eng'[f]) /\ InOrder(input'[f])
  BY <1>1, <1>2, <1>4, <1>5, KeepsSame
<1>7. PauseInv'
  BY <1>2, <1>4, <1>6, PauseFrame DEF WavesInv
<1>8. QED BY <1>4, <1>7 DEF WavesInv

(* An engine takes the resume.                                              *)
LEMMA HandleResumeStep ==
  ASSUME WavesInv, NEW e \in Engine, HandleResume(e)
  PROVE  WavesInv'
<1> DEFINE q == Tail(input[e])  g == eng[e]
           h == [g EXCEPT !.pause = "none", !.ignore = FALSE, !.pc = "resume"]
<1>1. /\ Types /\ eng \in [Engine -> EngineRec] /\ input \in [Engine -> Seq(Message)]
      /\ input[e] \in Seq(Message) /\ g \in EngineRec /\ InOrder(input[e])
  BY DEF WavesInv, Types, PauseInv
<1>2. /\ g.pc = "input" /\ input[e] # <<>> /\ Head(input[e]).type = "resume"
      /\ input' = [input EXCEPT ![e] = q]
      /\ UNCHANGED <<config, start, output, coord, published, client, notices, sent>>
  BY DEF HandleResume, Take, Polls
<1>3. /\ q \in Seq(Message) /\ InOrder(q) /\ Has(input[e], "resume")
      /\ ~Has(q, "resume") /\ (Has(q, "pause") <=> Has(input[e], "pause"))
      /\ Cardinality(Adds(q)) <= Cardinality(Adds(input[e]))
  <2>1. "resume" # "add" /\ "pause" # "resume"
    OBVIOUS
  <2>2. QED BY <1>1, <1>2, <2>1, TakeMessage
<1>4. Back(e)
  BY <1>3 DEF Back
<1>5. SomeResume
  BY <1>4 DEF WavesInv, PauseInv, AllRun, SomePause, AllDrain, AllPaused
<1>6. Paused(g) /\ ~g.callback
  BY <1>4, <1>5 DEF SomeResume
<1>7. eng' = [eng EXCEPT ![e] = h]
  <2>1. eng' = [eng EXCEPT ![e].pause = "none", ![e].ignore = FALSE, ![e].pc = "resume"]
    BY <1>6 DEF HandleResume, Paused
  <2>2. QED BY <2>1
<1>8. /\ h \in EngineRec /\ h.waiting = g.waiting /\ h.active = g.active /\ h.step = g.step
      /\ h.pc = "resume" /\ h.pause = "none" /\ h.pending = g.pending /\ ~h.ignore
      /\ h.callback = g.callback
  BY <1>1 DEF EngineRec, PC
<1> HIDE DEF h, q
<1>9. h.waiting + h.active + Cardinality(Adds(q)) <= g.waiting + g.active + Cardinality(Adds(input[e]))
  <2>1. Cardinality(Adds(q)) \in Nat /\ Cardinality(Adds(input[e])) \in Nat
    BY <1>1, <1>3, AddsFinite
  <2>2. g.waiting \in Nat /\ g.active \in Nat
    BY <1>1, SMTT(60) DEF EngineRec
  <2>3. QED BY <1>3, <1>8, <2>1, <2>2, SMTT(60)
<1>10. /\ eng' \in [Engine -> EngineRec] /\ input' \in [Engine -> Seq(Message)]
       /\ eng'[e] = h /\ input'[e] = q
       /\ \A f \in Engine : f # e => eng'[f] = eng[f] /\ input'[f] = input[f]
       /\ CountInv' /\ StepInv'
  BY <1>2, <1>3, <1>7, <1>8, <1>9, OneEngine
<1>11. Types'
  BY <1>1, <1>2, <1>10 DEF Types, MaxReq
<1>12. Resuming(h)
  BY <1>6, <1>8 DEF Paused, Resuming
<1>13. /\ ~Back(e)' /\ (Wants(e)' <=> Wants(e))
       /\ \A f \in Engine : f # e => (Wants(f)' <=> Wants(f)) /\ (Back(f)' <=> Back(f))
  BY <1>3, <1>10 DEF Wants, Back
<1>14. SomeResume'
  BY <1>2, <1>5, <1>10, <1>12, <1>13 DEF SomeResume
<1>15. \A f \in Engine : InOrder(input'[f])
  BY <1>3, <1>10 DEF WavesInv, PauseInv
<1>16. QED BY <1>10, <1>11, <1>14, <1>15 DEF WavesInv, PauseInv

-----------------------------------------------------------------------------
(* The collectives.                                                         *)

(* The invariants but that of the pause, when all engines move at once.     *)
LEMMA AllEngines ==
  ASSUME WavesInv, UNCHANGED <<config, input, start, coord, published, client, notices, sent>>,
         output' \in [Engine -> Seq(Note)], eng' \in [Engine -> EngineRec],
         \A e \in Engine : eng'[e].waiting + eng'[e].active <= eng[e].waiting + eng[e].active
  PROVE  /\ Types' /\ CountInv' /\ \A e \in Engine : InOrder(input[e])'
         /\ \A e \in Engine : (Wants(e)' <=> Wants(e)) /\ (Back(e)' <=> Back(e))
<1>1. Types /\ CountInv /\ eng \in [Engine -> EngineRec] /\ sent \in Nat
      /\ input \in [Engine -> Seq(Message)] /\ \A e \in Engine : InOrder(input[e])
  BY DEF WavesInv, Types, PauseInv
<1>2. Types'
  BY <1>1 DEF Types, MaxReq
<1>3. ASSUME NEW e \in Engine
      PROVE  eng'[e].waiting + eng'[e].active + Cardinality(Adds(input[e])) <= sent
  <2>1. /\ eng[e].waiting \in Nat /\ eng[e].active \in Nat
        /\ eng'[e].waiting \in Nat /\ eng'[e].active \in Nat
    BY <1>1, SMTT(60) DEF EngineRec
  <2>2. Cardinality(Adds(input[e])) \in Nat
    BY <1>1, AddsFinite
  <2>3. eng[e].waiting + eng[e].active + Cardinality(Adds(input[e])) <= sent
    BY <1>1 DEF CountInv
  <2>4. eng'[e].waiting + eng'[e].active <= eng[e].waiting + eng[e].active
    OBVIOUS
  <2>5. QED BY <1>1, <2>1, <2>2, <2>3, <2>4, SMTT(60)
<1>4. CountInv'
  BY <1>3 DEF CountInv
<1>5. QED BY <1>1, <1>2, <1>4 DEF Wants, Back

(* The collective with which the engines leave the pause.                   *)
LEMMA ResumeBarrierStep ==
  ASSUME WavesInv, ResumeBarrier
  PROVE  WavesInv'
<1> DEFINE u == \E f \in Engine : Unfinished(eng[f])
<1>1. /\ \A e \in Engine : eng[e].pc = "resume" /\ eng[e] \in EngineRec
      /\ eng' = [e \in Engine |-> [eng[e] EXCEPT !.pc = "input", !.running = u]]
      /\ UNCHANGED <<config, input, start, output, coord, published, client, notices, sent>>
  BY DEF ResumeBarrier, WavesInv, Types
<1>2. u \in BOOLEAN
  OBVIOUS
<1> HIDE DEF u
<1>3. ASSUME NEW e \in Engine
      PROVE  /\ eng'[e] \in EngineRec /\ eng'[e].pc = "input" /\ eng'[e].step = eng[e].step
             /\ eng'[e].waiting = eng[e].waiting /\ eng'[e].active = eng[e].active
             /\ eng'[e].pause = eng[e].pause /\ eng'[e].pending = eng[e].pending
             /\ eng'[e].ignore = eng[e].ignore /\ eng'[e].callback = eng[e].callback
  <2>1. eng'[e] = [eng[e] EXCEPT !.pc = "input", !.running = u]
    BY <1>1
  <2>2. QED BY <1>1, <1>2, <2>1 DEF EngineRec, PC
<1>4. eng' \in [Engine -> EngineRec]
  BY <1>1, <1>3
<1>5. /\ Types' /\ CountInv' /\ \A e \in Engine : InOrder(input[e])'
      /\ \A e \in Engine : (Wants(e)' <=> Wants(e)) /\ (Back(e)' <=> Back(e))
  <2>1. output' \in [Engine -> Seq(Note)]
    BY <1>1 DEF WavesInv, Types
  <2>2. ASSUME NEW e \in Engine
        PROVE  eng'[e].waiting + eng'[e].active <= eng[e].waiting + eng[e].active
    <3>1. eng[e] \in EngineRec
      BY <1>1
    <3>2. eng[e].waiting \in Nat /\ eng[e].active \in Nat
      BY <3>1, SMTT(60) DEF EngineRec
    <3>3. QED BY <1>3, <3>2, SMTT(60)
  <2>3. QED BY <1>1, <1>4, <2>1, <2>2, AllEngines
<1>6. StepInv'
  <2>1. \A e, f \in Engine : eng[e].step = eng[f].step
    BY DEF WavesInv, StepInv
  <2>2. \A e, f \in Engine : eng'[e].step = eng'[f].step /\ eng'[e].pc # "reduce"
    BY <1>3, <2>1
  <2>3. QED BY <2>2 DEF StepInv
<1>7. SomeResume
  <2>1. \A e \in Engine : ~Collective(eng[e]) /\ eng[e].pc # "input"
    BY <1>1 DEF Collective
  <2>2. QED BY <2>1, SomeEngine DEF WavesInv, PauseInv, AllRun, SomePause, AllDrain, AllPaused,
                                    Normal, Pausing, Draining, Paused
<1>8. \A e \in Engine : ~Back(e) /\ Resuming(eng[e])
  <2>1. \A e \in Engine : ~Paused(eng[e])
    BY <1>1 DEF Paused
  <2>2. QED BY <1>7, <2>1 DEF SomeResume
<1>9. \A e \in Engine : Normal(eng'[e])
  BY <1>3, <1>8 DEF Resuming, Normal, Collective
<1>10. PauseInv'
  <2>1. CASE client.pausing = "asked"
    <3>1. SomePause'
      BY <1>1, <1>5, <1>7, <1>8, <1>9, <2>1 DEF SomePause, SomeResume
    <3>2. QED BY <1>5, <3>1 DEF PauseInv
  <2>2. CASE client.pausing # "asked"
    <3>1. client.pausing = "no"
      <4>1. client.pausing \in {"no", "asked"}
        BY SMTT(60) DEF WavesInv, Types, ClientRec
      <4>2. QED BY <2>2, <4>1
    <3>2. AllRun'
      BY <1>1, <1>5, <1>7, <1>8, <1>9, <2>2, <3>1 DEF AllRun, SomeResume
    <3>3. QED BY <1>5, <3>2 DEF PauseInv
  <2>3. QED BY <2>1, <2>2
<1>11. QED BY <1>5, <1>6, <1>10 DEF WavesInv

(* The count of steps stays in its range and the work does not grow.        *)
LEMMA SteppedEngine ==
  ASSUME NEW g \in EngineRec
  PROVE  LET h == [Stepped(g) EXCEPT !.step = NextStep(@)]
         IN  /\ h \in EngineRec /\ h.waiting + h.active <= g.waiting + g.active
             /\ h.step = NextStep(g.step) /\ h.wave = g.wave /\ h.pause = g.pause
             /\ h.pending = g.pending /\ h.ignore = g.ignore /\ h.callback = g.callback
             /\ h.running = g.running /\ Stepped(g).step = g.step
<1> DEFINE k == Stepped(g)
<1>1. /\ g.waiting \in Nat /\ g.active \in Nat /\ g.step \in 0 .. Interval + 1
      /\ g.pause \in {"none", "new", "all"}
  BY SMTT(60) DEF EngineRec
<1>2. NextStep(g.step) \in 0 .. Interval + 1
  BY <1>1, WavesAssumption, SMTT(60) DEF NextStep
<1>3. /\ k \in EngineRec /\ k.step = g.step /\ k.wave = g.wave /\ k.pause = g.pause
      /\ k.pending = g.pending /\ k.ignore = g.ignore /\ k.callback = g.callback
      /\ k.running = g.running /\ k.waiting + k.active <= g.waiting + g.active
  <2>1. CASE g.pause = "all"
    <3>1. k = g
      BY <2>1 DEF Stepped
    <3>2. g.waiting + g.active <= g.waiting + g.active
      BY <1>1, SMTT(60)
    <3>3. QED BY <3>1, <3>2
  <2>2. CASE g.pause = "new"
    <3>1. PICK a \in Nat : a <= g.active /\ k = [g EXCEPT !.active = a]
      <4>1. (g.active > 0 => g.active - 1 \in Nat /\ g.active - 1 <= g.active) /\ 0 <= g.active /\ 0 \in Nat
        BY <1>1, SMTT(60)
      <4>2. k = [g EXCEPT !.active = IF g.active > 0 THEN g.active - 1 ELSE 0]
        BY <2>2 DEF Stepped
      <4>3. QED BY <4>1, <4>2
    <3>2. /\ k \in EngineRec /\ k.step = g.step /\ k.wave = g.wave /\ k.pause = g.pause
          /\ k.pending = g.pending /\ k.ignore = g.ignore /\ k.callback = g.callback
          /\ k.running = g.running /\ k.waiting = g.waiting /\ k.active = a
      BY <3>1 DEF EngineRec
    <3>3. g.waiting + a <= g.waiting + g.active
      BY <1>1, <3>1, SMTT(60)
    <3>4. QED BY <3>2, <3>3
  <2>3. CASE g.pause = "none"
    <3>1. PICK a \in Nat : a <= g.active + g.waiting /\ k = [g EXCEPT !.active = a, !.waiting = 0]
      <4>1. /\ g.active + g.waiting > 0 => g.active + g.waiting - 1 \in Nat
                 /\ g.active + g.waiting - 1 <= g.active + g.waiting
            /\ 0 <= g.active + g.waiting /\ 0 \in Nat
        BY <1>1, SMTT(60)
      <4>2. k = [g EXCEPT !.active = IF g.active + g.waiting > 0 THEN g.active + g.waiting - 1 ELSE 0,
                          !.waiting = 0]
        BY <2>3 DEF Stepped
      <4>3. QED BY <4>1, <4>2
    <3>2. /\ k \in EngineRec /\ k.step = g.step /\ k.wave = g.wave /\ k.pause = g.pause
          /\ k.pending = g.pending /\ k.ignore = g.ignore /\ k.callback = g.callback
          /\ k.running = g.running /\ k.waiting = 0 /\ k.active = a
      <4>1. 0 \in Nat
        BY SMTT(60)
      <4>2. QED BY <3>1, <4>1 DEF EngineRec
    <3>3. 0 + a <= g.waiting + g.active
      BY <1>1, <3>1, SMTT(60)
    <3>4. QED BY <3>2, <3>3
  <2>4. QED BY <1>1, <2>1, <2>2, <2>3
<1> HIDE DEF k
<1>4. LET h == [k EXCEPT !.step = NextStep(@)]
      IN  /\ h \in EngineRec /\ h.waiting = k.waiting /\ h.active = k.active
          /\ h.step = NextStep(k.step) /\ h.wave = k.wave /\ h.pause = k.pause
          /\ h.pending = k.pending /\ h.ignore = k.ignore /\ h.callback = k.callback
          /\ h.running = k.running
  BY <1>2, <1>3 DEF EngineRec
<1>5. QED BY <1>3, <1>4 DEF k

(* An engine's note to the coordinator keeps the type of its output queue.  *)
LEMMA NotifyType ==
  ASSUME Types, NEW e \in Engine, NEW type \in {"start", "complete"}
  PROVE  Notify(e, type, eng[e]) \in Seq(Note) /\ output[e] \in Seq(Note)
<1>1. eng[e].wave \in Nat /\ output[e] \in Seq(Note)
  <2>1. eng[e] \in EngineRec /\ output[e] \in Seq(Note)
    BY DEF Types
  <2>2. QED BY <2>1, SMTT(60) DEF EngineRec
<1>2. [type |-> type, wave |-> eng[e].wave] \in Note
  BY <1>1, SMTT(60) DEF Note
<1>3. QED BY <1>1, <1>2, Queues DEF Notify

(* The collective step of all engines, with the vote that ends a wave.      *)
LEMMA ForwardStep ==
  ASSUME WavesInv, Forward
  PROVE  WavesInv'
<1> DEFINE after(e) == [Stepped(eng[e]) EXCEPT !.step = NextStep(@)]
           syncs(e) == SyncStep(NextStep(eng[e].step))
<1>1. /\ \A e \in Engine : eng[e].pc = "forward" /\ eng[e] \in EngineRec
      /\ eng' = [e \in Engine |->
           IF syncs(e) THEN [after(e) EXCEPT !.pc = "reduce"]
           ELSE [after(e) EXCEPT !.pc = "input", !.running = TRUE, !.wasRunning = TRUE]]
      /\ output' = [e \in Engine |->
           IF ~syncs(e) /\ Started(e, eng[e]) THEN Notify(e, "start", eng[e]) ELSE output[e]]
      /\ UNCHANGED <<config, input, start, coord, published, client, notices, sent>>
  BY DEF Forward, WavesInv, Types
<1>2. output' \in [Engine -> Seq(Note)]
  <2>1. \A e \in Engine : Notify(e, "start", eng[e]) \in Seq(Note) /\ output[e] \in Seq(Note)
    BY NotifyType DEF WavesInv
  <2>2. QED BY <1>1, <2>1
<1>3. ASSUME NEW e \in Engine
      PROVE  /\ eng'[e] \in EngineRec /\ eng'[e].waiting + eng'[e].active <= eng[e].waiting + eng[e].active
             /\ eng'[e].step = NextStep(eng[e].step)
             /\ eng'[e].pc = IF syncs(e) THEN "reduce" ELSE "input"
             /\ eng'[e].pause = eng[e].pause /\ eng'[e].pending = eng[e].pending
             /\ eng'[e].ignore = eng[e].ignore /\ eng'[e].callback = eng[e].callback
             /\ eng[e].running => eng'[e].running
  <2> DEFINE k == after(e)
  <2>1. eng[e] \in EngineRec
    BY <1>1
  <2>2. /\ k \in EngineRec /\ k.waiting + k.active <= eng[e].waiting + eng[e].active
        /\ k.step = NextStep(eng[e].step) /\ k.pause = eng[e].pause
        /\ k.pending = eng[e].pending /\ k.ignore = eng[e].ignore /\ k.callback = eng[e].callback
        /\ k.running = eng[e].running
    BY <2>1, SteppedEngine
  <2>3. eng'[e] = IF syncs(e) THEN [k EXCEPT !.pc = "reduce"]
                  ELSE [k EXCEPT !.pc = "input", !.running = TRUE, !.wasRunning = TRUE]
    BY <1>1
  <2> HIDE DEF k
  <2>4. CASE syncs(e)
    <3>1. eng'[e] = [k EXCEPT !.pc = "reduce"]
      BY <2>3, <2>4
    <3>2. /\ eng'[e] \in EngineRec /\ eng'[e].waiting = k.waiting /\ eng'[e].active = k.active
          /\ eng'[e].step = k.step /\ eng'[e].pc = "reduce" /\ eng'[e].pause = k.pause
          /\ eng'[e].pending = k.pending /\ eng'[e].ignore = k.ignore
          /\ eng'[e].callback = k.callback /\ eng'[e].running = k.running
      BY <2>2, <3>1 DEF EngineRec, PC
    <3>3. QED BY <2>2, <2>4, <3>2
  <2>5. CASE ~syncs(e)
    <3>1. eng'[e] = [k EXCEPT !.pc = "input", !.running = TRUE, !.wasRunning = TRUE]
      BY <2>3, <2>5
    <3>2. /\ eng'[e] \in EngineRec /\ eng'[e].waiting = k.waiting /\ eng'[e].active = k.active
          /\ eng'[e].step = k.step /\ eng'[e].pc = "input" /\ eng'[e].pause = k.pause
          /\ eng'[e].pending = k.pending /\ eng'[e].ignore = k.ignore
          /\ eng'[e].callback = k.callback /\ eng'[e].running
      BY <2>2, <3>1 DEF EngineRec, PC
    <3>3. QED BY <2>2, <2>5, <3>2
  <2>6. QED BY <2>4, <2>5
<1>4. eng' \in [Engine -> EngineRec]
  BY <1>1, <1>3
<1>5. /\ Types' /\ CountInv' /\ \A e \in Engine : InOrder(input[e])'
      /\ \A e \in Engine : (Wants(e)' <=> Wants(e)) /\ (Back(e)' <=> Back(e))
  BY <1>1, <1>2, <1>3, <1>4, AllEngines
<1>6. StepInv'
  <2>1. \A e, f \in Engine : eng[e].step = eng[f].step
    BY DEF WavesInv, StepInv
  <2>2. \A e, f \in Engine : eng'[e].step = eng'[f].step /\ (syncs(e) <=> syncs(f))
    BY <1>3, <2>1
  <2>3. \A e, f \in Engine : eng'[e].pc = "reduce" => eng'[f].pc = "reduce"
    BY <1>3, <2>2
  <2>4. QED BY <2>2, <2>3 DEF StepInv
<1>7. ASSUME NEW e \in Engine PROVE Keeps(eng[e], eng'[e])
  <2>1. Collective(eng'[e])
    BY <1>3 DEF Collective
  <2>2. Normal(eng[e]) => Normal(eng'[e])
    BY <1>3, <2>1 DEF Normal
  <2>3. Pausing(eng[e]) => Pausing(eng'[e])
    BY <1>3, <2>1 DEF Pausing
  <2>4. Draining(eng[e]) => Draining(eng'[e])
    BY <1>3, <2>1 DEF Draining
  <2>5. ~Paused(eng[e]) /\ ~Resuming(eng[e])
    BY <1>1 DEF Paused, Resuming
  <2>6. QED BY <2>2, <2>3, <2>4, <2>5 DEF Keeps
<1>8. PauseInv'
  BY <1>1, <1>5, <1>7, PauseFrame DEF WavesInv
<1>9. QED BY <1>5, <1>6, <1>8 DEF WavesInv

(* The all-reduce: all ranks agree, so that either none leaves its phase of *)
(* the pause or all do.                                                     *)
LEMMA ReduceStep ==
  ASSUME WavesInv, Reduce
  PROVE  WavesInv'
<1> DEFINE P == {e \in Engine : eng[e].pending}
           goOn == GoOn(P)
           agreed(e) == IF P = Engine
                        THEN [eng[e] EXCEPT !.ignore = TRUE, !.pending = FALSE] ELSE eng[e]
<1>1. /\ \A e \in Engine : eng[e].pc = "reduce" /\ eng[e] \in EngineRec
      /\ eng' = [e \in Engine |->
           [agreed(e) EXCEPT !.pc = "input", !.running = goOn, !.wasRunning = goOn,
                             !.wave = IF goOn THEN @ ELSE @ + 1,
                             !.step = IF goOn THEN @ ELSE 0]]
      /\ output' = [e \in Engine |->
           IF ~goOn /\ e = 0 THEN Notify(e, "complete", eng[e])
           ELSE IF goOn /\ Started(e, agreed(e)) THEN Notify(e, "start", eng[e])
           ELSE output[e]]
      /\ UNCHANGED <<config, input, start, coord, published, client, notices, sent>>
  BY DEF Reduce, WavesInv, Types
<1>2. output' \in [Engine -> Seq(Note)]
  <2>1. \A e \in Engine : /\ Notify(e, "start", eng[e]) \in Seq(Note) /\ output[e] \in Seq(Note)
                          /\ Notify(e, "complete", eng[e]) \in Seq(Note)
    BY NotifyType DEF WavesInv
  <2>2. QED BY <1>1, <2>1
<1>3. /\ goOn \in BOOLEAN
      /\ goOn <=> (\E e \in Engine : Unfinished(eng[e])) \/ (P # {} /\ P # Engine)
  BY DEF GoOn, GoOnUnfinished
<1> HIDE DEF goOn
<1>4. ASSUME NEW e \in Engine
      PROVE  /\ eng'[e] \in EngineRec /\ eng'[e].waiting = eng[e].waiting
             /\ eng'[e].active = eng[e].active
             /\ eng'[e].step = (IF goOn THEN eng[e].step ELSE 0)
             /\ eng'[e].pc = "input" /\ eng'[e].pause = eng[e].pause
             /\ eng'[e].callback = eng[e].callback /\ eng'[e].running = goOn
             /\ P # Engine => eng'[e].pending = eng[e].pending /\ eng'[e].ignore = eng[e].ignore
             /\ P = Engine => ~eng'[e].pending /\ eng'[e].ignore
  <2> DEFINE k == agreed(e)
  <2>1. /\ k \in EngineRec /\ k.waiting = eng[e].waiting /\ k.active = eng[e].active
        /\ k.step = eng[e].step /\ k.pause = eng[e].pause /\ k.callback = eng[e].callback
        /\ P # Engine => k.pending = eng[e].pending /\ k.ignore = eng[e].ignore
        /\ P = Engine => ~k.pending /\ k.ignore
    <3>1. eng[e] \in EngineRec
      BY <1>1
    <3>2. QED BY <3>1 DEF EngineRec
  <2>2. eng'[e] = [k EXCEPT !.pc = "input", !.running = goOn, !.wasRunning = goOn,
                            !.wave = IF goOn THEN @ ELSE @ + 1, !.step = IF goOn THEN @ ELSE 0]
    BY <1>1
  <2> HIDE DEF k
  <2>3. /\ k.wave + 1 \in Nat /\ 0 \in 0 .. Interval + 1 /\ k.wave \in Nat /\ k.step \in 0 .. Interval + 1
    BY <2>1, WavesAssumption, SMTT(60) DEF EngineRec
  <2>4. /\ eng'[e] \in EngineRec /\ eng'[e].waiting = k.waiting /\ eng'[e].active = k.active
        /\ eng'[e].step = (IF goOn THEN k.step ELSE 0)
        /\ eng'[e].pc = "input" /\ eng'[e].pause = k.pause
        /\ eng'[e].callback = k.callback /\ eng'[e].running = goOn
        /\ eng'[e].pending = k.pending /\ eng'[e].ignore = k.ignore
    BY <1>3, <2>1, <2>2, <2>3 DEF EngineRec, PC
  <2>5. QED BY <2>1, <2>4
<1>5. eng' \in [Engine -> EngineRec]
  BY <1>1, <1>4
<1>6. /\ Types' /\ CountInv' /\ \A e \in Engine : InOrder(input[e])'
      /\ \A e \in Engine : (Wants(e)' <=> Wants(e)) /\ (Back(e)' <=> Back(e))
  <2>1. ASSUME NEW e \in Engine
        PROVE  eng'[e].waiting + eng'[e].active <= eng[e].waiting + eng[e].active
    <3>1. eng[e] \in EngineRec
      BY <1>1
    <3>2. eng[e].waiting \in Nat /\ eng[e].active \in Nat
      BY <3>1, SMTT(60) DEF EngineRec
    <3>3. eng'[e].waiting = eng[e].waiting /\ eng'[e].active = eng[e].active
      BY <1>4
    <3>4. QED BY <3>2, <3>3, SMTT(60)
  <2>2. QED BY <1>1, <1>2, <1>5, <2>1, AllEngines
<1>7. StepInv'
  <2>1. \A e, f \in Engine : eng[e].step = eng[f].step
    BY DEF WavesInv, StepInv
  <2>2. \A e, f \in Engine : eng'[e].step = eng'[f].step /\ eng'[e].pc # "reduce"
    BY <1>4, <2>1
  <2>3. QED BY <2>2 DEF StepInv
<1>8. \A e \in Engine : Collective(eng'[e]) /\ ~Paused(eng[e]) /\ ~Resuming(eng[e])
  BY <1>1, <1>4 DEF Collective, Paused, Resuming
<1>9. AllRun \/ SomePause \/ AllDrain
  BY <1>8, SomeEngine DEF WavesInv, PauseInv, AllPaused, SomeResume
<1>10. CASE P # Engine /\ P # {}
  <2>1. goOn
    BY <1>3, <1>10
  <2>2. ASSUME NEW e \in Engine PROVE Keeps(eng[e], eng'[e])
    <3>1. Normal(eng[e]) => Normal(eng'[e])
      BY <1>4, <1>8, <1>10 DEF Normal
    <3>2. Pausing(eng[e]) => Pausing(eng'[e])
      BY <1>4, <1>8, <1>10, <2>1 DEF Pausing
    <3>3. Draining(eng[e]) => Draining(eng'[e])
      BY <1>4, <1>8, <1>10, <2>1 DEF Draining
    <3>4. QED BY <1>8, <3>1, <3>2, <3>3 DEF Keeps
  <2>3. PauseInv'
    BY <1>1, <1>6, <2>2, PauseFrame DEF WavesInv
  <2>4. QED BY <1>6, <1>7, <2>3 DEF WavesInv
<1>11. ASSUME NEW e \in Engine, Draining(eng[e]) \/ (P = Engine /\ Pausing(eng[e]))
       PROVE  IF goOn THEN Draining(eng'[e]) ELSE Paused(eng'[e]) /\ eng'[e].callback
  <2>1. /\ eng[e].pause # "none" /\ eng[e].callback /\ ~eng'[e].pending /\ eng'[e].ignore
    BY <1>4, <1>11 DEF Draining, Pausing
  <2>2. CASE goOn
    BY <1>4, <1>8, <2>1, <2>2 DEF Draining
  <2>3. CASE ~goOn
    <3>1. ~Unfinished(eng[e])
      BY <1>3, <2>3
    <3>2. eng[e].pause \in {"none", "new", "all"}
      <4>1. eng[e] \in EngineRec
        BY <1>1
      <4>2. QED BY <4>1, SMTT(60) DEF EngineRec
    <3>3. ~Unfinished(eng'[e])
      BY <1>4, <2>1, <3>1, <3>2, UnfinishedPaused
    <3>4. QED BY <1>4, <2>1, <2>3, <3>3 DEF Paused
  <2>4. QED BY <2>2, <2>3
<1>12. ASSUME client.pausing = "asked", client.acks = {},
              \A e \in Engine : ~Back(e) /\ ~Wants(e),
              \A e \in Engine : Draining(eng[e]) \/ (P = Engine /\ Pausing(eng[e]))
       PROVE  WavesInv'
  <2>1. CASE goOn
    <3>1. AllDrain'
      BY <1>1, <1>6, <1>11, <1>12, <2>1 DEF AllDrain
    <3>2. QED BY <1>6, <1>7, <3>1 DEF WavesInv, PauseInv
  <2>2. CASE ~goOn
    <3>1. AllPaused'
      BY <1>1, <1>6, <1>11, <1>12, <2>2 DEF AllPaused
    <3>2. QED BY <1>6, <1>7, <3>1 DEF WavesInv, PauseInv
  <2>3. QED BY <2>1, <2>2
<1>13. CASE P = Engine
  <2>1. \A e \in Engine : eng[e].pending
    BY <1>13
  <2>2. \A e \in Engine : ~Normal(eng[e]) /\ ~Draining(eng[e])
    BY <2>1 DEF Normal, Draining
  <2>3. SomePause
    BY <1>9, <2>2, SomeEngine DEF AllRun, AllDrain
  <2>4. QED BY <1>12, <1>13, <2>2, <2>3 DEF SomePause
<1>14. CASE P = {} /\ P # Engine
  <2>1. \A e \in Engine : ~Pausing(eng[e])
    BY <1>14 DEF Pausing
  <2>2. ASSUME NEW e \in Engine, Normal(eng[e]) PROVE Normal(eng'[e])
    BY <1>4, <1>8, <1>14, <2>2 DEF Normal
  <2>3. CASE AllDrain
    BY <1>12, <2>3 DEF AllDrain
  <2>4. CASE AllRun
    <3>1. AllRun'
      BY <1>1, <1>6, <2>2, <2>4 DEF AllRun
    <3>2. QED BY <1>6, <1>7, <3>1 DEF WavesInv, PauseInv
  <2>5. CASE SomePause
    <3>1. SomePause'
      BY <1>1, <1>6, <2>1, <2>2, <2>5 DEF SomePause
    <3>2. QED BY <1>6, <1>7, <3>1 DEF WavesInv, PauseInv
  <2>6. QED BY <1>9, <2>3, <2>4, <2>5
<1>15. QED BY <1>10, <1>13, <1>14

-----------------------------------------------------------------------------
(* The invariant holds initially.                                           *)
LEMMA WavesInit == Init => WavesInv
<1> SUFFICES ASSUME Init PROVE WavesInv
  OBVIOUS
<1>1. InitEngine \in EngineRec
  <2>1. 0 \in Nat /\ 0 \in 0 .. Interval + 1
    BY WavesAssumption, SMTT(60)
  <2>2. QED BY <2>1, SMTT(60) DEF InitEngine, EngineRec, PC
<1>2. /\ \A e \in Engine : eng[e] = InitEngine /\ input[e] = <<>>
      /\ client.pausing = "no" /\ sent = 0
  BY SMTT(60) DEF Init
<1>3. \A S : <<>> \in Seq(S)
  BY SMTT(60)
<1>4. MaxReq \in Nat
  <2>1. \A c \in [requests : Nat, pauses : Nat, mode : {"keep", "abort", "wait"}] : c.requests \in Nat
    BY SMTT(60)
  <2>2. QED BY <2>1, WavesAssumption DEF Init, MaxReq
<1>5. Types
  <2>1. sent \in Nat /\ sent <= MaxReq
    BY <1>2, <1>4, SMTT(60)
  <2>2. coord \in State /\ client \in ClientRec
    <3>1. 0 \in Nat /\ {} \in SUBSET Engine
      BY SMTT(60)
    <3>2. QED BY <1>3, <3>1, SMTT(60) DEF Init, State, ClientRec
  <2>3. /\ eng \in [Engine -> EngineRec] /\ input \in [Engine -> Seq(Message)]
        /\ start \in [Engine -> Seq(StartRec)] /\ output \in [Engine -> Seq(Note)]
        /\ published \in Seq(State) /\ notices \in Seq(Notice) /\ config \in Configs
    BY <1>1, <1>3 DEF Init
  <2>4. QED BY <2>1, <2>2, <2>3 DEF Types
<1>6. \A i \in 1 .. Len(<<>>) : FALSE
  BY SMTT(60)
<1>7. CountInv
  <2>1. Adds(<<>>) = {}
    BY <1>6 DEF Adds
  <2>2. Cardinality(Adds(<<>>)) = 0
    BY <2>1, FS_EmptySet
  <2>3. InitEngine.waiting = 0 /\ InitEngine.active = 0 /\ 0 + 0 + 0 <= 0
    BY SMTT(60) DEF InitEngine
  <2>4. QED BY <1>2, <2>2, <2>3 DEF CountInv
<1>8. StepInv
  <2>1. InitEngine.pc # "reduce"
    BY SMTT(60) DEF InitEngine
  <2>2. QED BY <1>2, <2>1 DEF StepInv
<1>9. PauseInv
  <2>1. \A t : ~Has(<<>>, t)
    BY <1>6 DEF Has
  <2>2. InOrder(<<>>)
    BY <1>6 DEF InOrder
  <2>3. Normal(InitEngine)
    BY SMTT(60) DEF InitEngine, Normal, Collective
  <2>4. AllRun
    BY <1>2, <2>1, <2>3 DEF AllRun, Wants, Back
  <2>5. QED BY <1>2, <2>2, <2>4 DEF PauseInv
<1>10. QED BY <1>5, <1>7, <1>8, <1>9 DEF WavesInv

(* Every step keeps the invariant.                                          *)
LEMMA WavesStep == WavesInv /\ [Next]_vars => WavesInv'
<1> SUFFICES ASSUME WavesInv, [Next]_vars PROVE WavesInv'
  OBVIOUS
<1>1. ASSUME NEW e \in Engine, AddRequest(e) \/ EngineStep(e) \/ HandleOutput(e) PROVE WavesInv'
  <2>1. CASE AddRequest(e)
    BY <2>1, AddRequestStep
  <2>2. CASE HandleInput(e)
    BY <2>2, HandleAddStep, HandlePauseStep, HandleResumeStep DEF HandleInput
  <2>3. CASE HandleStart(e)
    BY <2>3, HandleStartStep
  <2>4. CASE PauseDone(e)
    BY <2>4, PauseDoneStep
  <2>5. CASE EnterStep(e)
    BY <2>5, EnterStepStep
  <2>6. CASE HandleOutput(e)
    BY <2>6, QuietStep
  <2>7. QED BY <1>1, <2>1, <2>2, <2>3, <2>4, <2>5, <2>6 DEF EngineStep
<1>2. CASE ClientStep \/ HandleNotice \/ Publish
  BY <1>2, QuietStep DEF ClientStep
<1>3. CASE AskPause \/ AskResume
  BY <1>3, AskPauseStep, AskResumeStep
<1>4. CASE Forward \/ Reduce \/ ResumeBarrier
  BY <1>4, ForwardStep, ReduceStep, ResumeBarrierStep
<1>5. CASE UNCHANGED vars
  <2>1. UNCHANGED <<config, eng, input, start, output, coord, published, client, notices, sent>>
    BY <1>5 DEF vars
  <2>2. Types' /\ CountInv' /\ StepInv'
    BY <2>1 DEF WavesInv, Types, CountInv, StepInv, MaxReq
  <2>3. PauseInv'
    BY <2>1 DEF WavesInv, PauseInv, AllRun, SomePause, AllDrain, AllPaused, SomeResume, Wants, Back
  <2>4. QED BY <2>2, <2>3 DEF WavesInv
<1>6. QED BY <1>1, <1>2, <1>3, <1>4, <1>5 DEF Next

(* The invariant holds in every reachable state.                            *)
LEMMA WavesInvariant == Spec => []WavesInv
  BY WavesInit, WavesStep, PTL DEF Spec

(* However requests, wake-ups and pauses overtake one another, the ranks    *)
(* never wait in different collectives (a forward pass, the all-reduce of   *)
(* sync_dp_state, the barrier of resume_scheduler), nor in the same one     *)
(* after a different number of steps.                                       *)
THEOREM CollectivesAgree == Spec => []SameCollective
<1>1. WavesInv => SameCollective
  <2>1. SUFFICES ASSUME WavesInv PROVE SameCollective
    OBVIOUS
  <2>2. TypeOK
    <3>1. ASSUME NEW e \in Engine
          PROVE  /\ eng[e].pc \in {"input", "forward", "reduce", "resume"}
                 /\ eng[e].wave \in Nat /\ eng[e].step \in 0 .. Interval + 1
                 /\ eng[e].waiting \in 0 .. MaxReq /\ eng[e].active \in 0 .. MaxReq
                 /\ eng[e].pause \in {"none", "new", "all"}
      <4>1. eng[e] \in EngineRec /\ input[e] \in Seq(Message) /\ sent \in Nat /\ sent <= MaxReq
        BY <2>1 DEF WavesInv, Types
      <4>2. /\ eng[e].pc \in PC /\ eng[e].wave \in Nat /\ eng[e].step \in 0 .. Interval + 1
            /\ eng[e].waiting \in Nat /\ eng[e].active \in Nat /\ eng[e].pause \in {"none", "new", "all"}
        BY <4>1, SMTT(60) DEF EngineRec
      <4>3. Cardinality(Adds(input[e])) \in Nat
        BY <4>1, AddsFinite
      <4>4. eng[e].waiting + eng[e].active + Cardinality(Adds(input[e])) <= sent
        BY <2>1 DEF WavesInv, CountInv
      <4>5. config.requests \in Nat
        <5>1. \A c \in [requests : Nat, pauses : Nat, mode : {"keep", "abort", "wait"}] : c.requests \in Nat
          BY SMTT(60)
        <5>2. QED BY <2>1, <5>1, WavesAssumption DEF WavesInv, Types
      <4>6. eng[e].waiting \in 0 .. MaxReq /\ eng[e].active \in 0 .. MaxReq
        BY <4>1, <4>2, <4>3, <4>4, <4>5, SMTT(60) DEF MaxReq
      <4>7. QED BY <4>2, <4>6 DEF PC
    <3>2. /\ coord.wave \in Nat /\ coord.running \in BOOLEAN
          /\ client.wave \in Nat /\ client.pausing \in {"no", "asked"}
      <4>1. coord \in State /\ client \in ClientRec
        BY <2>1 DEF WavesInv, Types
      <4>2. QED BY <4>1, SMTT(60) DEF State, ClientRec
    <3>3. QED BY <3>1, <3>2 DEF TypeOK
  <2>3. ASSUME NEW e \in Engine, NEW f \in Engine, eng[e].pc # "input", eng[f].pc # "input"
        PROVE  eng[e].pc = eng[f].pc /\ eng[e].step = eng[f].step
    <3>1. /\ eng[e].step = eng[f].step /\ (eng[e].pc = "reduce" <=> eng[f].pc = "reduce")
      BY <2>1 DEF WavesInv, StepInv
    <3>2. CASE AllRun \/ SomePause \/ AllDrain
      <4>1. Collective(eng[e]) /\ Collective(eng[f])
        BY <3>2 DEF AllRun, SomePause, AllDrain, Normal, Pausing, Draining
      <4>2. QED BY <2>3, <3>1, <4>1 DEF Collective
    <3>3. CASE AllPaused
      BY <2>3, <3>3 DEF AllPaused, Paused
    <3>4. CASE SomeResume
      <4>1. eng[e].pc = "resume" /\ eng[f].pc = "resume"
        BY <2>3, <3>4 DEF SomeResume, Paused, Resuming
      <4>2. QED BY <3>1, <4>1
    <3>5. QED BY <2>1, <3>2, <3>3, <3>4 DEF WavesInv, PauseInv
  <2>4. QED BY <2>2, <2>3 DEF SameCollective
<1>2. QED BY <1>1, WavesInvariant, PTL

(* When every rank has answered pause_generation, all are idle and stay so: *)
(* neither a START_DP_WAVE still under way nor a request makes one run      *)
(* before the client resumes them.                                          *)
THEOREM PauseHolds == Spec => []PausedStays
<1>1. WavesInv => PausedStays
  <2>1. SUFFICES ASSUME WavesInv, client.pausing = "asked", client.acks = Engine
                 PROVE  \A e \in Engine : ~eng[e].running /\ eng[e].pc = "input"
    BY DEF PausedStays
  <2>2. AllPaused
    <3>1. "asked" # "no"
      OBVIOUS
    <3>2. QED BY <2>1, <3>1, SomeEngine DEF WavesInv, PauseInv, AllRun, SomePause, AllDrain, SomeResume
  <2>3. QED BY <2>2 DEF AllPaused, Paused
<1>2. QED BY <1>1, WavesInvariant, PTL

=============================================================================
