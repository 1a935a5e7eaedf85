-------------------------- MODULE OrderStreamProofs --------------------------
(***************************************************************************)
(* Proofs about OrderStream, for any payloads, consumers, retry budget,    *)
(* page size and numbers of entries and faults.                            *)
(***************************************************************************)
EXTENDS OrderStream, TLAPS

USE StreamAssumption DEF StreamAssumption

\* What types alone do not say: only delivered entries are pending, and only
\* delivered entries were archived, so a redrive finds a payload to append.
PositionsInv ==
    /\ \A i \in Ids : owner[i] # NoConsumer => i <= delivered
    /\ \A d \in 1..Len(dead) : dead[d].source <= delivered

TypeInv == StreamTypeOK /\ PositionsInv

\* What a stored dead letter looks like.
LEMMA DeadLetter ==
    ASSUME StreamTypeOK, NEW d \in 1..Len(dead)
    PROVE  dead[d] \in [source : Ids, redrive : 0..MaxEntries]
<1> DEFINE S == [source : Ids, redrive : 0..MaxEntries]
<1>1. dead \in Seq(S)
  BY DEF StreamTypeOK
<1>2. dead[d] \in S
  <2> HIDE DEF S
  <2> QED BY <1>1
<1> QED BY <1>2

LEMMA Positions ==
    StreamTypeOK => /\ delivered \in Nat /\ Len(stream) \in Nat
                    /\ delivered <= Len(stream) /\ Len(stream) <= MaxEntries
  BY DEF StreamTypeOK

LEMMA DisturbBounded == ASSUME StreamTypeOK, Disturb PROVE faults' \in 0..MaxFaults
  BY DEF Disturb, StreamTypeOK

\* Appending to the stream, by seckill.lua or by redrive-order.lua.
LEMMA AppendType ==
    ASSUME StreamTypeOK, NEW p \in Payloads, Len(stream) < MaxEntries,
           stream' = Append(stream, p)
    PROVE  /\ stream' \in Seq(Payloads)
           /\ Len(stream') = Len(stream) + 1 /\ Len(stream') <= MaxEntries
           /\ delivered \in 0..Len(stream')
  BY DEF StreamTypeOK

\* The dead-letter stream after an archive (order-stream-transition.lua).
LEMMA ArchiveType ==
    ASSUME TypeInv, NEW i \in Ids, owner[i] # NoConsumer, Archive(i)
    PROVE  /\ dead' \in Seq([source : Ids, redrive : 0..MaxEntries])
           /\ deadOf' \in [Ids -> Nat]
           /\ orderDead' \in [Payloads -> Nat]
           /\ \A d \in 1..Len(dead') : dead'[d].source <= delivered
<1> DEFINE entry == [source |-> i, redrive |-> 0]
<1>1. entry \in [source : Ids, redrive : 0..MaxEntries]
  OBVIOUS
<1>2. i <= delivered
  BY DEF TypeInv, PositionsInv
<1>3. /\ dead' \in Seq([source : Ids, redrive : 0..MaxEntries])
      /\ \A d \in 1..Len(dead') : dead'[d].source <= delivered
  <2>1. CASE deadOf[i] = 0
    BY <1>1, <1>2, <2>1 DEF TypeInv, StreamTypeOK, PositionsInv, Archive
  <2>2. CASE deadOf[i] # 0
    BY <2>2 DEF TypeInv, StreamTypeOK, PositionsInv, Archive
  <2> QED BY <2>1, <2>2
<1>4. deadOf' \in [Ids -> Nat]
  BY DEF TypeInv, StreamTypeOK, Archive
<1>5. orderDead' \in [Payloads -> Nat]
  BY <1>4 DEF TypeInv, StreamTypeOK, Archive
<1> QED BY <1>3, <1>4, <1>5

LEMMA RedriveType ==
    ASSUME TypeInv, NEW d \in Ids, Redrive(d)
    PROVE  TypeInv'
<1>0. /\ d \in 1..Len(dead)
      /\ dead[d] \in [source : Ids, redrive : 0..MaxEntries]
  BY DeadLetter DEF TypeInv, Redrive
<1>1. dead[d].source \in 1..Len(stream)
  <2>1. dead[d].source \in Ids /\ dead[d].source <= delivered
    BY <1>0 DEF TypeInv, PositionsInv
  <2> QED BY <2>1, Positions DEF TypeInv, Ids
<1>2. stream[dead[d].source] \in Payloads
  <2>1. stream \in Seq(Payloads)
    BY DEF TypeInv, StreamTypeOK
  <2> QED BY <1>1, <2>1
<1>3. /\ stream' \in Seq(Payloads)
      /\ Len(stream') = Len(stream) + 1 /\ Len(stream') <= MaxEntries
      /\ delivered \in 0..Len(stream')
  BY <1>2, AppendType DEF TypeInv, Redrive
<1> DEFINE entry == [dead[d] EXCEPT !.redrive = Len(stream) + 1]
<1>4. /\ entry \in [source : Ids, redrive : 0..MaxEntries]
      /\ entry.source = dead[d].source
  <2>1. Len(stream) + 1 \in 0..MaxEntries
    BY <1>3, Positions DEF TypeInv
  <2> QED BY <1>0, <2>1
<1>5. dead' = [dead EXCEPT ![d] = entry]
  BY DEF Redrive
<1>6. /\ dead' \in Seq([source : Ids, redrive : 0..MaxEntries])
      /\ \A e \in 1..Len(dead') : dead'[e].source = dead[e].source
      /\ Len(dead') = Len(dead)
  <2> HIDE DEF entry
  <2> QED BY <1>0, <1>4, <1>5 DEF TypeInv, StreamTypeOK
<1>7. StreamTypeOK'
  BY <1>3, <1>6 DEF TypeInv, StreamTypeOK, Redrive, workerVars
<1>8. PositionsInv'
  BY <1>6 DEF TypeInv, PositionsInv, Redrive
<1> QED BY <1>7, <1>8 DEF TypeInv

LEMMA DeliverType ==
    ASSUME TypeInv, NEW c \in Consumers, Deliver(c)
    PROVE  /\ delivered + 1 \in Ids
           /\ delivered' \in 0..Len(stream')
           /\ owner' \in [Ids -> Consumers \cup {NoConsumer}]
           /\ PositionsInv'
<1>1. delivered + 1 \in Ids /\ delivered' \in 0..Len(stream')
  BY DEF TypeInv, StreamTypeOK, Deliver, Ids
<1>2. owner' \in [Ids -> Consumers \cup {NoConsumer}]
  BY DEF TypeInv, StreamTypeOK, Deliver
<1>3. \A i \in Ids : owner'[i] # NoConsumer => i <= delivered'
  BY DEF TypeInv, StreamTypeOK, PositionsInv, Deliver, Ids
<1>4. \A d \in 1..Len(dead') : dead'[d].source <= delivered'
  <2> TAKE d \in 1..Len(dead')
  <2>1. dead' = dead /\ delivered' = delivered + 1
    BY DEF Deliver
  <2>2. dead[d].source \in Ids /\ dead[d].source <= delivered
    BY <2>1, DeadLetter DEF TypeInv, PositionsInv
  <2> QED BY <2>1, <2>2, Positions DEF TypeInv, Ids
<1> QED BY <1>1, <1>2, <1>3, <1>4 DEF PositionsInv
-----------------------------------------------------------------------------
LEMMA TypeInit == StreamInit => TypeInv
  BY DEF StreamInit, TypeInv, StreamTypeOK, PositionsInv, Ids

LEMMA TypeStep == TypeInv /\ [StreamNext]_streamVars => TypeInv'
<1> SUFFICES ASSUME TypeInv, [StreamNext]_streamVars
             PROVE  TypeInv'
  OBVIOUS
<1> USE DEF TypeInv
<1>1. CASE UNCHANGED streamVars
  BY <1>1 DEF streamVars, streamKeys, workerVars, StreamTypeOK, PositionsInv
<1>2. ASSUME NEW p \in Payloads, Produce(p) PROVE TypeInv'
  BY <1>2, AppendType DEF Produce, workerVars, StreamTypeOK, PositionsInv
<1>3. ASSUME NEW c \in Consumers, PollStep(c) PROVE TypeInv'
  <2>1. CASE Start(c)
    BY <2>1 DEF Start, streamKeys, StreamTypeOK, PositionsInv
  <2>2. CASE ReadPage(c)
    <3>1. after' \in [Consumers -> Nat]
      BY <2>2 DEF ReadPage, StreamTypeOK
    <3>2. page' \in [Consumers -> SUBSET Ids]
      BY <2>2 DEF ReadPage, PendingPage, Pending, StreamTypeOK
    <3> QED BY <2>2, <3>1, <3>2 DEF ReadPage, streamKeys, StreamTypeOK, PositionsInv
  <2>3. CASE EndPage(c)
    BY <2>3 DEF EndPage, streamKeys, StreamTypeOK, PositionsInv
  <2>4. CASE ReadNew(c)
    <3>1. Deliver(c)
      BY <2>4 DEF ReadNew
    <3>2. batch' \in [Consumers -> SUBSET Ids] /\ fresh' \subseteq Consumers
      BY <2>4, <3>1, DeliverType DEF ReadNew, StreamTypeOK
    <3> QED BY <2>4, <3>1, <3>2, DeliverType DEF ReadNew, Deliver, StreamTypeOK
  <2>5. CASE EndRound(c)
    BY <2>5 DEF EndRound, streamKeys, StreamTypeOK, PositionsInv
  <2>6. ASSUME NEW i \in Ids, Claim(c, i) PROVE TypeInv'
    <3>1. page' \in [Consumers -> SUBSET Ids] /\ UNCHANGED <<stream, delivered, dead>>
      BY <2>6 DEF Claim, StreamTypeOK
    <3>2. /\ owner' \in [Ids -> Consumers \cup {NoConsumer}]
          /\ idle' \subseteq Ids
      BY <2>6 DEF Claim, StreamTypeOK
    <3>4. batch' \in [Consumers -> SUBSET Ids]
      <4>1. batch' = batch \/ batch' = [batch EXCEPT ![c] = batch[c] \cup {i}]
        BY <2>6 DEF Claim
      <4>2. batch \in [Consumers -> SUBSET Ids] /\ batch[c] \cup {i} \in SUBSET Ids
        BY DEF StreamTypeOK
      <4> QED BY <4>1, <4>2
    <3>3. \A j \in Ids : owner'[j] # NoConsumer => owner[j] # NoConsumer
      BY <2>6 DEF Claim, Pending, StreamTypeOK
    <3> QED BY <2>6, <3>1, <3>2, <3>3, <3>4 DEF Claim, StreamTypeOK, PositionsInv
  <2> QED BY <1>3, <2>1, <2>2, <2>3, <2>4, <2>5, <2>6 DEF PollStep
<1>4. ASSUME NEW c \in Consumers, NEW i \in Ids, BeginStale(c, i) PROVE TypeInv'
  BY <1>4 DEF BeginStale, Finish, streamKeys, StreamTypeOK, PositionsInv
<1>5. ASSUME NEW c \in Consumers, NEW i \in Ids, BeginExhausted(c, i) PROVE TypeInv'
  BY <1>5 DEF BeginExhausted, streamKeys, StreamTypeOK, PositionsInv
<1>6. ASSUME NEW c \in Consumers, NEW i \in Ids, Begin(c, i) PROVE TypeInv'
  BY <1>6 DEF Begin, ReserveAttempt, StreamTypeOK, PositionsInv
<1>7. ASSUME NEW c \in Consumers, NEW i \in Ids, Success(c, i) PROVE TypeInv'
  <2>1. /\ owner' \in [Ids -> Consumers \cup {NoConsumer}]
        /\ \A j \in Ids : owner'[j] # NoConsumer => owner[j] # NoConsumer
    <3>1. owner' = owner \/ owner' = [owner EXCEPT ![i] = NoConsumer]
      BY <1>7 DEF Success
    <3> QED BY <3>1 DEF StreamTypeOK
  <2>3. idle' \subseteq Ids /\ attempts' \in [Ids -> 0..MaxAttempts]
    <3>1. attempts' = attempts \/ attempts' = [attempts EXCEPT ![i] = 0]
      BY <1>7 DEF Success
    <3>2. idle' = idle \/ idle' = idle \ {i}
      BY <1>7 DEF Success
    <3> QED BY <3>1, <3>2 DEF StreamTypeOK
  <2>2. /\ pc' \in [Consumers -> {"new", "poll", "claim", "process", "handling",
                                  "handled", "failed", "down"}]
        /\ batch' \in [Consumers -> SUBSET Ids]
    BY <1>7 DEF Success, Finish, StreamTypeOK
  <2> QED BY <1>7, <2>1, <2>2, <2>3 DEF Success, Finish, StreamTypeOK, PositionsInv
<1>8. ASSUME NEW c \in Consumers, NEW i \in Ids, Failure(c, i) PROVE TypeInv'
  <2>1. CASE owner[i] = c /\ attempts[i] >= MaxAttempts /\ Archive(i)
    <3>1. /\ dead' \in Seq([source : Ids, redrive : 0..MaxEntries])
          /\ deadOf' \in [Ids -> Nat]
          /\ orderDead' \in [Payloads -> Nat]
          /\ \A d \in 1..Len(dead') : dead'[d].source <= delivered
      BY <2>1, ArchiveType
    <3>2. /\ owner' \in [Ids -> Consumers \cup {NoConsumer}]
          /\ idle' \subseteq Ids
          /\ attempts' \in [Ids -> 0..MaxAttempts]
          /\ \A j \in Ids : owner'[j] # NoConsumer => j <= delivered
      BY <2>1 DEF Archive, StreamTypeOK, PositionsInv
    <3> QED BY <1>8, <3>1, <3>2 DEF Failure, Finish, StreamTypeOK, PositionsInv
  <2>2. CASE UNCHANGED <<dead, deadOf, orderDead, owner, idle, attempts>>
    BY <1>8, <2>2 DEF Failure, Finish, StreamTypeOK, PositionsInv
  <2> QED BY <1>8, <2>1, <2>2 DEF Failure
<1>9. ASSUME NEW c \in Consumers, HandlerStep(c) PROVE TypeInv'
  <2>1. CASE HandlerThrows(c)
    BY <2>1 DEF HandlerThrows, streamKeys, StreamTypeOK, PositionsInv
  <2>2. ASSUME NEW i \in Ids, HandlerCommits(c, i) PROVE TypeInv'
    BY <2>2 DEF HandlerCommits, streamKeys, workerVars, StreamTypeOK, PositionsInv
  <2>3. ASSUME NEW i \in Ids, HandlerReturns(c, i) PROVE TypeInv'
    BY <2>3 DEF HandlerReturns, streamKeys, StreamTypeOK, PositionsInv
  <2> QED BY <1>9, <2>1, <2>2, <2>3 DEF HandlerStep
<1>10. ASSUME NEW c \in Consumers, WorkerFault(c) PROVE TypeInv'
  <2>1. CASE Crash(c)
    BY <2>1, DisturbBounded DEF Crash, streamKeys, StreamTypeOK, PositionsInv
  <2>2. CASE PollFails(c)
    BY <2>2, DisturbBounded DEF PollFails, streamKeys, StreamTypeOK, PositionsInv
  <2>3. CASE ReadNewLost(c)
    BY <2>3, DisturbBounded, DeliverType DEF ReadNewLost, Deliver, StreamTypeOK
  <2>4. ASSUME NEW i \in Ids, BeginLost(c, i) PROVE TypeInv'
    <3>1. attempts' \in [Ids -> 0..MaxAttempts]
      BY <2>4 DEF BeginLost, ReserveAttempt, StreamTypeOK
    <3>2. /\ pc' \in [Consumers -> {"new", "poll", "claim", "process", "handling",
                                    "handled", "failed", "down"}]
          /\ batch' \in [Consumers -> SUBSET Ids]
      BY <2>4 DEF BeginLost, Finish, StreamTypeOK
    <3> QED BY <2>4, <3>1, <3>2, DisturbBounded
            DEF BeginLost, ReserveAttempt, Finish, StreamTypeOK, PositionsInv
  <2>5. ASSUME NEW i \in Ids, TransitionLost(c, i) PROVE TypeInv'
    BY <2>5, DisturbBounded DEF TransitionLost, Finish, streamKeys, StreamTypeOK, PositionsInv
  <2> QED BY <1>10, <2>1, <2>2, <2>3, <2>4, <2>5 DEF WorkerFault
<1>11. ASSUME NEW d \in Ids, Redrive(d) PROVE TypeInv'
  BY <1>11, RedriveType
<1>12. ASSUME NEW i \in Ids, Elapse(i) PROVE TypeInv'
  BY <1>12 DEF Elapse, Pending, workerVars, StreamTypeOK, PositionsInv
<1>13. ASSUME NEW i \in Ids, Overrun(i) PROVE TypeInv'
  BY <1>13, DisturbBounded DEF Overrun, Pending, workerVars, StreamTypeOK, PositionsInv
<1> QED
  <2> HIDE DEF TypeInv
  <2> QED
    BY <1>1, <1>2, <1>3, <1>4, <1>5, <1>6, <1>7, <1>8, <1>9, <1>10, <1>11, <1>12, <1>13
       DEF StreamNext, WorkerStep, TransitionStep

\* Every variable of the queue and its consumers keeps its type, and no redrive
\* or delivery goes beyond the entries there are.
THEOREM StreamTypeCorrect == StreamSpec => []StreamTypeOK
<1>1. StreamSpec => []TypeInv
  BY TypeInit, TypeStep, PTL DEF StreamSpec
<1>2. TypeInv => StreamTypeOK
  BY DEF TypeInv
<1> QED BY <1>1, <1>2, PTL
-----------------------------------------------------------------------------
(* No event is lost.  NoEventLost is not inductive by itself: it needs     *)
(* that an indexed dead letter is really there, and that a thread about to *)
(* acknowledge an entry saw its handler take effect.                       *)

IndexInv ==
    \A i \in Ids : deadOf[i] # 0 =>
        deadOf[i] \in 1..Len(dead) /\ dead[deadOf[i]].source = i

AcknowledgeInv ==
    \A c \in Consumers, i \in Ids :
        pc[c] = "handled" /\ IsFirst(i, batch[c]) => i \in handled

EvidenceInv ==
    \A i \in 1..delivered : owner[i] = NoConsumer => i \in handled \/ deadOf[i] # 0

LossInv == IndexInv /\ AcknowledgeInv /\ EvidenceInv

LEMMA LossInit == StreamInit => LossInv
  BY DEF StreamInit, LossInv, IndexInv, AcknowledgeInv, EvidenceInv

\* Only archiving and redriving touch the dead-letter stream and its index.
LEMMA ArchiveKeepsIndex ==
    ASSUME TypeInv, IndexInv, NEW i \in Ids, owner[i] # NoConsumer, Archive(i)
    PROVE  IndexInv' /\ deadOf'[i] # 0 /\ \A j \in Ids : deadOf[j] # 0 => deadOf'[j] # 0
<1>0. Len(dead) \in Nat /\ deadOf \in [Ids -> Nat]
  BY DEF TypeInv, StreamTypeOK
<1>1. CASE deadOf[i] = 0
  <2> DEFINE S == [source : Ids, redrive : 0..MaxEntries]
             entry == [source |-> i, redrive |-> 0]
  <2>1. dead' = Append(dead, entry) /\ deadOf' = [deadOf EXCEPT ![i] = Len(dead) + 1]
    BY <1>1 DEF Archive
  <2>2. entry \in S /\ dead \in Seq(S) /\ entry.source = i
    BY DEF TypeInv, StreamTypeOK
  <2>3. /\ Len(dead') = Len(dead) + 1
        /\ \A d \in 1..Len(dead) : dead'[d] = dead[d]
        /\ dead'[Len(dead) + 1] = entry
    <3> HIDE DEF S, entry
    <3> QED BY <2>1, <2>2
  <2>4. ASSUME NEW j \in Ids, deadOf'[j] # 0
        PROVE  deadOf'[j] \in 1..Len(dead') /\ dead'[deadOf'[j]].source = j
    <3>1. CASE j = i
      BY <1>0, <2>1, <2>2, <2>3, <3>1
    <3>2. CASE j # i
      <4>1. deadOf'[j] = deadOf[j]
        BY <1>0, <2>1, <3>2
      <4>2. deadOf[j] \in 1..Len(dead) /\ dead[deadOf[j]].source = j
        BY <2>4, <4>1 DEF IndexInv
      <4> QED BY <1>0, <2>3, <4>1, <4>2
    <3> QED BY <3>1, <3>2
  <2> QED BY <1>0, <2>1, <2>4 DEF IndexInv
<1>2. CASE deadOf[i] # 0
  BY <1>2 DEF Archive, IndexInv
<1> QED BY <1>1, <1>2

LEMMA RedriveKeepsIndex ==
    ASSUME TypeInv, IndexInv, NEW d \in Ids, Redrive(d)
    PROVE  IndexInv'
<1>1. d \in 1..Len(dead) /\ deadOf' = deadOf
  BY DEF Redrive
<1>2. dead[d] \in [source : Ids, redrive : 0..MaxEntries]
  BY <1>1, DeadLetter DEF TypeInv
<1> DEFINE entry == [dead[d] EXCEPT !.redrive = Len(stream) + 1]
           S == [source : Ids, redrive : 0..MaxEntries]
<1>3. entry.source = dead[d].source /\ dead' = [dead EXCEPT ![d] = entry] /\ dead \in Seq(S)
  BY <1>2 DEF Redrive, TypeInv, StreamTypeOK
<1>4. Len(dead') = Len(dead) /\ \A e \in 1..Len(dead) : dead'[e].source = dead[e].source
  <2> HIDE DEF entry, S
  <2> QED BY <1>1, <1>3
<1> QED BY <1>1, <1>4 DEF IndexInv
-----------------------------------------------------------------------------
LEMMA LossStep == TypeInv /\ LossInv /\ [StreamNext]_streamVars => LossInv'
<1> SUFFICES ASSUME TypeInv, LossInv, [StreamNext]_streamVars
             PROVE  LossInv'
  OBVIOUS
<1> USE DEF LossInv
<1>0. /\ delivered \in Nat
      /\ owner \in [Ids -> Consumers \cup {NoConsumer}]
      /\ pc \in [Consumers -> {"new", "poll", "claim", "process", "handling",
                               "handled", "failed", "down"}]
      /\ batch \in [Consumers -> SUBSET Ids]
      /\ 1..delivered \subseteq Ids
  <2>1. delivered \in Nat /\ 1..delivered \subseteq Ids
    BY Positions DEF TypeInv, Ids
  <2> QED BY <2>1 DEF TypeInv, StreamTypeOK
<1>1. CASE UNCHANGED streamVars
  BY <1>1 DEF streamVars, streamKeys, workerVars, IndexInv, AcknowledgeInv, EvidenceInv, IsFirst
<1>2. ASSUME NEW p \in Payloads, Produce(p) PROVE LossInv'
  BY <1>2 DEF Produce, workerVars, IndexInv, AcknowledgeInv, EvidenceInv, IsFirst
<1>3. ASSUME NEW c \in Consumers, PollStep(c) PROVE LossInv'
  <2>1. CASE Start(c) \/ ReadPage(c) \/ EndPage(c) \/ EndRound(c)
    <3>1. UNCHANGED <<streamKeys, batch, handled>>
      BY <2>1 DEF Start, ReadPage, EndPage, EndRound
    <3>2. \A k \in Consumers : pc'[k] = "handled" => pc[k] = "handled"
      BY <1>0, <2>1 DEF Start, ReadPage, EndPage, EndRound
    <3> QED BY <3>1, <3>2 DEF streamKeys, IndexInv, AcknowledgeInv, EvidenceInv, IsFirst
  <2>2. CASE ReadNew(c)
    <3>1. IndexInv'
      BY <2>2 DEF ReadNew, Deliver, IndexInv
    <3>2. AcknowledgeInv'
      BY <1>0, <2>2 DEF ReadNew, Deliver, AcknowledgeInv, IsFirst
    <3>3. EvidenceInv'
      <4>1. Deliver(c)
        BY <2>2 DEF ReadNew
      <4>2. delivered' = delivered + 1 /\ owner'[delivered + 1] = c
        BY <1>0, <4>1, DeliverType DEF Deliver
      <4> QED BY <1>0, <4>1, <4>2, DeliverType DEF Deliver, EvidenceInv
    <3> QED BY <3>1, <3>2, <3>3
  <2>3. ASSUME NEW i \in Ids, Claim(c, i) PROVE LossInv'
    <3>1. IndexInv'
      BY <2>3 DEF Claim, IndexInv
    <3>2. AcknowledgeInv'
      BY <1>0, <2>3 DEF Claim, AcknowledgeInv, IsFirst
    <3>3. \A j \in Ids : owner'[j] = NoConsumer => owner[j] = NoConsumer
      BY <1>0, <2>3 DEF Claim
    <3>4. EvidenceInv'
      BY <1>0, <2>3, <3>3 DEF Claim, EvidenceInv
    <3> QED BY <3>1, <3>2, <3>4
  <2> QED BY <1>3, <2>1, <2>2, <2>3 DEF PollStep
<1>4. ASSUME NEW c \in Consumers, NEW i \in Ids, BeginStale(c, i) PROVE LossInv'
  BY <1>0, <1>4 DEF BeginStale, Finish, streamKeys, IndexInv, AcknowledgeInv, EvidenceInv, IsFirst
<1>5. ASSUME NEW c \in Consumers, NEW i \in Ids, BeginExhausted(c, i) PROVE LossInv'
  BY <1>0, <1>5 DEF BeginExhausted, streamKeys, IndexInv, AcknowledgeInv, EvidenceInv, IsFirst
<1>6. ASSUME NEW c \in Consumers, NEW i \in Ids, Begin(c, i) PROVE LossInv'
  BY <1>0, <1>6 DEF Begin, ReserveAttempt, IndexInv, AcknowledgeInv, EvidenceInv, IsFirst
<1>7. ASSUME NEW c \in Consumers, NEW i \in Ids, Success(c, i) PROVE LossInv'
  <2>1. i \in handled
    BY <1>7 DEF Success, AcknowledgeInv
  <2>2. \A j \in Ids : owner'[j] = NoConsumer => j = i \/ owner[j] = NoConsumer
    BY <1>0, <1>7 DEF Success
  <2>3. IndexInv'
    BY <1>7 DEF Success, IndexInv
  <2>4. AcknowledgeInv'
    BY <1>0, <1>7 DEF Success, Finish, AcknowledgeInv, IsFirst
  <2>5. EvidenceInv'
    BY <1>0, <1>7, <2>1, <2>2 DEF Success, EvidenceInv
  <2> QED BY <2>3, <2>4, <2>5
<1>8. ASSUME NEW c \in Consumers, NEW i \in Ids, Failure(c, i) PROVE LossInv'
  <2>1. AcknowledgeInv'
    BY <1>0, <1>8 DEF Failure, Finish, AcknowledgeInv, IsFirst
  <2>2. CASE owner[i] = c /\ Archive(i)
    <3>1. IndexInv' /\ deadOf'[i] # 0 /\ \A j \in Ids : deadOf[j] # 0 => deadOf'[j] # 0
      BY <2>2, ArchiveKeepsIndex
    <3>2. \A j \in Ids : owner'[j] = NoConsumer => j = i \/ owner[j] = NoConsumer
      BY <1>0, <2>2 DEF Archive
    <3>3. EvidenceInv'
      BY <1>0, <1>8, <3>1, <3>2 DEF Failure, EvidenceInv
    <3> QED BY <2>1, <3>1, <3>3
  <2>3. CASE UNCHANGED <<dead, deadOf, orderDead, owner, idle, attempts>>
    BY <1>8, <2>1, <2>3 DEF Failure, IndexInv, EvidenceInv
  <2> QED BY <1>8, <2>2, <2>3 DEF Failure
<1>9. ASSUME NEW c \in Consumers, HandlerStep(c) PROVE LossInv'
  <2>1. CASE HandlerThrows(c)
    BY <1>0, <2>1 DEF HandlerThrows, streamKeys, IndexInv, AcknowledgeInv, EvidenceInv, IsFirst
  <2>2. ASSUME NEW i \in Ids, HandlerCommits(c, i) PROVE LossInv'
    BY <2>2 DEF HandlerCommits, streamKeys, workerVars, IndexInv, AcknowledgeInv, EvidenceInv,
                IsFirst
  <2>3. ASSUME NEW i \in Ids, HandlerReturns(c, i) PROVE LossInv'
    <3>1. IndexInv' /\ EvidenceInv'
      BY <2>3 DEF HandlerReturns, streamKeys, IndexInv, EvidenceInv
    <3>2. \A j \in Ids : IsFirst(j, batch[c]) => j = i
      BY <2>3 DEF HandlerReturns, IsFirst, Ids
    <3>3. AcknowledgeInv'
      BY <1>0, <2>3, <3>2 DEF HandlerReturns, AcknowledgeInv, IsFirst
    <3> QED BY <3>1, <3>3
  <2> QED BY <1>9, <2>1, <2>2, <2>3 DEF HandlerStep
<1>10. ASSUME NEW c \in Consumers, WorkerFault(c) PROVE LossInv'
  <2>1. CASE Crash(c) \/ PollFails(c)
    BY <1>0, <2>1 DEF Crash, PollFails, streamKeys, IndexInv, AcknowledgeInv, EvidenceInv, IsFirst
  <2>2. CASE ReadNewLost(c)
    <3>1. IndexInv'
      BY <2>2 DEF ReadNewLost, Deliver, IndexInv
    <3>2. AcknowledgeInv'
      BY <1>0, <2>2 DEF ReadNewLost, Deliver, AcknowledgeInv, IsFirst
    <3>3. EvidenceInv'
      <4>1. Deliver(c)
        BY <2>2 DEF ReadNewLost
      <4>2. delivered' = delivered + 1 /\ owner'[delivered + 1] = c
        BY <1>0, <4>1, DeliverType DEF Deliver
      <4> QED BY <1>0, <4>1, <4>2, DeliverType DEF Deliver, EvidenceInv
    <3> QED BY <3>1, <3>2, <3>3
  <2>3. ASSUME NEW i \in Ids, BeginLost(c, i) PROVE LossInv'
    BY <1>0, <2>3 DEF BeginLost, ReserveAttempt, Finish, IndexInv, AcknowledgeInv, EvidenceInv, IsFirst
  <2>4. ASSUME NEW i \in Ids, TransitionLost(c, i) PROVE LossInv'
    BY <1>0, <2>4 DEF TransitionLost, Finish, streamKeys, IndexInv, AcknowledgeInv, EvidenceInv, IsFirst
  <2> QED BY <1>10, <2>1, <2>2, <2>3, <2>4 DEF WorkerFault
<1>11. ASSUME NEW d \in Ids, Redrive(d) PROVE LossInv'
  <2>1. AcknowledgeInv' /\ EvidenceInv'
    BY <1>11 DEF Redrive, workerVars, AcknowledgeInv, EvidenceInv, IsFirst
  <2> QED BY <1>11, <2>1, RedriveKeepsIndex
<1>12. ASSUME NEW i \in Ids, Elapse(i) \/ Overrun(i) PROVE LossInv'
  BY <1>12 DEF Elapse, Overrun, workerVars, IndexInv, AcknowledgeInv, EvidenceInv, IsFirst
<1> QED
  <2> HIDE DEF LossInv
  <2> QED
    BY <1>1, <1>2, <1>3, <1>4, <1>5, <1>6, <1>7, <1>8, <1>9, <1>10, <1>11, <1>12
       DEF StreamNext, WorkerStep, TransitionStep

\* An accepted order event leaves the pending entries only handled or archived:
\* no crash, stale worker or lost reply makes order-stream-transition.lua drop it.
THEOREM NoEventIsLost == StreamSpec => []NoEventLost
<1>1. StreamSpec => [](TypeInv /\ LossInv)
  <2>1. StreamInit => TypeInv /\ LossInv
    BY TypeInit, LossInit
  <2>2. (TypeInv /\ LossInv) /\ [StreamNext]_streamVars => (TypeInv /\ LossInv)'
    BY TypeStep, LossStep
  <2> QED BY <2>1, <2>2, PTL DEF StreamSpec
<1>2. TypeInv /\ LossInv => NoEventLost
  BY Positions DEF TypeInv, LossInv, IndexInv, EvidenceInv, NoEventLost, Ids
<1> QED BY <1>1, <1>2, PTL
-----------------------------------------------------------------------------
(* The retry budget.  A settled entry is behind the last delivered one and *)
(* has no owner, so neither a delivery nor a claim can bring it back.      *)

\* Steps that leave the pending entries, the attempts and "handling" alone.
LEMMA QuietStep ==
    ASSUME UNCHANGED <<delivered, owner, attempts>>, StreamTypeOK,
           \A k \in Consumers : pc'[k] = "handling" => pc[k] = "handling"
    PROVE  KeepsBudget
  BY DEF KeepsBudget, Settled, StreamTypeOK

\* Acknowledging one delivered entry drops its attempts and settles it.
LEMMA SettlingStep ==
    ASSUME TypeInv, NEW i \in Ids, owner[i] # NoConsumer, delivered' = delivered,
           owner' = [owner EXCEPT ![i] = NoConsumer],
           attempts' = [attempts EXCEPT ![i] = 0],
           \A k \in Consumers : pc'[k] = "handling" => pc[k] = "handling"
    PROVE  KeepsBudget
<1>1. owner \in [Ids -> Consumers \cup {NoConsumer}] /\ attempts \in [Ids -> 0..MaxAttempts]
  BY DEF TypeInv, StreamTypeOK
<1>2. i <= delivered
  BY DEF TypeInv, PositionsInv
<1> QED BY <1>1, <1>2 DEF KeepsBudget, Settled

LEMMA DeliveringStep ==
    ASSUME TypeInv, NEW c \in Consumers, Deliver(c),
           \A k \in Consumers : pc'[k] = "handling" => pc[k] = "handling"
    PROVE  KeepsBudget
<1>1. /\ owner \in [Ids -> Consumers \cup {NoConsumer}]
      /\ attempts \in [Ids -> 0..MaxAttempts]
      /\ delivered \in Nat
  BY Positions DEF TypeInv, StreamTypeOK
<1>2. /\ delivered' = delivered + 1 /\ attempts' = attempts
      /\ owner' = [owner EXCEPT ![delivered + 1] = c]
  BY DEF Deliver
<1> QED BY <1>1, <1>2 DEF KeepsBudget, Settled, Ids

\* BEGIN raises the count of the entry it owns.
LEMMA ReservingStep ==
    ASSUME TypeInv, NEW c \in Consumers, NEW i \in Ids, ReserveAttempt(c, i)
    PROVE  /\ \A j \in Ids : Settled(j) => Settled(j)'
           /\ \A j \in Ids : attempts'[j] >= attempts[j]
           /\ ~Settled(i) /\ attempts'[i] = attempts[i] + 1
<1>1. attempts \in [Ids -> 0..MaxAttempts] /\ owner[i] # NoConsumer
  BY DEF TypeInv, StreamTypeOK, ReserveAttempt
<1>2. UNCHANGED <<delivered, owner>> /\ attempts' = [attempts EXCEPT ![i] = attempts[i] + 1]
  BY DEF ReserveAttempt
<1> QED BY <1>1, <1>2 DEF Settled

LEMMA BudgetStep == TypeInv /\ [StreamNext]_streamVars => [KeepsBudget]_streamVars
<1> SUFFICES ASSUME TypeInv, StreamNext
             PROVE  KeepsBudget
  OBVIOUS
<1>0. /\ StreamTypeOK
      /\ owner \in [Ids -> Consumers \cup {NoConsumer}]
      /\ pc \in [Consumers -> {"new", "poll", "claim", "process", "handling",
                               "handled", "failed", "down"}]
  BY DEF TypeInv, StreamTypeOK
<1>1. ASSUME NEW p \in Payloads, Produce(p) PROVE KeepsBudget
  BY <1>0, <1>1, QuietStep DEF Produce, workerVars
<1>2. ASSUME NEW c \in Consumers, PollStep(c) PROVE KeepsBudget
  <2>1. CASE Start(c) \/ ReadPage(c) \/ EndPage(c) \/ EndRound(c)
    <3>1. \A k \in Consumers : pc'[k] = "handling" => pc[k] = "handling"
      BY <1>0, <2>1 DEF Start, ReadPage, EndPage, EndRound
    <3> QED BY <1>0, <2>1, <3>1, QuietStep DEF Start, ReadPage, EndPage, EndRound, streamKeys
  <2>2. CASE ReadNew(c)
    BY <1>0, <2>2, DeliveringStep DEF ReadNew
  <2>3. ASSUME NEW i \in Ids, Claim(c, i) PROVE KeepsBudget
    <3>1. UNCHANGED <<delivered, attempts, pc>> /\ attempts \in [Ids -> 0..MaxAttempts]
      BY <1>0, <2>3 DEF Claim, StreamTypeOK
    <3>2. \A j \in Ids : owner[j] = NoConsumer => owner'[j] = NoConsumer
      BY <1>0, <2>3 DEF Claim, Pending
    <3> QED BY <3>1, <3>2 DEF KeepsBudget, Settled
  <2> QED BY <1>2, <2>1, <2>2, <2>3 DEF PollStep
<1>3. ASSUME NEW c \in Consumers, NEW i \in Ids, BeginStale(c, i) \/ BeginExhausted(c, i)
      PROVE  KeepsBudget
  <2>1. \A k \in Consumers : pc'[k] = "handling" => pc[k] = "handling"
    BY <1>0, <1>3 DEF BeginStale, BeginExhausted, Finish
  <2> QED BY <1>0, <1>3, <2>1, QuietStep DEF BeginStale, BeginExhausted, streamKeys
<1>4. ASSUME NEW c \in Consumers, NEW i \in Ids, Begin(c, i) PROVE KeepsBudget
  <2>1. ReserveAttempt(c, i) /\ IsFirst(i, batch[c])
    BY <1>4 DEF Begin, ReserveAttempt, Working
  <2>2. \A k \in Consumers : pc'[k] = "handling" => pc[k] = "handling" \/ k = c
    BY <1>0, <1>4 DEF Begin
  <2> QED BY <2>1, <2>2, ReservingStep DEF KeepsBudget
<1>5. ASSUME NEW c \in Consumers, NEW i \in Ids, Success(c, i) PROVE KeepsBudget
  <2>1. \A k \in Consumers : pc'[k] = "handling" => pc[k] = "handling"
    BY <1>0, <1>5 DEF Success, Finish
  <2>2. CASE owner[i] = c
    <3>1. /\ owner' = [owner EXCEPT ![i] = NoConsumer]
          /\ attempts' = [attempts EXCEPT ![i] = 0]
          /\ delivered' = delivered
      BY <1>5, <2>2 DEF Success
    <3> QED BY <2>1, <2>2, <3>1, SettlingStep
  <2>3. CASE owner[i] # c
    BY <1>0, <1>5, <2>1, <2>3, QuietStep DEF Success
  <2> QED BY <2>2, <2>3
<1>6. ASSUME NEW c \in Consumers, NEW i \in Ids, Failure(c, i) PROVE KeepsBudget
  <2>1. \A k \in Consumers : pc'[k] = "handling" => pc[k] = "handling"
    BY <1>0, <1>6 DEF Failure, Finish
  <2>2. CASE owner[i] = c /\ Archive(i)
    <3>1. /\ owner' = [owner EXCEPT ![i] = NoConsumer]
          /\ attempts' = [attempts EXCEPT ![i] = 0]
          /\ delivered' = delivered
      BY <1>6, <2>2 DEF Failure, Archive
    <3> QED BY <2>1, <2>2, <3>1, SettlingStep
  <2>3. CASE UNCHANGED <<owner, attempts>>
    BY <1>0, <1>6, <2>1, <2>3, QuietStep DEF Failure
  <2> QED BY <1>6, <2>2, <2>3 DEF Failure
<1>7. ASSUME NEW c \in Consumers, HandlerStep(c) PROVE KeepsBudget
  <2>1. CASE HandlerThrows(c)
    BY <1>0, <2>1, QuietStep DEF HandlerThrows, streamKeys
  <2>2. ASSUME NEW i \in Ids, HandlerCommits(c, i) \/ HandlerReturns(c, i) PROVE KeepsBudget
    BY <1>0, <2>2, QuietStep DEF HandlerCommits, HandlerReturns, streamKeys, workerVars
  <2> QED BY <1>7, <2>1, <2>2 DEF HandlerStep
<1>8. ASSUME NEW c \in Consumers, WorkerFault(c) PROVE KeepsBudget
  <2>1. CASE Crash(c) \/ PollFails(c)
    BY <1>0, <2>1, QuietStep DEF Crash, PollFails, streamKeys
  <2>2. CASE ReadNewLost(c)
    BY <1>0, <2>2, DeliveringStep DEF ReadNewLost
  <2>3. ASSUME NEW i \in Ids, BeginLost(c, i) PROVE KeepsBudget
    <3>1. \A k \in Consumers : pc'[k] = "handling" => pc[k] = "handling"
      BY <1>0, <2>3 DEF BeginLost, Finish
    <3> QED BY <2>3, <3>1, ReservingStep DEF BeginLost, KeepsBudget
  <2>4. ASSUME NEW i \in Ids, TransitionLost(c, i) PROVE KeepsBudget
    BY <1>0, <2>4, QuietStep DEF TransitionLost, Finish, streamKeys
  <2> QED BY <1>8, <2>1, <2>2, <2>3, <2>4 DEF WorkerFault
<1>9. ASSUME NEW i \in Ids, Redrive(i) \/ Elapse(i) \/ Overrun(i) PROVE KeepsBudget
  BY <1>0, <1>9, QuietStep DEF Redrive, Elapse, Overrun, workerVars
<1> QED
  BY <1>1, <1>2, <1>3, <1>4, <1>5, <1>6, <1>7, <1>8, <1>9
     DEF StreamNext, WorkerStep, TransitionStep

\* A handler runs only by spending one attempt of an unsettled entry, and what
\* was spent is not given back before the entry is acknowledged or archived.
THEOREM BudgetHolds == StreamSpec => BudgetCountsEveryRun
<1>1. StreamSpec => []TypeInv
  BY TypeInit, TypeStep, PTL DEF StreamSpec
<1> QED BY <1>1, BudgetStep, PTL DEF StreamSpec, BudgetCountsEveryRun
-----------------------------------------------------------------------------
(* The copies of one order.  An order comes back only by a redrive of its  *)
(* last dead letter, so its copies form a chain: each but the last was     *)
(* archived and redriven, and the order index leads to the last letter.    *)

Copies(i) == {j \in 1..Len(stream) : stream[j] = stream[i]}
IsLatest(i) == \A j \in Copies(i) : j <= i

LettersInv ==
    \A d \in 1..Len(dead) : deadOf[dead[d].source] = d /\ Settled(dead[d].source)

ChainInv ==
    \A i, j \in 1..Len(stream) : i < j /\ stream[i] = stream[j] =>
        Settled(i) /\ deadOf[i] # 0 /\ dead[deadOf[i]].redrive # 0

RedrivenInv ==
    \A d \in 1..Len(dead) : dead[d].redrive # 0 =>
        /\ dead[d].redrive \in Copies(dead[d].source)
        /\ dead[d].source < dead[d].redrive

ReviewInv ==
    \A i \in 1..Len(stream) : IsLatest(i) /\ deadOf[i] # 0 => orderDead[stream[i]] = deadOf[i]

LatestInv == \A i \in 1..Len(stream) : \E m \in Copies(i) : IsLatest(m)

CopiesInv == LettersInv /\ ChainInv /\ RedrivenInv /\ ReviewInv /\ LatestInv

\* The parts of CopiesInv look at the streams and the indexes; the pending
\* entries matter only through what is settled, which is final.
LEMMA CopiesQuiet ==
    ASSUME CopiesInv, UNCHANGED <<stream, dead, deadOf, orderDead>>,
           \A i \in Ids : Settled(i) => Settled(i)', TypeInv
    PROVE  CopiesInv'
<1>1. \A d \in 1..Len(dead) : dead[d].source \in Ids
  BY DeadLetter DEF TypeInv
<1>2. 1..Len(stream) \subseteq Ids
  BY Positions DEF TypeInv, Ids
<1>3. LettersInv'
  BY <1>1 DEF CopiesInv, LettersInv
<1>4. ChainInv'
  BY <1>2 DEF CopiesInv, ChainInv
<1> QED BY <1>3, <1>4 DEF CopiesInv, RedrivenInv, ReviewInv, LatestInv, Copies, IsLatest

LEMMA ArchiveKeepsCopies ==
    ASSUME TypeInv, IndexInv, CopiesInv, NEW i \in Ids, owner[i] # NoConsumer, Archive(i),
           UNCHANGED <<stream, delivered>>,
           \A j \in Ids : Settled(j) => Settled(j)'
    PROVE  CopiesInv'
<1> USE DEF CopiesInv
<1>0. /\ Len(dead) \in Nat /\ deadOf \in [Ids -> Nat] /\ orderDead \in [Payloads -> Nat]
      /\ owner \in [Ids -> Consumers \cup {NoConsumer}] /\ stream \in Seq(Payloads)
      /\ 1..Len(stream) \subseteq Ids /\ i \in 1..Len(stream) /\ stream[i] \in Payloads
  <2>1. i <= delivered
    BY DEF TypeInv, PositionsInv
  <2>2. 1..Len(stream) \subseteq Ids /\ i \in 1..Len(stream)
    BY <2>1, Positions DEF TypeInv, Ids
  <2>3. stream \in Seq(Payloads)
    BY DEF TypeInv, StreamTypeOK
  <2>4. stream[i] \in Payloads
    BY <2>2, <2>3
  <2> QED BY <2>2, <2>3, <2>4 DEF TypeInv, StreamTypeOK
<1>1. ~Settled(i) /\ Settled(i)'
  BY <1>0 DEF Settled, Archive, TypeInv, PositionsInv
<1>2. deadOf[i] = 0
  BY <1>1 DEF IndexInv, LettersInv
<1> DEFINE n == Len(dead) + 1
           letter == [source |-> i, redrive |-> 0]
           S == [source : Ids, redrive : 0..MaxEntries]
<1>3. /\ Len(dead') = n /\ dead'[n] = letter
      /\ \A d \in 1..Len(dead) : dead'[d] = dead[d]
  <2>1. dead' = Append(dead, letter) /\ letter \in S /\ dead \in Seq(S)
    BY <1>2 DEF Archive, TypeInv, StreamTypeOK
  <2> HIDE DEF S, letter
  <2> QED BY <2>1
<1>4. deadOf'[i] = n /\ \A j \in Ids \ {i} : deadOf'[j] = deadOf[j]
  BY <1>0, <1>2 DEF Archive
<1>5. /\ orderDead'[stream[i]] = n
      /\ \A p \in Payloads : p # stream[i] => orderDead'[p] = orderDead[p]
  BY <1>0, <1>4 DEF Archive
<1>6. \A j \in Ids : deadOf[j] # 0 => deadOf[j] \in 1..Len(dead)
  BY DEF IndexInv
<1>7. \A d \in 1..Len(dead) : dead[d].source \in Ids \ {i}
  BY <1>1, DeadLetter DEF LettersInv, TypeInv
<1>8. LettersInv'
  <2> SUFFICES ASSUME NEW d \in 1..Len(dead')
               PROVE  deadOf'[dead'[d].source] = d /\ Settled(dead[d].source)'
    BY DEF LettersInv
  <2>1. CASE d = n
    BY <1>1, <1>3, <1>4, <2>1
  <2>2. CASE d \in 1..Len(dead)
    <3>1. dead'[d] = dead[d] /\ dead[d].source \in Ids \ {i}
      BY <1>3, <1>7, <2>2
    <3>2. deadOf[dead[d].source] = d /\ Settled(dead[d].source)
      BY <2>2 DEF LettersInv
    <3>3. Settled(dead[d].source)'
      <4>1. \A j \in Ids : Settled(j) => j <= delivered' /\ owner'[j] = NoConsumer
        BY DEF Settled
      <4>2. dead'[d].source \in Ids /\ Settled(dead'[d].source)
        BY <3>1, <3>2
      <4> QED BY <4>1, <4>2 DEF Settled
    <3> QED BY <1>4, <3>1, <3>2, <3>3
  <2> QED BY <1>0, <1>3, <2>1, <2>2
<1>9. ChainInv'
  <2> SUFFICES ASSUME NEW j \in 1..Len(stream), NEW k \in 1..Len(stream), j < k,
                      stream[j] = stream[k]
               PROVE  Settled(j)' /\ deadOf'[j] # 0 /\ dead'[deadOf'[j]].redrive # 0
    BY DEF ChainInv
  <2>1. Settled(j) /\ deadOf[j] # 0 /\ dead[deadOf[j]].redrive # 0
    BY DEF ChainInv
  <2>2. j \in Ids \ {i}
    BY <1>0, <1>1, <2>1
  <2> QED BY <1>3, <1>4, <1>6, <2>1, <2>2
<1>10. RedrivenInv'
  <2> SUFFICES ASSUME NEW d \in 1..Len(dead'), dead'[d].redrive # 0
               PROVE  /\ dead'[d].redrive \in Copies(dead'[d].source)
                      /\ dead'[d].source < dead'[d].redrive
    BY DEF RedrivenInv, Copies
  <2>1. d \in 1..Len(dead) /\ dead'[d] = dead[d]
    BY <1>0, <1>3
  <2> QED BY <2>1 DEF RedrivenInv
<1>11. ReviewInv'
  <2> SUFFICES ASSUME NEW j \in 1..Len(stream), IsLatest(j), deadOf'[j] # 0
               PROVE  orderDead'[stream[j]] = deadOf'[j]
    BY DEF ReviewInv, IsLatest, Copies
  <2>1. CASE j = i
    BY <1>4, <1>5, <2>1
  <2>2. CASE j # i
    <3>1. stream[j] # stream[i]
      <4>1. SUFFICES ASSUME stream[j] = stream[i] PROVE FALSE
        OBVIOUS
      <4>2. i < j
        BY <1>0, <2>2, <4>1 DEF IsLatest, Copies
      <4> QED BY <1>0, <1>1, <4>1, <4>2 DEF ChainInv
    <3>2. stream[j] \in Payloads
      BY <1>0
    <3>3. deadOf'[j] = deadOf[j]
      BY <1>0, <1>4, <2>2
    <3> QED BY <1>5, <3>1, <3>2, <3>3 DEF ReviewInv
  <2> QED BY <2>1, <2>2
<1>12. LatestInv'
  BY DEF LatestInv, Copies, IsLatest
<1> QED BY <1>8, <1>9, <1>10, <1>11, <1>12

\* An entry just appended is the latest copy of its order and not archived yet.
LEMMA AppendKeepsLatest ==
    ASSUME TypeInv, IndexInv, ReviewInv, LatestInv, NEW p \in Payloads,
           Len(stream) < MaxEntries, stream' = Append(stream, p),
           UNCHANGED <<deadOf, orderDead>>
    PROVE  /\ Len(stream') = Len(stream) + 1 /\ stream'[Len(stream) + 1] = p
           /\ \A i \in 1..Len(stream) : stream'[i] = stream[i]
           /\ ReviewInv' /\ LatestInv'
<1> DEFINE n == Len(stream) + 1
<1>1. /\ Len(stream) \in Nat /\ Len(stream') = n /\ stream'[n] = p
      /\ \A i \in 1..Len(stream) : stream'[i] = stream[i]
  BY DEF TypeInv, StreamTypeOK
<1>2. n \in Ids /\ deadOf[n] = 0
  <2>1. n \in Ids /\ n > delivered
    BY Positions DEF TypeInv, Ids
  <2> QED BY <2>1, Positions DEF IndexInv, TypeInv, PositionsInv
<1>3. ReviewInv'
  <2> SUFFICES ASSUME NEW i \in 1..n, \A j \in 1..n : stream'[j] = stream'[i] => j <= i,
                      deadOf[i] # 0
               PROVE  orderDead[stream'[i]] = deadOf[i]
    BY <1>1 DEF ReviewInv, IsLatest, Copies
  <2>1. i \in 1..Len(stream)
    BY <1>1, <1>2
  <2>2. IsLatest(i)
    BY <1>1, <2>1 DEF IsLatest, Copies
  <2> QED BY <1>1, <2>1, <2>2 DEF ReviewInv
<1>4. LatestInv'
  <2> SUFFICES ASSUME NEW i \in 1..n
               PROVE  \E m \in 1..n : /\ stream'[m] = stream'[i]
                                      /\ \A j \in 1..n : stream'[j] = stream'[m] => j <= m
    BY <1>1 DEF LatestInv, IsLatest, Copies
  <2>1. CASE stream'[i] = p
    BY <1>1, <2>1
  <2>2. CASE stream'[i] # p
    <3>1. i \in 1..Len(stream)
      BY <1>1, <2>2
    <3>2. PICK m \in 1..Len(stream) : stream[m] = stream[i] /\ IsLatest(m)
      BY <3>1 DEF LatestInv, Copies
    <3>3. m \in 1..n /\ stream'[m] = stream'[i]
      BY <1>1, <3>1, <3>2
    <3>4. \A j \in 1..n : stream'[j] = stream'[m] => j <= m
      <4> SUFFICES ASSUME NEW j \in 1..n, stream'[j] = stream'[m] PROVE j <= m
        OBVIOUS
      <4>1. j \in 1..Len(stream)
        BY <1>1, <2>2, <3>3
      <4> QED BY <1>1, <3>2, <4>1 DEF IsLatest, Copies
    <3> QED BY <3>3, <3>4
  <2> QED BY <2>1, <2>2
<1> HIDE DEF n
<1> QED BY <1>1, <1>3, <1>4 DEF n

LEMMA ProduceKeepsCopies ==
    ASSUME TypeInv, IndexInv, CopiesInv, NEW p \in Payloads, Produce(p)
    PROVE  CopiesInv'
<1> USE DEF CopiesInv
<1>1. /\ stream' = Append(stream, p) /\ Len(stream) < MaxEntries
      /\ \A i \in 1..Len(stream) : stream[i] # p
      /\ UNCHANGED <<delivered, owner, dead, deadOf, orderDead>>
  BY DEF Produce
<1>2. /\ Len(stream) \in Nat /\ Len(stream') = Len(stream) + 1 /\ stream'[Len(stream) + 1] = p
      /\ \A i \in 1..Len(stream) : stream'[i] = stream[i]
      /\ ReviewInv' /\ LatestInv'
  BY <1>1, AppendKeepsLatest, Positions DEF TypeInv
<1>3. LettersInv'
  BY <1>1 DEF LettersInv, Settled
<1>4. ChainInv'
  <2> SUFFICES ASSUME NEW i \in 1..Len(stream'), NEW j \in 1..Len(stream'), i < j,
                      stream'[i] = stream'[j]
               PROVE  Settled(i)' /\ deadOf'[i] # 0 /\ dead'[deadOf'[i]].redrive # 0
    BY DEF ChainInv
  <2>1. i \in 1..Len(stream) /\ j \in 1..Len(stream) /\ stream[i] = stream[j]
    BY <1>1, <1>2
  <2> QED BY <1>1, <2>1 DEF ChainInv, Settled
<1>5. RedrivenInv'
  <2> SUFFICES ASSUME NEW d \in 1..Len(dead), dead[d].redrive # 0
               PROVE  /\ dead[d].redrive \in 1..Len(stream')
                      /\ stream'[dead[d].redrive] = stream'[dead[d].source]
                      /\ dead[d].source < dead[d].redrive
    BY <1>1 DEF RedrivenInv, Copies
  <2>1. /\ dead[d].redrive \in 1..Len(stream)
        /\ stream[dead[d].redrive] = stream[dead[d].source]
        /\ dead[d].source < dead[d].redrive
    BY DEF RedrivenInv, Copies
  <2>2. dead[d].source \in 1..Len(stream)
    BY <1>2, <2>1, DeadLetter DEF TypeInv, Ids
  <2> QED BY <1>2, <2>1, <2>2
<1> QED BY <1>2, <1>3, <1>4, <1>5

\* The redriven letter is that of the latest copy: the letters of the earlier
\* ones are redriven already.
LEMMA RedriveKeepsCopies ==
    ASSUME TypeInv, IndexInv, CopiesInv, NEW d \in Ids, Redrive(d)
    PROVE  CopiesInv'
<1> USE DEF CopiesInv
<1> DEFINE s == dead[d].source
           n == Len(stream) + 1
           letter == [dead[d] EXCEPT !.redrive = n]
           S == [source : Ids, redrive : 0..MaxEntries]
<1>1. /\ d \in 1..Len(dead) /\ dead[d].redrive = 0 /\ Len(stream) < MaxEntries
      /\ stream' = Append(stream, stream[s]) /\ dead' = [dead EXCEPT ![d] = letter]
      /\ UNCHANGED <<delivered, owner, deadOf, orderDead>>
  BY DEF Redrive
<1>2. dead[d] \in S /\ \A e \in 1..Len(dead) : dead[e].source \in 1..Len(stream)
  <2>1. \A e \in 1..Len(dead) : dead[e] \in S /\ dead[e].source <= delivered
    BY DeadLetter DEF TypeInv, PositionsInv
  <2> QED BY <1>1, <2>1, Positions DEF TypeInv, Ids
<1>3. letter.source = s /\ letter.redrive = n
  BY <1>2
<1>4. /\ Len(dead') = Len(dead) /\ dead'[d] = letter
      /\ \A e \in 1..Len(dead) : e # d => dead'[e] = dead[e]
  <2>1. dead \in Seq(S)
    BY DEF TypeInv, StreamTypeOK
  <2> HIDE DEF S, letter
  <2> QED BY <1>1, <2>1
<1>5. \A e \in 1..Len(dead) : dead'[e].source = dead[e].source
  BY <1>3, <1>4
<1>6. s \in 1..Len(stream) /\ stream[s] \in Payloads
  <2>1. stream \in Seq(Payloads) /\ s \in 1..Len(stream)
    BY <1>1, <1>2 DEF TypeInv, StreamTypeOK
  <2> QED BY <2>1
<1>7. /\ Len(stream) \in Nat /\ Len(stream') = n /\ stream'[n] = stream[s]
      /\ \A i \in 1..Len(stream) : stream'[i] = stream[i]
      /\ ReviewInv' /\ LatestInv'
  BY <1>1, <1>6, AppendKeepsLatest, Positions DEF TypeInv
<1>8. deadOf[s] = d /\ Settled(s)
  BY <1>1 DEF LettersInv
<1>9. \A i \in 1..Len(stream) : stream[i] = stream[s] => i <= s
  BY <1>1, <1>6, <1>8 DEF ChainInv
<1> HIDE DEF letter, S, s, n
<1>10. LettersInv'
  <2> SUFFICES ASSUME NEW e \in 1..Len(dead)
               PROVE  deadOf[dead'[e].source] = e /\ Settled(dead'[e].source)
    BY <1>1, <1>4 DEF LettersInv, Settled
  <2> QED BY <1>5 DEF LettersInv
<1>11. ChainInv'
  <2>0. SUFFICES ASSUME NEW i \in 1..Len(stream'), NEW j \in 1..Len(stream'), i < j,
                       stream'[i] = stream'[j]
                PROVE  Settled(i)' /\ deadOf'[i] # 0 /\ dead'[deadOf'[i]].redrive # 0
    BY DEF ChainInv
  <2>1. i \in 1..Len(stream)
    BY <1>7, <2>0 DEF n
  <2>2. Settled(i) /\ deadOf[i] # 0 /\ (i = s \/ dead[deadOf[i]].redrive # 0)
    <3>1. CASE j \in 1..Len(stream)
      BY <1>7, <2>0, <2>1, <3>1 DEF ChainInv
    <3>2. CASE j = n
      <4>1. i <= s /\ stream[i] = stream[s]
        BY <1>7, <1>9, <2>0, <2>1, <3>2
      <4>2. CASE i = s
        BY <1>1, <1>8, <4>2
      <4>3. CASE i < s
        BY <1>6, <2>1, <4>1, <4>3 DEF ChainInv
      <4> QED BY <1>6, <2>1, <4>1, <4>2, <4>3
    <3> QED BY <1>7, <2>0, <3>1, <3>2 DEF n
  <2>3. i \in Ids /\ deadOf[i] \in 1..Len(dead)
    BY <2>1, <2>2, Positions DEF IndexInv, Ids, TypeInv
  <2>4. Settled(i)' /\ deadOf'[i] = deadOf[i]
    BY <1>1, <2>2 DEF Settled
  <2> QED BY <1>3, <1>4, <1>7, <1>8, <2>2, <2>3, <2>4 DEF n
<1>12. RedrivenInv'
  <2> SUFFICES ASSUME NEW e \in 1..Len(dead), dead'[e].redrive # 0
               PROVE  /\ dead'[e].redrive \in 1..n
                      /\ stream'[dead'[e].redrive] = stream'[dead[e].source]
                      /\ dead[e].source < dead'[e].redrive
    BY <1>4, <1>5, <1>7 DEF RedrivenInv, Copies
  <2>1. CASE e = d
    BY <1>3, <1>4, <1>6, <1>7, <2>1 DEF s, n
  <2>2. CASE e # d
    <3>1. /\ dead'[e] = dead[e] /\ dead[e].source \in 1..Len(stream)
          /\ dead[e].redrive \in 1..Len(stream)
          /\ stream[dead[e].redrive] = stream[dead[e].source]
          /\ dead[e].source < dead[e].redrive
      BY <1>2, <1>4, <2>2 DEF RedrivenInv, Copies
    <3> QED BY <1>7, <3>1 DEF n
  <2> QED BY <2>1, <2>2
<1> QED BY <1>7, <1>10, <1>11, <1>12

LEMMA CopiesInit == StreamInit => CopiesInv
  BY DEF StreamInit, CopiesInv, LettersInv, ChainInv, RedrivenInv, ReviewInv, LatestInv

LEMMA CopiesStep ==
    TypeInv /\ IndexInv /\ CopiesInv /\ [StreamNext]_streamVars => CopiesInv'
<1> SUFFICES ASSUME TypeInv, IndexInv, CopiesInv, [StreamNext]_streamVars
             PROVE  CopiesInv'
  OBVIOUS
<1>1. \A i \in Ids : Settled(i) => Settled(i)'
  <2>1. CASE UNCHANGED streamVars
    BY <2>1 DEF streamVars, streamKeys, Settled
  <2>2. CASE KeepsBudget
    BY <2>2 DEF KeepsBudget
  <2> QED BY <2>1, <2>2, BudgetStep
<1>2. CASE UNCHANGED <<stream, dead, deadOf, orderDead>>
  BY <1>1, <1>2, CopiesQuiet
<1>3. ASSUME NEW p \in Payloads, Produce(p) PROVE CopiesInv'
  BY <1>3, ProduceKeepsCopies
<1>4. ASSUME NEW d \in Ids, Redrive(d) PROVE CopiesInv'
  BY <1>4, RedriveKeepsCopies
<1>5. ASSUME NEW c \in Consumers, NEW i \in Ids, Failure(c, i) PROVE CopiesInv'
  <2>1. CASE owner[i] = c /\ Archive(i)
    BY <1>1, <1>5, <2>1, ArchiveKeepsCopies DEF Failure
  <2> QED BY <1>2, <1>5, <2>1 DEF Failure
<1>6. ASSUME NEW c \in Consumers, PollStep(c) \/ HandlerStep(c) \/ WorkerFault(c)
      PROVE  UNCHANGED <<stream, dead, deadOf, orderDead>>
  BY <1>6 DEF PollStep, Start, ReadPage, EndPage, ReadNew, Deliver, EndRound, Claim, HandlerStep,
              HandlerThrows, HandlerCommits, HandlerReturns, WorkerFault, Crash, PollFails,
              ReadNewLost, BeginLost, ReserveAttempt, TransitionLost, streamKeys
<1>7. ASSUME NEW c \in Consumers, NEW i \in Ids,
             BeginStale(c, i) \/ BeginExhausted(c, i) \/ Begin(c, i) \/ Success(c, i)
      PROVE  UNCHANGED <<stream, dead, deadOf, orderDead>>
  BY <1>7 DEF BeginStale, BeginExhausted, Begin, ReserveAttempt, Success, streamKeys
<1>8. CASE (\E i \in Ids : Elapse(i) \/ Overrun(i)) \/ UNCHANGED streamVars
  BY <1>2, <1>8 DEF Elapse, Overrun, streamVars, streamKeys
<1> QED BY <1>2, <1>3, <1>4, <1>5, <1>6, <1>7, <1>8 DEF StreamNext, WorkerStep, TransitionStep

\* What the dead letters, their indexes and the copies of the orders say of
\* each other, after any number of archives and redrives.
THEOREM CopiesInvariant == StreamSpec => [](TypeInv /\ LossInv /\ CopiesInv)
<1>1. StreamInit => TypeInv /\ LossInv /\ CopiesInv
  BY TypeInit, LossInit, CopiesInit
<1>2. TypeInv /\ LossInv /\ CopiesInv /\ [StreamNext]_streamVars
        => (TypeInv /\ LossInv /\ CopiesInv)'
  BY TypeStep, LossStep, CopiesStep DEF LossInv
<1> QED BY <1>1, <1>2, PTL DEF StreamSpec

\* However often an order is archived and redriven, at most one of its entries
\* is waiting or being worked on.
THEOREM OneLiveEntry == StreamSpec => []OneLiveEntryPerOrder
<1>1. TypeInv /\ CopiesInv => OneLiveEntryPerOrder
  <2> SUFFICES ASSUME TypeInv, CopiesInv, NEW i \in 1..Len(stream), NEW j \in 1..Len(stream),
                      stream[i] = stream[j], ~Settled(i), ~Settled(j)
               PROVE  i = j
    BY DEF OneLiveEntryPerOrder
  <2>1. ~(i < j) /\ ~(j < i)
    BY DEF CopiesInv, ChainInv
  <2> QED BY <2>1, Positions DEF TypeInv
<1> QED BY <1>1, CopiesInvariant, PTL

\* An order that nothing will process any more and whose handler never took
\* effect is found through its 'order:' index, at a letter still to redrive.
THEOREM AbandonedIsFound == StreamSpec => []AbandonedIsReviewable
<1>1. TypeInv /\ LossInv /\ CopiesInv => AbandonedIsReviewable
  <2> SUFFICES ASSUME TypeInv, LossInv, CopiesInv, NEW i \in 1..Len(stream),
                      \A j \in Copies(i) : Settled(j) /\ j \notin handled
               PROVE  /\ orderDead[stream[i]] \in 1..Len(dead)
                      /\ dead[orderDead[stream[i]]].redrive = 0
                      /\ dead[orderDead[stream[i]]].source \in Copies(i)
    BY DEF AbandonedIsReviewable, Copies
  <2>1. PICK m \in Copies(i) : IsLatest(m)
    BY DEF CopiesInv, LatestInv
  <2>2. m \in 1..Len(stream) /\ stream[m] = stream[i] /\ Settled(m) /\ m \notin handled
    BY <2>1 DEF Copies
  <2>3. m \in Ids /\ m \in 1..delivered
    BY <2>2, Positions DEF TypeInv, Ids, Settled
  <2>4. deadOf[m] \in 1..Len(dead) /\ dead[deadOf[m]].source = m
    BY <2>2, <2>3 DEF LossInv, EvidenceInv, IndexInv, Settled
  <2>5. deadOf[m] # 0
    BY <2>4
  <2>6. orderDead[stream[i]] = deadOf[m]
    BY <2>1, <2>2, <2>5 DEF CopiesInv, ReviewInv
  <2>7. dead[deadOf[m]].redrive = 0
    <3>1. SUFFICES ASSUME dead[deadOf[m]].redrive # 0 PROVE FALSE
      OBVIOUS
    <3>2. dead[deadOf[m]].redrive \in Copies(m) /\ m < dead[deadOf[m]].redrive
      BY <2>4, <3>1 DEF CopiesInv, RedrivenInv
    <3>3. dead[deadOf[m]].redrive <= m /\ dead[deadOf[m]].redrive \in Nat
      BY <2>1, <3>2 DEF IsLatest, Copies
    <3> QED BY <2>3, <3>2, <3>3
  <2> QED BY <2>1, <2>4, <2>6, <2>7
<1> QED BY <1>1, CopiesInvariant, PTL
=============================================================================
