---------------------------- MODULE PlantProofs ----------------------------
(***************************************************************************)
(* Proofs about what connects a resource to other machines, to its record  *)
(* and to a simulated plant: the mesh, the Modbus driver, the historian    *)
(* and the couplings of a simulation.                                      *)
(***************************************************************************)
EXTENDS Mesh, IoDrivers, Historian, Simulation, FiniteSetTheorems, SequenceTheorems,
        WellFoundedInduction, TLAPS

-----------------------------------------------------------------------------
(***************************************************************************)
(* Mesh.  What makes consistency inductive: an update that was mapped      *)
(* since the last reload, by globals of the declared types, has no others  *)
(* than the globals that are declared as numbers.                          *)
(***************************************************************************)
Numbers == {n \in Names : declared[n] = "int"}

MappedRight ==
  \A s \in Slots :
    conn[s].stage = "mapped" =>
      /\ conn[s].epoch \in Nat /\ conn[s].epoch <= reloads
      /\ ~crossed /\ conn[s].epoch = reloads => conn[s].names \subseteq Numbers

MeshShape ==
  /\ reloads \in Nat
  /\ conn = [s \in Slots |-> conn[s]]

MeshInv == MeshShape /\ MappedRight /\ MeshConsistent

LEMMA MeshInitInv == MeshInit => MeshInv
<1> SUFFICES ASSUME MeshInit PROVE MeshInv
  OBVIOUS
<1>1. MeshShape
  BY DEF MeshInit, MeshShape, Types
<1>2. MappedRight
  BY DEF MeshInit, MappedRight, Free
<1>3. MeshConsistent
  BY DEF MeshInit, MeshConsistent, Fresh
<1> QED
  BY <1>1, <1>2, <1>3 DEF MeshInv

\* A message that arrives, gets lost or is mapped leaves the globals alone.
LEMMA MeshMessagesInv ==
  ASSUME MeshInv,
         \/ Change
         \/ \E targets \in SUBSET Slots : Publish(targets)
         \/ \E s \in Slots : Lose(s) \/ MapSubscribe(s)
  PROVE  MeshInv'
<1> USE DEF MeshInv
<1>1. UNCHANGED <<declared, copy, reloads, crossed, skipped>>
  BY DEF Change, Publish, Lose, MapSubscribe
<1>2. MeshConsistent'
  BY <1>1 DEF MeshConsistent
<1>3. Numbers' = Numbers
  BY <1>1 DEF Numbers
<1>4. CASE Change
  BY <1>1, <1>2, <1>3, <1>4 DEF Change, MeshShape, MappedRight
<1>5. ASSUME NEW targets \in SUBSET Slots, Publish(targets)
      PROVE  MeshInv'
  BY <1>1, <1>2, <1>3, <1>5 DEF Publish, MeshShape, MappedRight
<1>6. ASSUME NEW s \in Slots, Lose(s)
      PROVE  MeshInv'
  BY <1>1, <1>2, <1>3, <1>6 DEF Lose, MeshShape, MappedRight, Free
<1>7. ASSUME NEW s \in Slots, MapSubscribe(s)
      PROVE  MeshInv'
  <2> DEFINE names == Fitting(s)
  <2>1. ~crossed => names \subseteq Numbers
    BY DEF MeshConsistent, Numbers, Fitting
  <2>2. MappedRight'
    <3> SUFFICES ASSUME NEW t \in Slots, conn'[t].stage = "mapped"
                 PROVE  /\ conn'[t].epoch \in Nat /\ conn'[t].epoch <= reloads
                        /\ ~crossed /\ conn'[t].epoch = reloads => conn'[t].names \subseteq Numbers
      BY <1>1, <1>3 DEF MappedRight
    <3>1. CASE t # s
      <4>1. conn'[t] = conn[t]
        BY <3>1, <1>7 DEF MapSubscribe, MeshShape
      <4> QED
        BY <4>1 DEF MappedRight
    <3>2. CASE t = s
      <4>1. conn'[s] = [stage |-> "mapped", version |-> conn[s].version, names |-> names,
                        epoch |-> reloads]
        BY <1>7, <3>2 DEF MapSubscribe, MeshShape, Free
      <4>2. reloads \in Nat
        BY DEF MeshShape
      <4> HIDE DEF names
      <4> QED
        BY <4>1, <4>2, <3>2, <2>1
    <3> QED
      BY <3>1, <3>2
  <2>3. MeshShape'
    BY <1>1, <1>7 DEF MapSubscribe, MeshShape
  <2> QED
    BY <1>2, <2>2, <2>3
<1> QED
  BY <1>4, <1>5, <1>6, <1>7

LEMMA MeshApplyInv ==
  ASSUME MeshInv, NEW s \in Slots, Apply(s)
  PROVE  MeshInv'
<1> USE DEF MeshInv
<1>1. Numbers' = Numbers /\ UNCHANGED <<declared, reloads>>
  BY DEF Apply, Numbers
<1>2. /\ conn' = [conn EXCEPT ![s] = Free]
      /\ crossed' = (crossed \/ conn[s].epoch # reloads) /\ skipped' = Names \ conn[s].names
      /\ copy' = [n \in Names |-> IF n \in conn[s].names
                                  THEN [type |-> "int", version |-> conn[s].version]
                                  ELSE copy[n]]
  BY DEF Apply
<1>3. MeshShape'
  BY <1>1, <1>2 DEF MeshShape
<1>4. MappedRight'
  BY <1>1, <1>2 DEF MappedRight, MeshShape, Free
<1>5. MeshConsistent'
  <2> SUFFICES ASSUME ~crossed' PROVE
        /\ \A n \in Names : copy'[n].type = declared[n]
        /\ \A m, n \in Names \ skipped' :
             declared[m] = "int" /\ declared[n] = "int" => copy'[m].version = copy'[n].version
    BY <1>1 DEF MeshConsistent
  <2>1. ~crossed /\ conn[s].epoch = reloads
    BY <1>2
  <2>2. conn[s].names \subseteq Numbers
    BY <2>1 DEF MappedRight, Apply
  <2>3. \A n \in Names : copy[n].type = declared[n]
    BY <2>1 DEF MeshConsistent
  <2>4. \A n \in conn[s].names : n \in Names =>
          copy'[n].type = "int" /\ copy'[n].version = conn[s].version /\ declared[n] = "int"
    BY <1>2, <2>2 DEF Numbers
  <2>5. \A n \in Names \ conn[s].names : copy'[n] = copy[n]
    BY <1>2
  <2> QED
    BY <1>2, <2>3, <2>4, <2>5
<1> QED
  BY <1>3, <1>4, <1>5

LEMMA MeshReloadInv ==
  ASSUME MeshInv, NEW types \in [Names -> Types], Reload(types)
  PROVE  MeshInv'
<1> USE DEF MeshInv
<1>1. MeshShape'
  <2>1. reloads' \in Nat
    BY DEF Reload, MeshShape
  <2>2. conn' = [s \in Slots |-> conn'[s]]
    BY DEF Reload, MeshShape
  <2> QED
    BY <2>1, <2>2 DEF MeshShape
<1>2. MappedRight'
  BY DEF Reload, MeshShape, MappedRight
<1>3. MeshConsistent'
  BY DEF Reload, MeshConsistent, Fresh
<1> QED
  BY <1>1, <1>2, <1>3

\* mesh.rs: the invariant of the mesh, for any globals, connections, changes and
\* reloads.
THEOREM MeshInvariance == MeshSpec => []MeshInv
<1>1. MeshInv /\ [MeshNext]_meshVars => MeshInv'
  <2> SUFFICES ASSUME MeshInv, [MeshNext]_meshVars PROVE MeshInv'
    OBVIOUS
  <2>1. CASE UNCHANGED meshVars
    BY <2>1 DEF meshVars, MeshInv, MeshShape, MappedRight, MeshConsistent, Numbers
  <2>2. CASE MeshNext
    BY <2>2, MeshMessagesInv, MeshApplyInv, MeshReloadInv DEF MeshNext
  <2> QED
    BY <2>1, <2>2
<1> QED
  BY <1>1, MeshInitInv, PTL DEF MeshSpec

\* mesh.rs, runtime/mesh.rs: globals that are published together are seen
\* together and keep their types, whatever gets lost, doubled or overtaken.
THEOREM MeshAlwaysConsistent == MeshSpec => []MeshConsistent
<1>1. MeshInv => MeshConsistent
  BY DEF MeshInv
<1> QED
  BY <1>1, MeshInvariance, PTL

-----------------------------------------------------------------------------
(***************************************************************************)
(* Modbus.  An error closes the connection, so at most the message of the  *)
(* call that waits is under way.                                           *)
(***************************************************************************)
One(queue) == \E m \in Message : m.own /\ queue = <<m>>

OnlyOwn ==
  /\ waiting \in BOOLEAN /\ txid \in 0..(Ids - 1)
  /\ \/ asked = <<>> /\ answers = <<>>
     \/ waiting /\ One(asked) /\ answers = <<>>
     \/ waiting /\ asked = <<>> /\ One(answers)

IoInv == OnlyOwn /\ AnswersBelong

\* Numbers stay in range.
LEMMA NextId == txid \in 0..(Ids - 1) => (txid + 1) % Ids \in 0..(Ids - 1)
BY IoAssumption

\* Queues of no and of one message.
LEMMA ShortQueues ==
  /\ NotOwn(<<>>) = <<>>
  /\ \A m \in Message :
       Append(<<>>, m) = <<m>> /\ Head(<<m>>) = m /\ Tail(<<m>>) = <<>> /\ <<m>> # <<>>
<1>1. NotOwn(<<>>) = <<>>
  BY DEF NotOwn
<1>2. ASSUME NEW m \in Message
      PROVE  Append(<<>>, m) = <<m>> /\ Head(<<m>>) = m /\ Tail(<<m>>) = <<>> /\ <<m>> # <<>>
  OBVIOUS
<1> QED
  BY <1>1, <1>2

LEMMA ModbusInv == ASSUME IoInv, ModbusNext PROVE IoInv'
<1> USE ShortQueues DEF IoInv
<1>1. CASE SendRequest
  <2>1. asked = <<>> /\ answers = <<>> /\ ~waiting
    BY <1>1 DEF SendRequest, OnlyOwn
  <2> DEFINE m == [tx |-> txid, good |-> TRUE, own |-> TRUE]
  <2>2. m \in Message /\ m.own
    BY DEF OnlyOwn, Message
  <2>3. asked' = <<m>> /\ answers' = <<>>
    BY <1>1, <2>1, <2>2 DEF SendRequest
  <2>4. txid' \in 0..(Ids - 1) /\ waiting' = TRUE /\ accepted' = accepted
    BY <1>1, NextId DEF SendRequest, OnlyOwn
  <2> HIDE DEF m
  <2> QED
    BY <2>2, <2>3, <2>4 DEF OnlyOwn, AnswersBelong, One
<1>2. CASE SendFails
  <2>1. ~waiting /\ waiting' = waiting /\ accepted' = accepted /\ asked' = <<>> /\ answers' = <<>>
    BY <1>2 DEF SendFails, handle_error
  <2>2. txid' \in 0..(Ids - 1)
    BY <1>2, NextId DEF SendFails, OnlyOwn
  <2> QED
    BY <2>1, <2>2 DEF OnlyOwn, AnswersBelong
<1>3. CASE ReadAnswer
  <2>1. answers # <<>> /\ waiting' = FALSE /\ txid' = txid
    BY <1>3 DEF ReadAnswer
  <2>2. asked = <<>> /\ One(answers)
    BY <2>1 DEF OnlyOwn
  <2>3. Tail(answers) = <<>> /\ Head(answers).own
    BY <2>2 DEF One
  <2>4. asked' = <<>> /\ answers' = <<>>
    BY <1>3, <2>2, <2>3 DEF ReadAnswer, handle_error
  <2>5. accepted'
    BY <1>3, <2>3 DEF ReadAnswer, AnswersBelong
  <2> QED
    BY <2>1, <2>4, <2>5 DEF OnlyOwn, AnswersBelong
<1>4. CASE ReadFails
  BY <1>4 DEF ReadFails, handle_error, OnlyOwn, AnswersBelong
<1>5. CASE DeviceAnswers
  <2>1. asked # <<>> /\ waiting' = waiting /\ txid' = txid /\ accepted' = accepted
    BY <1>5 DEF DeviceAnswers
  <2>2. One(asked) /\ answers = <<>> /\ waiting
    BY <2>1 DEF OnlyOwn
  <2>3. One(answers') /\ asked' = <<>>
    <3>1. PICK m \in Message : m.own /\ asked = <<m>>
      BY <2>2 DEF One
    <3>2. PICK good \in BOOLEAN : answers' = Append(answers, [m EXCEPT !.good = good])
      BY <1>5, <3>1 DEF DeviceAnswers
    <3> DEFINE a == [m EXCEPT !.good = good]
    <3>3. a \in Message /\ a.own
      BY <3>1 DEF Message
    <3>4. answers' = Append(<<>>, a) /\ asked' = <<>>
      BY <1>5, <2>2, <3>1, <3>2 DEF DeviceAnswers
    <3> HIDE DEF a
    <3> QED
      BY <3>3, <3>4 DEF One
  <2> QED
    BY <2>1, <2>3 DEF OnlyOwn, AnswersBelong, One
<1>6. ASSUME NEW d \in {"up", "ailing", "down"}, DeviceChanges(d) PROVE IoInv'
  BY <1>6 DEF DeviceChanges, OnlyOwn, AnswersBelong, One
<1> QED
  BY <1>1, <1>2, <1>3, <1>4, <1>5, <1>6 DEF ModbusNext

\* MQTT has nothing to do with the Modbus driver.
LEMMA MqttInv == ASSUME IoInv, MqttNext \/ UNCHANGED ioVars PROVE IoInv'
<1>1. UNCHANGED mbVars
  BY DEF MqttNext, MqttRest, WorkerHears, WorkerFails, WorkerEnds, KeepSession, NewSession,
         NoNewSession, PublishFails, ReconnectDue, BrokerChanges, ioVars
<1> QED
  BY <1>1 DEF mbVars, IoInv, OnlyOwn, AnswersBelong, One

\* io/modbus.rs: an accepted answer is the answer of the call that reads it, for
\* every number of transaction ids: an error or a timeout closes the connection,
\* so no message outlives its call.
THEOREM AnswersAlwaysBelong == IoSpec => []AnswersBelong
<1>1. IoInit => IoInv
  <2>1. IoInit => txid \in 0..(Ids - 1)
    BY IoAssumption DEF IoInit
  <2> QED
    BY <2>1 DEF IoInit, IoInv, OnlyOwn, AnswersBelong
<1>2. IoInv /\ [IoNext]_ioVars => IoInv'
  BY ModbusInv, MqttInv DEF IoNext
<1>3. IoInv => AnswersBelong
  BY DEF IoInv
<1> QED
  BY <1>1, <1>2, <1>3, PTL DEF IoSpec

-----------------------------------------------------------------------------
(***************************************************************************)
(* Historian.  An append touches no line but the last, and that one only   *)
(* when it is open: every sample shown and not spoilt is on a line before. *)
(***************************************************************************)
\* A sample can be read back; a batch is a sequence of samples.
LEMMA SampleReadable == \A s \in Sample : s # Garbage
BY DEF Sample, Garbage

LEMMA BatchType ==
  ASSUME moment \in 0..MaxMoment, NEW batch \in Batches
  PROVE  batch \in Seq(Sample)
<1>1. ASSUME NEW v \in {Watched, Other}, NEW x \in Found(v) PROVE x \in Seq(Sample)
  <2>1. CASE x = <<>>
    BY <2>1
  <2>2. CASE x # <<>>
    <3>1. PICK b \in BOOLEAN : x = <<[variable |-> v, at |-> moment, breached |-> b]>>
      BY <1>1, <2>2 DEF Found
    <3>2. [variable |-> v, at |-> moment, breached |-> b] \in Sample
      BY DEF Sample
    <3> QED
      BY <3>1, <3>2
  <2> QED
    BY <2>1, <2>2
<1>2. PICK x \in Found(Watched), y \in Found(Other) : batch = x \o y
  BY DEF Batches
<1>3. x \in Seq(Sample) /\ y \in Seq(Sample)
  BY <1>1
<1> QED
  BY <1>2, <1>3

LineText == Sample \cup {Garbage}

\* The lines an append does not touch.
Safe == IF open_line THEN Len(lines) - 1 ELSE Len(lines)

HistInv ==
  /\ moment \in 0..MaxMoment /\ lines \in Seq(LineText) /\ open_line \in BOOLEAN
  /\ open_line => Len(lines) > 0
  /\ shown_once \subseteq Sample
  /\ ShownIsKept

\* What an append makes of the file.
LEMMA AppendedLines ==
  ASSUME HistInv, NEW text \in Seq(Sample), text # <<>>
  PROVE  /\ Appended(text) \in Seq(LineText) /\ Len(Appended(text)) > Safe
         /\ \A i \in 1..Safe : Appended(text)[i] = lines[i]
         /\ \A j \in 1..Len(text) :
              j > 1 \/ ~open_line =>
                \E i \in 1..Len(Appended(text)) : Appended(text)[i] = text[j]
<1>0. lines \in Seq(LineText) /\ text \in Seq(LineText) /\ Len(text) \in Nat \ {0}
  BY DEF HistInv, LineText
<1>1. CASE ~open_line
  <2>1. Appended(text) = lines \o text /\ Safe = Len(lines)
    BY <1>1 DEF Appended, Safe
  <2>2. \A j \in 1..Len(text) : (lines \o text)[Len(lines) + j] = text[j]
    BY <1>0
  <2>3. Len(lines \o text) = Len(lines) + Len(text) /\ Len(lines) \in Nat
    BY <1>0
  <2>4. \A i \in 1..Len(lines) : (lines \o text)[i] = lines[i]
    BY <1>0
  <2>5. lines \o text \in Seq(LineText)
    BY <1>0
  <2>6. \A j \in 1..Len(text) : Len(lines) + j \in 1..Len(lines \o text)
    BY <2>3, <1>0
  <2> QED
    BY <1>0, <2>1, <2>2, <2>3, <2>4, <2>5, <2>6
<1>2. CASE open_line
  <2> DEFINE cut == [lines EXCEPT ![Len(lines)] = Garbage]
             rest == Tail(text)
  <2>1. Appended(text) = cut \o rest /\ Safe = Len(lines) - 1 /\ Len(lines) \in Nat \ {0}
    BY <1>2 DEF Appended, Safe, HistInv
  <2>2. cut \in Seq(LineText) /\ Len(cut) = Len(lines) /\ \A i \in 1..Safe : cut[i] = lines[i]
    BY <1>0, <2>1 DEF LineText
  <2>3. /\ rest \in Seq(LineText) /\ Len(rest) = Len(text) - 1
        /\ \A j \in 1..Len(rest) : rest[j] = text[j + 1]
    BY <1>0
  <2> HIDE DEF cut, rest
  <2>4. /\ cut \o rest \in Seq(LineText) /\ Len(cut \o rest) = Len(cut) + Len(rest)
        /\ \A i \in 1..Len(cut) : (cut \o rest)[i] = cut[i]
        /\ \A j \in 1..Len(rest) : (cut \o rest)[Len(cut) + j] = rest[j]
    <3>1. cut \in Seq(LineText) /\ rest \in Seq(LineText)
      BY <2>2, <2>3
    <3>2. cut \o rest \in Seq(LineText)
      BY <3>1
    <3>3. Len(cut \o rest) = Len(cut) + Len(rest) /\ Len(cut) \in Nat /\ Len(rest) \in Nat
      BY <3>1
    <3>4. \A i \in 1..Len(cut) : (cut \o rest)[i] = cut[i]
      BY <3>1
    <3>5. \A j \in 1..Len(rest) : (cut \o rest)[Len(cut) + j] = rest[j]
      BY <3>1
    <3> QED
      BY <3>2, <3>3, <3>4, <3>5
  <2>5. ASSUME NEW j \in 1..Len(text), j > 1
        PROVE  \E i \in 1..Len(cut \o rest) : (cut \o rest)[i] = text[j]
    <3>1. j - 1 \in 1..Len(rest) /\ Len(cut) + (j - 1) \in 1..Len(cut \o rest)
      BY <1>0, <2>1, <2>2, <2>3, <2>4, <2>5
    <3>2. (cut \o rest)[Len(cut) + (j - 1)] = text[j]
      BY <3>1, <2>3, <2>4
    <3> QED
      BY <3>1, <3>2
  <2>6. Len(cut \o rest) > Safe /\ \A i \in 1..Safe : i \in 1..Len(cut)
    BY <1>0, <2>1, <2>2, <2>3, <2>4
  <2> QED
    BY <1>2, <2>1, <2>2, <2>4, <2>5, <2>6
<1> QED
  BY <1>1, <1>2 DEF HistInv

\* A sample that is shown and not spoilt is on a line no append touches.
LEMMA KeptSafely ==
  ASSUME HistInv, NEW text \in Seq(Sample), text # <<>>,
         NEW s \in shown_once \ (spoilt \cup Spoilt(text))
  PROVE  \E i \in 1..Safe : lines[i] = s
<1>1. PICK i \in 1..Len(lines) : lines[i] = s
  BY DEF HistInv, ShownIsKept, Readable, Parsing
<1>2. CASE ~open_line
  BY <1>1, <1>2 DEF Safe
<1>3. CASE open_line
  <2>1. i # Len(lines)
    BY <1>1, <1>3 DEF Spoilt
  <2> QED
    BY <1>1, <1>3, <2>1 DEF Safe, HistInv
<1> QED
  BY <1>2, <1>3 DEF HistInv

LEMMA CaptureInv ==
  ASSUME HistInv, NEW batch \in Batches, Capture(batch)
  PROVE  HistInv'
<1>1. batch \in Seq(Sample)
  BY BatchType DEF HistInv
<1>2. CASE batch = <<>>
  BY <1>2 DEF Capture, HistInv, ShownIsKept, Readable, Parsing
<1>3. CASE batch # <<>>
  <2>1. /\ lines' = Appended(batch) /\ open_line' = FALSE /\ moment' = moment
        /\ spoilt' = spoilt \cup Spoilt(batch)
        /\ shown_once' = shown_once \cup {batch[i] : i \in 1..Len(batch)}
    BY <1>3 DEF Capture
  <2>2. shown_once' \subseteq Sample
    BY <1>1, <2>1 DEF HistInv
  <2>3. ASSUME NEW s \in shown_once' \ spoilt' PROVE \E i \in 1..Len(lines') : lines'[i] = s
    <3>1. CASE s \in shown_once
      <4>1. PICK i \in 1..Safe : lines[i] = s
        BY <1>1, <1>3, <2>1, <2>3, <3>1, KeptSafely
      <4>2. i \in 1..Len(lines') /\ lines'[i] = lines[i]
        BY <1>1, <1>3, <2>1, AppendedLines DEF HistInv, Safe
      <4> QED
        BY <4>1, <4>2
    <3>2. CASE s \notin shown_once
      <4>1. PICK j \in 1..Len(batch) : s = batch[j]
        BY <2>1, <2>3, <3>2
      <4>2. j > 1 \/ ~open_line
        BY <1>3, <2>1, <2>3, <4>1 DEF Spoilt
      <4> QED
        BY <1>1, <1>3, <2>1, <4>1, <4>2, AppendedLines
    <3> QED
      BY <3>1, <3>2
  <2>4. ShownIsKept'
    BY <2>2, <2>3, SampleReadable DEF ShownIsKept, Readable, Parsing
  <2>5. lines' \in Seq(LineText)
    BY <1>1, <1>3, <2>1, AppendedLines
  <2> QED
    BY <2>1, <2>2, <2>4, <2>5 DEF HistInv
<1> QED
  BY <1>2, <1>3

LEMMA BrokenInv ==
  ASSUME HistInv, NEW batch \in Batches, NEW whole \in 0..1,
         NEW tail \in {"end", "part", "open"}, Broken(batch, whole, tail)
  PROVE  HistInv'
<1> DEFINE text == IF tail = "end" THEN SubSeq(batch, 1, whole) ELSE SubSeq(batch, 1, whole + 1)
           done == Appended(text)
<1>1. batch \in Seq(Sample) /\ whole < Len(batch) /\ text # <<>>
  BY BatchType DEF HistInv, Broken
<1>2. text \in Seq(Sample)
  BY <1>1
<1>3. /\ lines' = IF tail = "part" THEN [done EXCEPT ![Len(done)] = Garbage] ELSE done
      /\ open_line' = (tail # "end") /\ spoilt' = spoilt \cup Spoilt(text)
      /\ moment' = moment /\ shown_once' = shown_once
  BY DEF Broken
<1> HIDE DEF text
<1>4. /\ done \in Seq(LineText) /\ Len(done) > Safe
      /\ \A i \in 1..Safe : done[i] = lines[i]
  BY <1>1, <1>2, AppendedLines
<1>5. Safe \in Nat
  BY DEF Safe, HistInv
<1> HIDE DEF done
<1>6. /\ lines' \in Seq(LineText) /\ Len(lines') = Len(done)
      /\ \A i \in 1..Safe : lines'[i] = lines[i]
  BY <1>3, <1>4, <1>5 DEF LineText
<1>7. ASSUME NEW s \in shown_once' \ spoilt' PROVE \E i \in 1..Len(lines') : lines'[i] = s
  <2>1. PICK i \in 1..Safe : lines[i] = s
    BY <1>1, <1>2, <1>3, <1>7, KeptSafely
  <2>2. i \in 1..Len(lines') /\ lines'[i] = s
    BY <1>4, <1>5, <1>6, <2>1
  <2> QED
    BY <2>2
<1>8. ShownIsKept'
  BY <1>3, <1>7, SampleReadable DEF ShownIsKept, Readable, Parsing, HistInv
<1>9. Len(lines') > 0
  <2>1. Len(done) \in Nat
    BY <1>4
  <2> QED
    BY <1>4, <1>5, <1>6, <2>1
<1>10. open_line' \in BOOLEAN
  BY <1>3
<1>11. moment' \in 0..MaxMoment /\ shown_once' \subseteq Sample
  BY <1>3 DEF HistInv
<1> QED
  BY <1>6, <1>8, <1>9, <1>10, <1>11 DEF HistInv

\* The steps that leave the file alone.
LEMMA OtherStepsInv ==
  ASSUME HistInv, Relaunched \/ Pass \/ SetBack \/ UNCHANGED histVars
  PROVE  HistInv'
<1>0. UNCHANGED <<lines, open_line, spoilt>>
  BY DEF Relaunched, Pass, SetBack, histVars
<1>1. Readable' = Readable
  BY <1>0 DEF Readable, Parsing
<1>2. Readable \subseteq Sample
  BY DEF Readable, Parsing, HistInv, LineText
<1>3. shown_once' \subseteq shown_once \cup Readable
  BY DEF Relaunched, Pass, SetBack, histVars
<1>4. moment' \in 0..MaxMoment
  BY HistorianAssumption DEF Relaunched, Pass, SetBack, histVars, HistInv
<1> QED
  BY <1>0, <1>1, <1>2, <1>3, <1>4 DEF HistInv, ShownIsKept

LEMMA HistStart == HistorianInit => HistInv
<1> SUFFICES ASSUME HistorianInit PROVE HistInv
  OBVIOUS
<1>1. moment \in 0..MaxMoment
  BY HistorianAssumption DEF HistorianInit
<1>2. lines \in Seq(LineText)
  BY DEF HistorianInit
<1>3. shown_once = {} /\ open_line = FALSE
  BY DEF HistorianInit
<1> QED
  BY <1>1, <1>2, <1>3 DEF HistInv, ShownIsKept

LEMMA HistStep == HistInv /\ [HistorianNext]_histVars => HistInv'
BY CaptureInv, BrokenInv, OtherStepsInv DEF HistorianNext

\* historian.rs: what a query has shown stays in the file, for any capture that
\* breaks off at any moment, but for what a broken line spoils.
THEOREM ShownIsAlwaysKept == HistorianSpec => []ShownIsKept
<1>1. HistInv => ShownIsKept
  BY DEF HistInv
<1> QED
  BY <1>1, HistStart, HistStep, PTL DEF HistorianSpec

-----------------------------------------------------------------------------
(***************************************************************************)
(* Historian, alerts.  While a series of breaches lasts every capture adds *)
(* one sample of the variable and at most one other, so the i-th sample of *)
(* the variable from the end is among the last 2 * i samples of the ring.  *)
(***************************************************************************)
NearBreaches(n) ==
  \E at \in [1..n -> 1..Len(ring)] :
    /\ \A i, j \in 1..n : i < j => at[j] < at[i]
    /\ \A i \in 1..n : ring[at[i]].variable = Watched
    /\ \A q \in 1..Len(ring) :
         ring[q].variable = Watched /\ (\E i \in 1..n : at[i] <= q) => ring[q].breached
    /\ \A i \in 1..n : at[i] > Len(ring) - 2 * i

\* The breaches that count: those of the series, but no more than are asked for.
Counted == IF tracker.consecutive < Debounce THEN tracker.consecutive ELSE Debounce

AlertInv ==
  /\ HistInv /\ \E S : ring \in Seq(S)
  /\ tracker.active \in BOOLEAN /\ tracker.consecutive \in Nat
  /\ tracker.active => tracker.consecutive >= Debounce
  /\ NearBreaches(Counted)

\* What the ring keeps of a sequence: its end, each sample as far from it as before.
LEMMA NewestEnd ==
  ASSUME NEW S, NEW q \in Seq(S)
  PROVE  /\ Newest(q) \in Seq(S)
         /\ Len(Newest(q)) = IF Len(q) > MaxEntries THEN MaxEntries ELSE Len(q)
         /\ \A i \in 1..Len(Newest(q)) : Newest(q)[i] = q[i + (Len(q) - Len(Newest(q)))]
<1>1. Len(q) \in Nat /\ MaxEntries \in Nat \ {0} /\ \A i \in 1..Len(q) : q[i] \in S
  BY HistorianAssumption, LenProperties
<1>2. PICK n : n = Len(q)
  OBVIOUS
<1>3. PICK m : m = IF n > MaxEntries THEN n - MaxEntries + 1 ELSE 1
  OBVIOUS
<1>4. m \in Int /\ n \in Int /\ \A i \in m..n : q[i] \in S
  BY <1>1, <1>2, <1>3
<1>5. /\ SubSeq(q, m, n) \in Seq(S)
      /\ Len(SubSeq(q, m, n)) = IF m <= n THEN n - m + 1 ELSE 0
      /\ \A i \in 1..(n - m + 1) : SubSeq(q, m, n)[i] = q[m + i - 1]
  BY ONLY <1>4, SubSeqProperties
<1>6. Newest(q) = SubSeq(q, m, n)
  BY <1>2, <1>3 DEF Newest
<1>7. Len(Newest(q)) = IF n > MaxEntries THEN MaxEntries ELSE n
  <2>1. n \in Nat
    BY <1>1, <1>2
  <2>2. (IF m <= n THEN n - m + 1 ELSE 0) = IF n > MaxEntries THEN MaxEntries ELSE n
    BY <1>1, <1>3, <2>1
  <2> QED
    BY <1>5, <1>6, <2>2
<1>8. ASSUME NEW i \in 1..Len(Newest(q))
      PROVE  Newest(q)[i] = q[i + (n - Len(Newest(q)))]
  <2>1. i \in 1..(n - m + 1) /\ m + i - 1 = i + (n - Len(Newest(q)))
    BY <1>1, <1>2, <1>3, <1>7
  <2> QED
    BY <1>5, <1>6, <2>1
<1> QED
  BY <1>2, <1>5, <1>6, <1>7, <1>8

\* A batch in which the rule is breached: the watched sample, perhaps another.
LEMMA BreachingBatch ==
  ASSUME NEW batch \in Batches, Breached(batch)
  PROVE  /\ Len(batch) \in {1, 2} /\ batch[1].variable = Watched /\ batch[1].breached
         /\ Len(batch) = 2 => batch[2].variable # Watched
<1>1. PICK x \in Found(Watched), y \in Found(Other) : batch = x \o y
  BY DEF Batches
<1>2. x = <<>> \/ \E b \in BOOLEAN : x = <<[variable |-> Watched, at |-> moment, breached |-> b]>>
  BY <1>1 DEF Found
<1>3. y = <<>> \/ \E b \in BOOLEAN : y = <<[variable |-> Other, at |-> moment, breached |-> b]>>
  BY <1>1 DEF Found
<1>4. CASE x = <<>> /\ y = <<>>
  BY <1>1, <1>4 DEF Breached
<1>5. ASSUME x = <<>>, NEW b, y = <<[variable |-> Other, at |-> moment, breached |-> b]>>
      PROVE  FALSE
  BY <1>1, <1>5, HistorianAssumption DEF Breached
<1>6. ASSUME y = <<>>, NEW b, x = <<[variable |-> Watched, at |-> moment, breached |-> b]>>
      PROVE  Len(batch) = 1 /\ batch[1].variable = Watched /\ batch[1].breached
  <2>1. Len(batch) = 1 /\ batch[1] = [variable |-> Watched, at |-> moment, breached |-> b]
    BY <1>1, <1>6
  <2> QED
    BY <2>1 DEF Breached
<1>7. ASSUME NEW b, x = <<[variable |-> Watched, at |-> moment, breached |-> b]>>,
             NEW d, y = <<[variable |-> Other, at |-> moment, breached |-> d]>>
      PROVE  /\ Len(batch) = 2 /\ batch[1].variable = Watched /\ batch[1].breached
             /\ batch[2].variable # Watched
  <2>1. /\ Len(batch) = 2 /\ batch[1] = [variable |-> Watched, at |-> moment, breached |-> b]
        /\ batch[2] = [variable |-> Other, at |-> moment, breached |-> d]
    BY <1>1, <1>7
  <2> QED
    BY <2>1, HistorianAssumption DEF Breached
<1> QED
  BY <1>2, <1>3, <1>4, <1>5, <1>6, <1>7

\* Another breach: the new sample is the newest, the others move up by one place,
\* and as far to the front as the ring was trimmed.
LEMMA SeriesGrows ==
  ASSUME 2 * Debounce <= MaxEntries, NEW S, ring \in Seq(S), NEW n \in Nat, NearBreaches(n),
         NEW m \in 0..(n + 1), m <= Debounce,
         NEW batch \in Batches, Breached(batch), moment \in 0..MaxMoment,
         ring' = Newest(ring \o batch)
  PROVE  NearBreaches(m)'
<1> DEFINE c == ring \o batch
           len == Len(ring)
           b == Len(batch)
           L == Len(ring')
           s == len + b - L
<1>1. b \in {1, 2} /\ batch[1].variable = Watched /\ batch[1].breached
      /\ (b = 2 => batch[2].variable # Watched)
  BY BreachingBatch
<1>2. c \in Seq(S \cup Sample) /\ Len(c) = len + b /\ len \in Nat
      /\ (\A i \in 1..len : c[i] = ring[i]) /\ (\A i \in 1..b : c[len + i] = batch[i])
  <2>1. batch \in Seq(Sample)
    BY BatchType
  <2>2. PICK T : T = S \cup Sample
    OBVIOUS
  <2>3. ring \in Seq(T) /\ batch \in Seq(T)
    BY <2>1, <2>2, SeqMonotonic
  <2>4. /\ ring \o batch \in Seq(T) /\ Len(ring \o batch) = Len(ring) + Len(batch)
        /\ \A i \in 1..(Len(ring) + Len(batch)) :
             (ring \o batch)[i] = IF i <= Len(ring) THEN ring[i] ELSE batch[i - Len(ring)]
    BY <2>3, ConcatProperties
  <2>5. len \in Nat /\ b \in Nat
    BY <1>1, <2>3, LenProperties
  <2>6. ASSUME NEW i \in 1..len PROVE c[i] = ring[i]
    BY <2>4, <2>5
  <2>7. ASSUME NEW i \in 1..b PROVE c[len + i] = batch[i]
    <3>1. len + i \in 1..(len + b) /\ ~(len + i <= len) /\ len + i - len = i
      BY <2>5
    <3> QED
      BY <2>4, <3>1
  <2> QED
    BY <2>2, <2>4, <2>5, <2>6, <2>7
<1>3. /\ L = IF len + b > MaxEntries THEN MaxEntries ELSE len + b
      /\ \A i \in 1..L : ring'[i] = c[i + s]
  <2> HIDE DEF c
  <2>1. ring' = Newest(c)
    BY DEF c
  <2>2. /\ L = IF Len(c) > MaxEntries THEN MaxEntries ELSE Len(c)
        /\ \A i \in 1..L : ring'[i] = c[i + (Len(c) - L)]
    <3>1. PICK T : c \in Seq(T)
      BY <1>2
    <3>2. /\ Len(Newest(c)) = IF Len(c) > MaxEntries THEN MaxEntries ELSE Len(c)
          /\ \A i \in 1..Len(Newest(c)) : Newest(c)[i] = c[i + (Len(c) - Len(Newest(c)))]
      BY ONLY <3>1, NewestEnd
    <3> QED
      BY <2>1, <3>2
  <2> QED
    BY <1>2, <2>2
<1>4. /\ L \in Nat /\ s \in Nat /\ L >= b /\ (s > 0 => L = MaxEntries)
      /\ Debounce \in Nat \ {0} /\ MaxEntries \in Nat
  <2>1. Debounce \in Nat \ {0} /\ MaxEntries \in Nat
    BY HistorianAssumption
  <2>2. len \in Nat /\ b \in {1, 2}
    BY <1>1, <1>2
  <2>3. L = IF len + b > MaxEntries THEN MaxEntries ELSE len + b
    BY <1>3
  <2> HIDE DEF L, len, b
  <2>4. s = len + b - L
    OBVIOUS
  <2> HIDE DEF s
  <2> QED
    BY <2>1, <2>2, <2>3, <2>4
<1>5. PICK at \in [1..n -> 1..len] :
        /\ \A i, j \in 1..n : i < j => at[j] < at[i]
        /\ \A i \in 1..n : ring[at[i]].variable = Watched
        /\ \A q \in 1..len :
             ring[q].variable = Watched /\ (\E i \in 1..n : at[i] <= q) => ring[q].breached
        /\ \A i \in 1..n : at[i] > len - 2 * i
  BY DEF NearBreaches
<1> DEFINE new == [i \in 1..m |-> IF i = 1 THEN L - b + 1 ELSE at[i - 1] - s]
<1> HIDE DEF c, L, s, len, b
<1>6. s = len + b - L /\ c = ring \o batch
  BY DEF s, c
<1>7. ASSUME NEW i \in 1..m, i # 1
      PROVE  /\ i - 1 \in 1..n /\ at[i - 1] \in 1..len /\ at[i - 1] > len - 2 * (i - 1)
             /\ new[i] = at[i - 1] - s /\ new[i] \in 1..L /\ new[i] > L - 2 * i
             /\ new[i] < L - b + 1
  <2>1. i - 1 \in 1..n
    BY <1>7
  <2>2. at[i - 1] \in 1..len /\ at[i - 1] > len - 2 * (i - 1)
    BY <1>5, <2>1
  <2>3. new[i] = at[i - 1] - s
    BY <1>7
  <2>4. i <= Debounce /\ i \in Nat
    BY <1>4
  <2>5. PICK p : p = at[i - 1]
    OBVIOUS
  <2>6. p \in 1..len /\ p > len - 2 * (i - 1)
    BY <2>2, <2>5
  <2>7. /\ L - b = len - s /\ len \in Nat /\ L \in Nat /\ s \in Nat /\ b \in Nat /\ b <= 2
        /\ 2 * i <= MaxEntries /\ MaxEntries \in Nat /\ (s > 0 => L = MaxEntries)
    BY <1>1, <1>2, <1>4, <1>6, <2>4
  <2>8. p - s >= 1
    BY <2>4, <2>6, <2>7
  <2>9. p - s \in 1..L /\ p - s > L - 2 * i /\ p - s < L - b + 1
    BY <2>4, <2>6, <2>7, <2>8
  <2> QED
    BY <2>1, <2>2, <2>3, <2>5, <2>9
<1>8. m >= 1 => new[1] = L - b + 1 /\ new[1] \in 1..L /\ new[1] > L - 2 * 1
  BY <1>1, <1>4
<1> HIDE DEF new
<1>9. new \in [1..m -> 1..L]
  <2>1. \A i \in 1..m : new[i] \in 1..L
    BY <1>7, <1>8
  <2> QED
    BY <2>1 DEF new
<1>10. ASSUME NEW i \in 1..m, NEW j \in 1..m, i < j
       PROVE  new[j] < new[i]
  <2>1. j # 1
    BY <1>10
  <2>2. CASE i = 1
    BY <1>7, <1>8, <2>1, <2>2
  <2>3. CASE i # 1
    <3>1. at[j - 1] < at[i - 1]
      BY <1>5, <1>7, <1>10, <2>1, <2>3
    <3>2. PICK p, r : p = at[j - 1] /\ r = at[i - 1]
      OBVIOUS
    <3>3. p \in 1..len /\ r \in 1..len /\ new[j] = p - s /\ new[i] = r - s
      BY <1>7, <2>1, <2>3, <3>2
    <3>4. p < r
      BY <3>1, <3>2
    <3> QED
      BY <1>2, <1>4, <3>3, <3>4
  <2> QED
    BY <2>2, <2>3
<1>11. ASSUME NEW i \in 1..m
       PROVE  ring'[new[i]].variable = Watched
  <2>1. CASE i = 1
    <3>1. new[1] + s = len + 1 /\ new[1] \in 1..L
      BY <1>1, <1>2, <1>4, <1>6, <1>8, <2>1
    <3>2. ring'[new[1]] = c[new[1] + s]
      BY <1>3, <3>1
    <3>3. c[len + 1] = batch[1]
      BY <1>1, <1>2
    <3> QED
      BY <1>1, <2>1, <3>1, <3>2, <3>3
  <2>2. CASE i # 1
    <3>1. new[i] + s = at[i - 1] /\ at[i - 1] \in 1..len /\ i - 1 \in 1..n /\ new[i] \in 1..L
      BY <1>2, <1>4, <1>7, <2>2
    <3>2. ring'[new[i]] = c[new[i] + s]
      BY <1>3, <3>1
    <3>3. c[at[i - 1]] = ring[at[i - 1]]
      BY <1>2, <3>1
    <3> QED
      BY <1>5, <3>1, <3>2, <3>3
  <2> QED
    BY <2>1, <2>2
<1>12. ASSUME NEW q \in 1..L, ring'[q].variable = Watched, NEW i \in 1..m, new[i] <= q
       PROVE  ring'[q].breached
  <2>1. ring'[q] = c[q + s] /\ q + s \in 1..(len + b)
    <3>1. ring'[q] = c[q + s]
      BY <1>3
    <3>2. q + s \in 1..(len + b)
      <4>1. L + s = len + b /\ L \in Nat /\ s \in Nat /\ len \in Nat /\ b \in Nat
        BY <1>1, <1>2, <1>4, <1>6
      <4> QED
        BY <4>1
    <3> QED
      BY <3>1, <3>2
  <2>2. CASE q + s > len
    <3>1. PICK k \in 1..b : q + s = len + k
      <4>1. q + s - len \in 1..b
        BY <1>1, <1>2, <1>4, <2>1, <2>2
      <4> QED
        BY <1>2, <1>4, <2>1, <4>1
    <3>2. ring'[q] = batch[k]
      BY <1>2, <2>1, <3>1
    <3>3. k = 1
      BY <1>1, <1>12, <3>1, <3>2
    <3> QED
      BY <1>1, <3>2, <3>3
  <2>3. CASE ~(q + s > len)
    <3>1. q + s \in 1..len
      BY <1>1, <1>2, <1>4, <2>1, <2>3
    <3>2. ring'[q] = ring[q + s]
      BY <1>2, <2>1, <3>1
    <3>3. i # 1
      <4>1. L + s = len + b /\ L \in Nat /\ s \in Nat /\ len \in Nat /\ b \in Nat
        BY <1>1, <1>2, <1>4, <1>6
      <4>2. new[1] = L - b + 1 => ~(new[1] <= q)
        BY <2>3, <4>1
      <4> QED
        BY <1>8, <1>12, <4>2
    <3>4. i - 1 \in 1..n /\ at[i - 1] <= q + s
      BY <1>2, <1>4, <1>7, <1>12, <3>3
    <3> QED
      BY <1>5, <1>12, <3>1, <3>2, <3>4
  <2> QED
    BY <2>2, <2>3
<1>13. \A i \in 1..m : new[i] > L - 2 * i
  BY <1>7, <1>8
<1> QED
  BY <1>9, <1>10, <1>11, <1>12, <1>13 DEF NearBreaches, L

\* No series: nothing to find, in any ring.
LEMMA NoSeries ==
  /\ Counted = 0 => NearBreaches(Counted)
  /\ Counted' = 0 => NearBreaches(Counted)'
<1>1. 1..0 = {}
  OBVIOUS
<1>2. [i \in {} |-> 0] \in [1..0 -> 1..Len(ring)]
      /\ [i \in {} |-> 0] \in [1..0 -> 1..Len(ring')]
  BY <1>1
<1>3. Counted = 0 => NearBreaches(Counted)
  BY <1>1, <1>2 DEF NearBreaches
<1>4. Counted' = 0 => NearBreaches(Counted)'
  BY <1>1, <1>2 DEF NearBreaches
<1> QED
  BY <1>3, <1>4

\* What the sampler and the clock do to a series of breaches.
LEMMA AlertCapture ==
  ASSUME 2 * Debounce <= MaxEntries, AlertInv, NEW batch \in Batches, Capture(batch), HistInv'
  PROVE  AlertInv'
<1>1. PICK S : ring \in Seq(S)
  BY DEF AlertInv
<1>2. moment \in 0..MaxMoment /\ Debounce \in Nat \ {0}
  BY HistorianAssumption DEF AlertInv, HistInv
<1>3. CASE batch = <<>>
  BY <1>3 DEF Capture, AlertInv, NearBreaches, Counted
<1>4. CASE batch # <<>>
  <2>1. ring' = Newest(ring \o batch) /\ tracker' = Evaluated(batch)
    BY <1>4 DEF Capture
  <2>2. \E T : ring' \in Seq(T)
    <3>1. PICK T : T = S \cup Sample
      OBVIOUS
    <3>2. ring \in Seq(T) /\ batch \in Seq(T)
      BY <1>1, <1>2, <3>1, BatchType, SeqMonotonic
    <3>3. ring \o batch \in Seq(T)
      BY <3>2, ConcatProperties
    <3> QED
      BY <2>1, <3>3, NewestEnd
  <2>3. CASE Breached(batch)
    <3>1. /\ tracker'.consecutive = tracker.consecutive + 1 /\ tracker'.active \in BOOLEAN
          /\ tracker'.active => tracker.active \/ tracker.consecutive + 1 >= Debounce
      BY <2>1, <2>3 DEF Evaluated, AlertInv
    <3>2. /\ tracker.consecutive \in Nat /\ NearBreaches(Counted)
          /\ tracker.active => tracker.consecutive >= Debounce
      BY DEF AlertInv
    <3>3. /\ Counted \in Nat /\ Counted' \in 0..(Counted + 1) /\ Counted' <= Debounce
          /\ tracker'.active => tracker'.consecutive >= Debounce
      BY <1>2, <3>1, <3>2 DEF Counted
    <3>4. PICK n, m : n = Counted /\ m = Counted'
      OBVIOUS
    <3>5. NearBreaches(m)'
      BY <1>1, <1>2, <2>1, <2>3, <3>2, <3>3, <3>4, SeriesGrows
    <3>6. NearBreaches(Counted)'
      BY <3>4, <3>5 DEF NearBreaches
    <3> QED
      BY <2>2, <3>1, <3>2, <3>3, <3>6 DEF AlertInv
  <2>4. CASE ~Breached(batch)
    <3>1. tracker'.active = FALSE /\ tracker'.consecutive = 0
      BY <2>1, <2>4 DEF Evaluated, Quiet
    <3>2. Counted' = 0
      BY <1>2, <3>1 DEF Counted
    <3>3. tracker'.active \in BOOLEAN /\ tracker'.consecutive \in Nat /\ ~tracker'.active
      <4>1. tracker'.active \in BOOLEAN /\ ~tracker'.active
        BY <3>1, Zenon
      <4>2. tracker'.consecutive \in Nat
        BY <3>1
      <4> QED
        BY <4>1, <4>2
    <3>4. NearBreaches(Counted)'
      BY <3>2, NoSeries
    <3> QED
      BY <2>2, <3>3, <3>4 DEF AlertInv
  <2> QED
    BY <2>3, <2>4
<1> QED
  BY <1>3, <1>4

LEMMA AlertOthers ==
  ASSUME AlertInv, HistInv', \/ Relaunched \/ Pass \/ SetBack \/ UNCHANGED histVars
         \/ \E batch \in Batches, whole \in 0..1, tail \in {"end", "part", "open"} :
              Broken(batch, whole, tail)
  PROVE  AlertInv'
<1>1. CASE Relaunched
  <2>1. ring' = Newest(Parsed) /\ tracker' = Quiet
    BY <1>1 DEF Relaunched
  <2>2. \E S : ring' \in Seq(S)
    <3> DEFINE k == Cardinality(Parsing)
               S == {Parsed[i] : i \in 1..k}
    <3>1. Len(lines) \in Nat
      BY LenProperties DEF AlertInv, HistInv
    <3>2. IsFiniteSet(Parsing)
      <4>1. IsFiniteSet(1..Len(lines)) /\ Parsing \subseteq 1..Len(lines)
        BY <3>1, FS_Interval DEF Parsing
      <4> QED
        BY <4>1, FS_Subset
    <3>3. k \in Nat
      BY <3>2, FS_CardinalityType
    <3>4. Parsed \in [1..k -> S]
      BY DEF Parsed
    <3>5. Parsed \in Seq(S)
      BY <3>3, <3>4, SeqDef
    <3> QED
      BY <2>1, <3>5, NewestEnd
  <2>3. tracker'.active = FALSE /\ tracker'.consecutive = 0
    BY <2>1 DEF Quiet
  <2>4. Counted' = 0
    BY <2>3, HistorianAssumption DEF Counted
  <2>5. tracker'.active \in BOOLEAN /\ tracker'.consecutive \in Nat /\ ~tracker'.active
    <3>1. tracker'.active \in BOOLEAN /\ ~tracker'.active
      BY <2>3, Zenon
    <3>2. tracker'.consecutive \in Nat
      BY <2>3
    <3> QED
      BY <3>1, <3>2
  <2>6. NearBreaches(Counted)'
    BY <2>4, NoSeries
  <2> QED
    BY <2>2, <2>5, <2>6 DEF AlertInv
<1>2. CASE UNCHANGED <<ring, tracker>>
  BY <1>2 DEF AlertInv, NearBreaches, Counted
<1> QED
  BY <1>1, <1>2 DEF Pass, SetBack, histVars, Broken

\* historian.rs: an alert that is shown can be explained from the history, for
\* every debounce and every ring that holds so many samples of the variable and
\* of the other one, and whatever captures failed or were lost before.
THEOREM AlertsAreAlwaysExplained ==
  ASSUME 2 * Debounce <= MaxEntries
  PROVE  HistorianSpec => []AlertExplained
<1>1. HistorianInit => AlertInv
  <2> SUFFICES ASSUME HistorianInit PROVE AlertInv
    OBVIOUS
  <2>1. tracker.active = FALSE /\ tracker.consecutive = 0
    BY DEF HistorianInit, Quiet
  <2>2. Counted = 0
    BY <2>1, HistorianAssumption DEF Counted
  <2>3. NearBreaches(Counted)
    BY <2>2, NoSeries
  <2>4. tracker.active \in BOOLEAN /\ tracker.consecutive \in Nat /\ ~tracker.active
    <3>1. tracker.active \in BOOLEAN /\ ~tracker.active
      BY <2>1, Zenon
    <3>2. tracker.consecutive \in Nat
      BY <2>1
    <3> QED
      BY <3>1, <3>2
  <2>5. \E S : ring \in Seq(S)
    BY EmptySeq DEF HistorianInit
  <2> QED
    BY <2>3, <2>4, <2>5, HistStart DEF AlertInv
<1>2. AlertInv /\ [HistorianNext]_histVars => AlertInv'
  <2> SUFFICES ASSUME AlertInv, [HistorianNext]_histVars PROVE AlertInv'
    OBVIOUS
  <2>1. HistInv'
    BY HistStep DEF AlertInv
  <2> QED
    BY <2>1, AlertCapture, AlertOthers DEF HistorianNext
<1>3. AlertInv => AlertExplained
  <2> SUFFICES ASSUME AlertInv, tracker.active PROVE Breaches(Debounce)
    BY DEF AlertExplained
  <2>1. Counted = Debounce
    BY HistorianAssumption DEF AlertInv, Counted
  <2> QED
    BY <2>1 DEF AlertInv, NearBreaches, Breaches
<1> QED
  BY <1>1, <1>2, <1>3, PTL DEF HistorianSpec

-----------------------------------------------------------------------------
(***************************************************************************)
(* Simulation.  Of the trace of a coupling a first part has been applied;  *)
(* the queue holds exactly the changes in the rest, so no change is lost   *)
(* and none is applied twice, and what changed is all there is to apply.   *)
(***************************************************************************)
IsChange(c, i) == i = 1 \/ trace[c][i].value # trace[c][i - 1].value

DueAt(c, i) == trace[c][i].at + Delay[c]

TraceEntry == [at : Nat, value : {0, 1}]

SimShape ==
  /\ simClock \in Nat /\ cursor \in 0..Len(Disturbances)
  /\ simAt \in {"pre", "cycle", "post", "sleep", "faulted"}
  /\ output \in [Couplings -> Int] /\ trace \in [Couplings -> Seq(TraceEntry)]
  /\ \A e \in pending : e.due \in Nat /\ e.target \in Couplings

\* Of one coupling no two effects are due at the same time.
OneAtATime ==
  \A e, f \in pending : e.target = f.target /\ e.due = f.due => e = f

\* The samples of a trace are of different cycles, the current one not included
\* before its end.
InTime(c) ==
  /\ \A i \in 1..Len(trace[c]) :
       trace[c][i].at < simClock \/ (trace[c][i].at = simClock /\ simAt = "sleep")
  /\ \A i, j \in 1..Len(trace[c]) : i < j => trace[c][i].at < trace[c][j].at

\* Where nothing changes the value stays.
Constant(c) ==
  \A i, j \in 1..Len(trace[c]) :
    i < j /\ (\A k \in (i + 1)..j : ~IsChange(c, k)) => trace[c][j].value = trace[c][i].value

LastIs(c) ==
  lastValue[c] = IF Len(trace[c]) = 0 THEN Unset ELSE trace[c][Len(trace[c])].value

\* The effect e is that of sample i of coupling c.
Carries(e, c, i) ==
  e.target = c /\ e.due = DueAt(c, i) /\ e.value = trace[c][i].value

\* The first a samples of coupling c have been applied.
Applied(c, a) ==
  /\ a \in 0..Len(trace[c])
  /\ \A i \in 1..a : DueAt(c, i) <= simClock
  /\ simAt = "cycle" => \A i \in (a + 1)..Len(trace[c]) : DueAt(c, i) > simClock
  /\ ~Disturbed(c) /\ a > 0 => input[c] = trace[c][a].value
  /\ \A e \in pending :
       e.target = c => \E i \in (a + 1)..Len(trace[c]) : IsChange(c, i) /\ Carries(e, c, i)
  /\ \A i \in (a + 1)..Len(trace[c]) : IsChange(c, i) => \E e \in pending : Carries(e, c, i)

CouplingInv(c) ==
  InTime(c) /\ Constant(c) /\ LastIs(c) /\ \E a \in 0..Len(trace[c]) : Applied(c, a)

SimInv == SimShape /\ OneAtATime /\ \A c \in Couplings : CouplingInv(c)

\* A set of numbers with a bound has a last one.
LEMMA LastOfNumbers ==
  ASSUME NEW n \in Nat, NEW S \in SUBSET (1..n), S # {}
  PROVE  Max(S) \in S /\ \A i \in S : i <= Max(S)
<1> DEFINE T == {n - i : i \in S}
<1>1. T \subseteq Nat /\ T # {}
  <2>1. \A i \in S : i \in Nat /\ n - i \in Nat
    OBVIOUS
  <2> QED
    BY <2>1
<1>2. PICK x \in T : \A y \in T : ~(<<y, x>> \in OpToRel(<, Nat))
  BY <1>1, WFMin, NatLessThanWellFounded
<1>3. \A y \in T : ~(y < x)
  BY <1>1, <1>2 DEF OpToRel
<1>4. PICK m \in S : x = n - m
  BY <1>2
<1>5. \A i \in S : m >= i
  <2> TAKE i \in S
  <2>1. ~(n - i < n - m)
    BY <1>3, <1>4
  <2> QED
    BY <2>1
<1>6. Max(S) \in S /\ \A i \in S : Max(S) >= i
  BY <1>5 DEF Max
<1>7. \A i \in S : i \in Nat
  <2> HIDE DEF T
  <2> QED
    OBVIOUS
<1> QED
  BY <1>6, <1>7

\* The samples of a trace and when they are due.
LEMMA TraceType ==
  ASSUME SimShape, NEW c \in Couplings
  PROVE  /\ Len(trace[c]) \in Nat /\ Delay[c] \in Nat /\ trace[c] \in Seq(TraceEntry)
         /\ \A i \in 1..Len(trace[c]) :
              trace[c][i].at \in Nat /\ trace[c][i].value \in {0, 1} /\ DueAt(c, i) \in Nat
<1>1. trace[c] \in Seq(TraceEntry) /\ Delay[c] \in Nat
  BY SimulationAssumption DEF SimShape
<1>2. Len(trace[c]) \in Nat /\ \A i \in 1..Len(trace[c]) : trace[c][i] \in TraceEntry
  BY <1>1, LenProperties
<1> QED
  BY <1>1, <1>2 DEF TraceEntry, DueAt

\* A later sample is due later.
LEMMA DueGrows ==
  ASSUME SimShape, NEW c \in Couplings, InTime(c),
         NEW i \in 1..Len(trace[c]), NEW j \in 1..Len(trace[c]), i < j
  PROVE  DueAt(c, i) < DueAt(c, j)
<1>1. trace[c][i].at \in Nat /\ trace[c][j].at \in Nat
  BY TraceType
<1>2. trace[c][i].at < trace[c][j].at
  BY DEF InTime
<1>3. Delay[c] \in Nat
  BY SimulationAssumption
<1> QED
  BY <1>1, <1>2, <1>3 DEF DueAt

\* The queue is sorted by due time: what is due is all at the front.
LEMMA DueInFront ==
  ASSUME SimShape
  PROVE  DueEffects = {e \in pending : e.due <= simClock}
<1>1. ASSUME NEW e \in pending, NEW f \in pending, Before(f, e), e.due <= simClock
      PROVE  f.due <= simClock
  BY <1>1 DEF SimShape, Before
<1>2. \A e \in pending :
        (\A f \in pending : f = e \/ Before(f, e) => f.due <= simClock) <=> e.due <= simClock
  BY <1>1
<1> QED
  BY <1>2 DEF DueEffects

\* Of the samples that have come due since, the last change is written last.
LEMMA LastChangeWins ==
  ASSUME SimShape, OneAtATime, NEW c \in Couplings, InTime(c), Constant(c),
         NEW a, Applied(c, a), NEW b \in a..Len(trace[c]), b > 0,
         \A i \in 1..b : DueAt(c, i) <= simClock,
         \A i \in (b + 1)..Len(trace[c]) : DueAt(c, i) > simClock,
         NEW image, a > 0 => image[c] = trace[c][a].value
  PROVE  Written(image, DueEffects)[c] = trace[c][b].value
<1> DEFINE mine == {e \in DueEffects : e.target = c}
           J == {i \in (a + 1)..b : IsChange(c, i)}
           last == CHOOSE e \in mine : \A f \in mine : f = e \/ Before(f, e)
<1>1. /\ a \in Nat /\ b \in Nat /\ a <= b /\ b <= Len(trace[c]) /\ Len(trace[c]) \in Nat
      /\ simClock \in Nat
  BY TraceType DEF Applied, SimShape
<1>2. DueEffects = {e \in pending : e.due <= simClock}
  BY DueInFront
<1>3. Written(image, DueEffects)[c] = IF mine = {} THEN image[c] ELSE last.value
  BY DEF Written
<1>4. \A e \in mine : e \in pending /\ \E i \in J : Carries(e, c, i)
  <2> TAKE e \in mine
  <2>1. e \in pending /\ e.target = c /\ e.due <= simClock
    BY <1>2
  <2>2. PICK i \in (a + 1)..Len(trace[c]) : IsChange(c, i) /\ Carries(e, c, i)
    BY <2>1 DEF Applied
  <2>3. ~(DueAt(c, i) > simClock)
    BY <1>1, <2>1, <2>2 DEF Carries, SimShape
  <2>4. i \in (a + 1)..b
    BY <1>1, <2>2, <2>3
  <2> QED
    BY <2>1, <2>2, <2>4
<1>5. \A i \in J : \E e \in mine : Carries(e, c, i)
  <2> TAKE i \in J
  <2>1. i \in (a + 1)..Len(trace[c]) /\ IsChange(c, i) /\ i \in 1..b
    BY <1>1
  <2>2. PICK e \in pending : Carries(e, c, i)
    BY <2>1 DEF Applied
  <2> QED
    BY <1>2, <2>1, <2>2 DEF Carries
<1>6. CASE J = {}
  <2>1. mine = {}
    BY <1>4, <1>6
  <2>2. a > 0
    <3>1. a = 0 => 1 \in J
      BY <1>1 DEF IsChange
    <3> QED
      BY <1>1, <1>6, <3>1
  <2>3. CASE a = b
    BY <1>3, <2>1, <2>2, <2>3
  <2>4. CASE a < b
    <3>1. \A k \in (a + 1)..b : ~IsChange(c, k)
      BY <1>6
    <3>2. a \in 1..Len(trace[c]) /\ b \in 1..Len(trace[c])
      BY <1>1, <2>2
    <3>3. trace[c][b].value = trace[c][a].value
      BY <2>4, <3>1, <3>2 DEF Constant
    <3> QED
      BY <1>3, <2>1, <2>2, <3>3
  <2> QED
    BY <1>1, <2>3, <2>4
<1>7. CASE J # {}
  <2>1. PICK m \in J : \A i \in J : i <= m
    <3>1. J \in SUBSET (1..Len(trace[c]))
      BY <1>1
    <3> HIDE DEF J
    <3> QED
      BY <1>1, <1>7, <3>1, LastOfNumbers
  <2>2. PICK e \in mine : Carries(e, c, m)
    BY <1>5, <2>1
  <2>3. /\ m \in 1..Len(trace[c]) /\ m \in Nat /\ m <= b
        /\ \A i \in J : i \in 1..Len(trace[c]) /\ i \in Nat
    BY <1>1, <2>1
  <2>4. \A f \in mine : f = e \/ f.due < e.due
    <3> TAKE f \in mine
    <3>1. PICK i \in J : Carries(f, c, i)
      BY <1>4
    <3>2. CASE i = m
      BY <1>4, <2>2, <3>1, <3>2 DEF Carries, OneAtATime
    <3>3. CASE i < m
      <4>1. DueAt(c, i) < DueAt(c, m)
        BY <2>3, <3>3, DueGrows
      <4> QED
        BY <2>2, <3>1, <4>1 DEF Carries
    <3>4. i = m \/ i < m
      <4>1. i <= m /\ i \in Nat /\ m \in Nat
        BY <2>1, <2>3
      <4> QED
        BY ONLY <4>1
    <3> QED
      BY ONLY <3>2, <3>3, <3>4
  <2>5. \A f \in mine : f.due \in Nat
    BY <1>4 DEF SimShape
  <2> HIDE DEF mine
  <2>6. \A f \in mine : f = e \/ Before(f, e)
    BY <2>4 DEF Before
  <2>7. last \in mine /\ \A f \in mine : f = last \/ Before(f, last)
    BY <2>2, <2>6
  <2> HIDE DEF last
  <2>8. last = e
    <3>1. last # e => last.due < e.due /\ e.due <= last.due
      BY <2>2, <2>4, <2>5, <2>7 DEF Before
    <3> QED
      BY <2>2, <2>5, <2>7, <3>1
  <2>9. Written(image, DueEffects)[c] = trace[c][m].value
    BY <1>3, <2>2, <2>8 DEF Carries
  <2>10. trace[c][b].value = trace[c][m].value
    <3>1. CASE m = b
      BY <3>1
    <3>2. CASE m < b
      <4>1. \A k \in (m + 1)..b : ~IsChange(c, k)
        <5> TAKE k \in (m + 1)..b
        <5>1. k \in (a + 1)..b /\ ~(k <= m)
          BY <1>1, <2>1, <2>3
        <5> QED
          BY <2>1, <5>1
      <4>2. b \in 1..Len(trace[c])
        BY <1>1
      <4> QED
        BY <2>3, <3>2, <4>1, <4>2 DEF Constant
    <3> QED
      BY <1>1, <2>3, <3>1, <3>2
  <2> QED
    BY <2>9, <2>10
<1> QED
  BY <1>6, <1>7

\* Programs find what has arrived.
LEMMA AppliedIsArrived ==
  ASSUME SimInv PROVE WiringIsDelayed
<1> SUFFICES ASSUME simAt = "cycle", NEW c \in Couplings, ~Disturbed(c), Arrived(c) # {}
             PROVE  input[c] = trace[c][Max(Arrived(c))].value
  BY DEF WiringIsDelayed
<1>1. PICK a \in 0..Len(trace[c]) : Applied(c, a)
  BY DEF SimInv, CouplingInv
<1>2. Len(trace[c]) \in Nat /\ a \in Nat /\ simClock \in Nat
  BY TraceType DEF SimInv, SimShape
<1>3. \A i \in 1..Len(trace[c]) : DueAt(c, i) <= simClock <=> i <= a
  <2> TAKE i \in 1..Len(trace[c])
  <2>1. CASE i <= a
    BY <1>1, <1>2, <2>1 DEF Applied
  <2>2. CASE i > a
    <3>1. i \in (a + 1)..Len(trace[c])
      BY <1>2, <2>2
    <3>2. DueAt(c, i) > simClock /\ DueAt(c, i) \in Nat
      BY <1>1, <3>1, TraceType DEF Applied, SimInv
    <3> QED
      BY <1>2, <2>2, <3>2
  <2> QED
    BY <1>2, <2>1, <2>2
<1>4. Arrived(c) = 1..a
  BY <1>2, <1>3 DEF Arrived, DueAt
<1>5. a \in 1..a /\ a > 0
  BY <1>2, <1>4
<1>6. Max(1..a) = a
  BY <1>2, <1>5 DEF Max
<1> QED
  BY <1>1, <1>4, <1>5, <1>6 DEF Applied

\* Nothing but the clock, the place in the loop, the outputs and the script moves.
LEMMA IdleKeeps ==
  ASSUME SimInv, simClock' \in Nat, simClock' >= simClock, cursor' \in cursor..Len(Disturbances),
         \/ simAt' \in {"pre", "post", "sleep", "faulted"}
         \/ simAt = "cycle" /\ simAt' = "cycle" /\ simClock' = simClock,
         simAt = "sleep" => simClock' > simClock \/ simAt' = "sleep",
         output' \in [Couplings -> Int],
         UNCHANGED <<pending, trace, lastValue>>,
         \A c \in Couplings : ~Disturbed(c)' => ~Disturbed(c) /\ input'[c] = input[c]
  PROVE  SimInv'
<1>1. SimShape' /\ OneAtATime'
  BY DEF SimInv, SimShape, OneAtATime
<1>2. ASSUME NEW c \in Couplings PROVE CouplingInv(c)'
  <2>1. InTime(c)'
    BY TraceType DEF SimInv, CouplingInv, InTime, SimShape
  <2>2. Constant(c)' /\ LastIs(c)'
    <3>1. Constant(c) /\ LastIs(c) /\ trace' = trace /\ lastValue' = lastValue
      BY DEF SimInv, CouplingInv
    <3>2. \A i : IsChange(c, i)' <=> IsChange(c, i)
      BY <3>1 DEF IsChange
    <3>3. LastIs(c)'
      BY <3>1 DEF LastIs
    <3>4. Constant(c)'
      BY <3>1, <3>2 DEF Constant
    <3> QED
      BY <3>3, <3>4
  <2>3. PICK a \in 0..Len(trace[c]) : Applied(c, a)
    BY DEF SimInv, CouplingInv
  <2>4. Applied(c, a)'
    <3>1. \A i \in 1..a : DueAt(c, i)' <= simClock'
      <4> TAKE i \in 1..a
      <4>1. DueAt(c, i) <= simClock /\ DueAt(c, i) \in Nat /\ simClock \in Nat
        BY <2>3, TraceType DEF Applied, SimInv, SimShape
      <4> QED
        BY <4>1 DEF DueAt
    <3>2. simAt' = "cycle" => \A i \in (a + 1)..Len(trace[c])' : DueAt(c, i)' > simClock'
      BY <2>3 DEF Applied, DueAt
    <3>3. ~Disturbed(c)' /\ a > 0 => input'[c] = trace'[c][a].value
      BY <2>3 DEF Applied
    <3> QED
      BY <2>3, <3>1, <3>2, <3>3 DEF Applied, IsChange, Carries, DueAt
  <2> QED
    BY <2>1, <2>2, <2>3, <2>4 DEF CouplingInv
<1> QED
  BY <1>1, <1>2 DEF SimInv

\* What the script says is what the file may hold.
LEMMA ScriptIs ==
  ASSUME NEW i \in 1..Len(Disturbances)
  PROVE  Disturbances[i].kind \in {"set", "fault"} /\ Disturbances[i].at \in Nat
<1>1. PICK S : S = [at : Nat, kind : {"set", "fault"}, target : Nat, value : {0, 1}]
  OBVIOUS
<1>2. Disturbances \in Seq(S)
  BY <1>1, SimulationAssumption
<1>3. Disturbances[i] \in S
  BY ONLY <1>2, i \in 1..Len(Disturbances), ElementOfSeq
<1> QED
  BY <1>1, <1>3

\* What the script has not written to stays.
LEMMA ScriptKeeps ==
  ASSUME SimInv, NEW n \in cursor..Len(Disturbances), cursor' >= n, cursor' \in Nat,
         NEW c \in Couplings, ~Disturbed(c)',
         \A i \in (cursor + 1)..n : Disturbances[i].kind # "fault"
  PROVE  ~Disturbed(c) /\ Scripted(cursor + 1, n)[c] = input[c]
<1>1. cursor \in Nat /\ Len(Disturbances) \in Nat
  BY SimulationAssumption, LenProperties DEF SimInv, SimShape
<1>2. ~Disturbed(c)
  BY <1>1 DEF Disturbed
<1>3. \A i \in (cursor + 1)..n : Disturbances[i].target # c
  <2> TAKE i \in (cursor + 1)..n
  <2>1. i \in 1..cursor' /\ i \in 1..Len(Disturbances)
    BY <1>1
  <2>2. Disturbances[i].kind = "set"
    BY <2>1, ScriptIs
  <2> QED
    BY <2>1, <2>2 DEF Disturbed
<1> QED
  BY <1>2, <1>3 DEF Scripted

\* A fault in the script ends the call before any effect is written.
LEMMA FaultInv ==
  ASSUME SimInv, simAt = "pre", NEW f \in 1..Len(Disturbances),
         DueFault(f), \A i \in 1..(f - 1) : ~DueFault(i),
         cursor' = f, input' = Scripted(cursor + 1, f - 1), simAt' \in Recovery,
         UNCHANGED <<simClock, pending, output, lastValue, trace>>
  PROVE  SimInv'
<1>1. cursor \in Nat /\ Len(Disturbances) \in Nat /\ f > cursor /\ simClock \in Nat
  BY SimulationAssumption, LenProperties DEF SimInv, SimShape, DueFault, IsDue
<1>2. \A i \in (cursor + 1)..(f - 1) : Disturbances[i].kind # "fault"
  BY <1>1 DEF DueFault, IsDue
<1>3. ASSUME NEW c \in Couplings, ~Disturbed(c)'
      PROVE  ~Disturbed(c) /\ input'[c] = input[c]
  <2>1. PICK n : n = f - 1
    OBVIOUS
  <2>2. n \in cursor..Len(Disturbances) /\ cursor' >= n /\ cursor' \in Nat
    BY <1>1, <2>1
  <2> QED
    BY <1>2, <1>3, <2>1, <2>2, ScriptKeeps
<1>4. cursor' \in cursor..Len(Disturbances) /\ simClock' >= simClock
  BY <1>1
<1>5. simAt' \in {"pre", "sleep", "faulted"}
  BY DEF Recovery
<1> QED
  BY <1>1, <1>3, <1>4, <1>5, IdleKeeps DEF SimInv, SimShape

\* The samples that have come due are the first b of a trace.
LEMMA DuePart ==
  ASSUME SimInv, NEW c \in Couplings, NEW a, Applied(c, a)
  PROVE  \E b \in a..Len(trace[c]) :
           /\ \A i \in 1..b : DueAt(c, i) <= simClock
           /\ \A i \in (b + 1)..Len(trace[c]) : DueAt(c, i) > simClock
<1> DEFINE D == {i \in 1..Len(trace[c]) : DueAt(c, i) <= simClock}
<1>1. /\ Len(trace[c]) \in Nat /\ a \in Nat /\ a <= Len(trace[c]) /\ simClock \in Nat
      /\ \A i \in 1..Len(trace[c]) : DueAt(c, i) \in Nat
  BY TraceType DEF Applied, SimInv, SimShape
<1>2. \A i \in 1..a : i \in D
  BY <1>1 DEF Applied
<1>3. CASE D = {}
  <2>1. a = 0
    <3>1. a # 0 => a \in 1..a
      BY <1>1
    <3> QED
      BY <1>2, <1>3, <3>1
  <2>2. \A i \in 1..Len(trace[c]) : DueAt(c, i) > simClock
    BY <1>1, <1>3
  <2>3. a \in a..Len(trace[c]) /\ \A i \in 1..a : FALSE
    BY <1>1, <2>1
  <2>4. \A i \in (a + 1)..Len(trace[c]) : DueAt(c, i) > simClock
    BY <2>1, <2>2
  <2> QED
    BY <2>3, <2>4
<1>4. CASE D # {}
  <2>1. PICK b \in D : \A i \in D : i <= b
    <3>1. D \in SUBSET (1..Len(trace[c]))
      OBVIOUS
    <3> HIDE DEF D
    <3> QED
      BY <1>1, <1>4, <3>1, LastOfNumbers
  <2>2. b \in 1..Len(trace[c]) /\ b \in Nat /\ DueAt(c, b) <= simClock
    BY <1>1, <2>1
  <2>3. a <= b
    <3>1. a # 0 => a \in 1..a
      BY <1>1
    <3>2. a # 0 => a <= b
      BY <1>2, <2>1, <3>1
    <3> HIDE DEF D
    <3> QED
      BY <1>1, <2>2, <3>2
  <2>4. \A i \in 1..b : DueAt(c, i) <= simClock
    <3> TAKE i \in 1..b
    <3>1. i \in 1..Len(trace[c]) /\ (i = b \/ i < b)
      BY <1>1, <2>2
    <3>2. i < b => DueAt(c, i) < DueAt(c, b)
      BY <2>2, <3>1, DueGrows DEF SimInv, CouplingInv
    <3> HIDE DEF D
    <3> QED
      BY <1>1, <2>2, <3>1, <3>2
  <2>5. \A i \in (b + 1)..Len(trace[c]) : DueAt(c, i) > simClock
    <3> TAKE i \in (b + 1)..Len(trace[c])
    <3>1. i \in 1..Len(trace[c]) /\ ~(i <= b)
      BY <1>1, <2>2
    <3>2. ~(i \in D)
      BY <2>1, <3>1
    <3> QED
      BY <1>1, <3>1, <3>2
  <2>6. b \in a..Len(trace[c])
    BY <1>1, <2>2, <2>3
  <2> QED
    BY <2>4, <2>5, <2>6
<1> QED
  BY <1>3, <1>4

\* Without a fault the call writes the script and then the effects that are due.
LEMMA EffectsInv ==
  ASSUME SimInv, simAt = "pre", \A i \in 1..Len(Disturbances) : ~DueFault(i),
         cursor' \in cursor..Len(Disturbances),
         \A i \in 1..Len(Disturbances) : IsDue(i) <=> i \in (cursor + 1)..cursor',
         input' = Written(Scripted(cursor + 1, cursor'), DueEffects),
         pending' = pending \ DueEffects, simAt' = "cycle",
         UNCHANGED <<simClock, output, lastValue, trace>>
  PROVE  SimInv'
<1>1. SimShape' /\ OneAtATime'
  BY SimulationAssumption, LenProperties DEF SimInv, SimShape, OneAtATime
<1>2. DueEffects = {e \in pending : e.due <= simClock}
  BY DueInFront DEF SimInv
<1>3. \A i \in (cursor + 1)..cursor' : Disturbances[i].kind # "fault"
  <2> TAKE i \in (cursor + 1)..cursor'
  <2>1. i \in 1..Len(Disturbances)
    BY SimulationAssumption, LenProperties DEF SimInv, SimShape
  <2> QED
    BY <2>1 DEF DueFault
<1>4. ASSUME NEW c \in Couplings PROVE CouplingInv(c)'
  <2>1. InTime(c) /\ Constant(c) /\ LastIs(c) /\ SimShape /\ OneAtATime
    BY DEF SimInv, CouplingInv
  <2>2. (\A i : IsChange(c, i)' <=> IsChange(c, i)) /\ (\A i : DueAt(c, i)' = DueAt(c, i))
    BY DEF IsChange, DueAt
  <2>3. InTime(c)' /\ Constant(c)' /\ LastIs(c)'
    <3>1. InTime(c)'
      BY <2>1 DEF InTime
    <3>2. Constant(c)'
      BY <2>1, <2>2 DEF Constant
    <3>3. LastIs(c)'
      BY <2>1 DEF LastIs
    <3> QED
      BY <3>1, <3>2, <3>3
  <2>4. PICK a \in 0..Len(trace[c]) : Applied(c, a)
    BY DEF SimInv, CouplingInv
  <2>5. PICK b \in a..Len(trace[c]) :
          /\ \A i \in 1..b : DueAt(c, i) <= simClock
          /\ \A i \in (b + 1)..Len(trace[c]) : DueAt(c, i) > simClock
    BY <2>4, DuePart
  <2>6. /\ a \in Nat /\ b \in Nat /\ a <= b /\ b <= Len(trace[c]) /\ Len(trace[c]) \in Nat
        /\ simClock \in Nat
    BY <2>1, <2>4, <2>5, TraceType DEF SimShape
  <2>7. ~Disturbed(c)' /\ b > 0 => input'[c] = trace'[c][b].value
    <3> SUFFICES ASSUME ~Disturbed(c)', b > 0 PROVE input'[c] = trace[c][b].value
      OBVIOUS
    <3>1. cursor' \in Nat /\ cursor' >= cursor'
      BY <2>1, SimulationAssumption, LenProperties DEF SimShape
    <3>2. ~Disturbed(c) /\ Scripted(cursor + 1, cursor')[c] = input[c]
      BY <1>3, <3>1, ScriptKeeps
    <3>3. PICK image : image = Scripted(cursor + 1, cursor')
      OBVIOUS
    <3>4. a > 0 => image[c] = trace[c][a].value
      BY <2>4, <3>2, <3>3 DEF Applied
    <3>5. Written(image, DueEffects)[c] = trace[c][b].value
      BY <2>1, <2>4, <2>5, <3>4, LastChangeWins
    <3> QED
      BY <3>3, <3>5
  <2>8. \A e \in pending' : e.target = c =>
          \E i \in (b + 1)..Len(trace[c]) : IsChange(c, i) /\ Carries(e, c, i)
    <3> SUFFICES ASSUME NEW e \in pending', e.target = c
                 PROVE  \E i \in (b + 1)..Len(trace[c]) : IsChange(c, i) /\ Carries(e, c, i)
      OBVIOUS
    <3>1. e \in pending /\ ~(e.due <= simClock)
      BY <1>2
    <3>2. PICK i \in (a + 1)..Len(trace[c]) : IsChange(c, i) /\ Carries(e, c, i)
      BY <2>4, <3>1 DEF Applied
    <3>3. ~(i \in 1..b)
      BY <2>5, <3>1, <3>2 DEF Carries
    <3>4. i \in (b + 1)..Len(trace[c])
      BY <2>6, <3>3
    <3> QED
      BY <3>2, <3>4
  <2>9. \A i \in (b + 1)..Len(trace[c]) : IsChange(c, i) => \E e \in pending' : Carries(e, c, i)
    <3> SUFFICES ASSUME NEW i \in (b + 1)..Len(trace[c]), IsChange(c, i)
                 PROVE  \E e \in pending' : Carries(e, c, i)
      OBVIOUS
    <3>1. i \in (a + 1)..Len(trace[c])
      BY <2>6
    <3>2. PICK e \in pending : Carries(e, c, i)
      BY <2>4, <3>1 DEF Applied
    <3>3. e.due > simClock /\ e.due \in Nat
      BY <2>1, <2>5, <3>2 DEF Carries, SimShape
    <3>4. ~(e.due <= simClock)
      BY <2>6, <3>3
    <3> QED
      BY <1>2, <3>2, <3>4
  <2>10. Applied(c, b)'
    <3>1. (\A e, i : Carries(e, c, i)' <=> Carries(e, c, i)) /\ b \in 0..Len(trace[c])
      BY <2>2, <2>6 DEF Carries
    <3>2. \A i \in 1..b : DueAt(c, i)' <= simClock'
      BY <2>2, <2>5
    <3>3. \A i \in (b + 1)..Len(trace[c]) : DueAt(c, i)' > simClock'
      BY <2>2, <2>5
    <3>4. \A e \in pending' : e.target = c =>
            \E i \in (b + 1)..Len(trace[c]) : IsChange(c, i)' /\ Carries(e, c, i)'
      BY <2>2, <2>8, <3>1
    <3>5. \A i \in (b + 1)..Len(trace[c]) : IsChange(c, i)' => \E e \in pending' : Carries(e, c, i)'
      BY <2>2, <2>9, <3>1
    <3>6. trace' = trace
      OBVIOUS
    <3> QED
      BY <2>7, <3>1, <3>2, <3>3, <3>4, <3>5, <3>6 DEF Applied
  <2>11. b \in 0..Len(trace[c])' /\ trace' = trace
    BY <2>6
  <2> QED
    BY <2>3, <2>10, <2>11 DEF CouplingInv
<1> QED
  BY <1>1, <1>4 DEF SimInv

\* The trace of a coupling after the cycle.
LEMMA TraceGrows ==
  ASSUME SimInv, NEW c \in Couplings, NEW v \in {0, 1},
         trace'[c] = Append(trace[c], [at |-> simClock, value |-> v])
  PROVE  /\ trace'[c] \in Seq(TraceEntry) /\ Len(trace[c])' = Len(trace[c]) + 1
         /\ \A i \in 1..Len(trace[c]) : trace'[c][i] = trace[c][i]
         /\ trace'[c][Len(trace[c]) + 1] = [at |-> simClock, value |-> v]
<1>1. PICK e : e = [at |-> simClock, value |-> v]
  OBVIOUS
<1>2. trace[c] \in Seq(TraceEntry) /\ e \in TraceEntry
  BY <1>1 DEF SimInv, SimShape, TraceEntry
<1>3. PICK t : t = trace[c]
  OBVIOUS
<1>4. /\ Append(t, e) \in Seq(TraceEntry) /\ Len(Append(t, e)) = Len(t) + 1
      /\ \A i \in 1..Len(t) : Append(t, e)[i] = t[i]
      /\ Append(t, e)[Len(t) + 1] = e
  BY ONLY <1>2, <1>3, AppendProperties
<1>5. trace'[c] = Append(t, e)
  BY <1>1, <1>3
<1> QED
  BY <1>1, <1>3, <1>4, <1>5

\* After a cycle one sample is added, and an effect when it is a change.
LEMMA PostInv ==
  ASSUME SimInv, apply_post_cycle
  PROVE  SimInv'
<1> DEFINE v(c) == derive_coupling_value(c, output[c])
<1>1. /\ simAt = "post" /\ simAt' = "sleep" /\ simClock' = simClock /\ simClock \in Nat
      /\ output' = output /\ cursor' = cursor /\ input' = input
      /\ pending' = pending \cup {EffectOf(c) : c \in Changed}
  BY DEF apply_post_cycle, SimInv, SimShape
<1>2. \A c \in Couplings : v(c) \in {0, 1}
  BY DEF derive_coupling_value
<1>3. /\ DOMAIN trace' = Couplings /\ trace' = [c \in Couplings |-> trace'[c]]
      /\ \A c \in Couplings :
           /\ trace'[c] = Append(trace[c], [at |-> simClock, value |-> v(c)])
           /\ lastValue'[c] = v(c) /\ (c \in Changed <=> lastValue[c] # v(c))
  BY DEF apply_post_cycle, Changed
<1>4. \A c \in Changed : /\ c \in Couplings /\ EffectOf(c).target = c
                         /\ EffectOf(c).due = simClock + Delay[c] /\ EffectOf(c).value = v(c)
  BY DEF EffectOf, Changed
<1> HIDE DEF v
<1>5. \A c \in Couplings :
        /\ trace'[c] \in Seq(TraceEntry) /\ Len(trace[c])' = Len(trace[c]) + 1
        /\ \A i \in 1..Len(trace[c]) : trace'[c][i] = trace[c][i]
        /\ trace'[c][Len(trace[c]) + 1].at = simClock
        /\ trace'[c][Len(trace[c]) + 1].value = v(c)
  <2> TAKE c \in Couplings
  <2>1. PICK w \in {0, 1} : w = v(c)
    BY <1>2
  <2>2. trace'[c] = Append(trace[c], [at |-> simClock, value |-> w])
    BY <1>3, <2>1
  <2>3. /\ trace'[c] \in Seq(TraceEntry) /\ Len(trace[c])' = Len(trace[c]) + 1
        /\ \A i \in 1..Len(trace[c]) : trace'[c][i] = trace[c][i]
        /\ trace'[c][Len(trace[c]) + 1] = [at |-> simClock, value |-> w]
    BY <2>2, TraceGrows
  <2>4. /\ trace'[c][Len(trace[c]) + 1].at = simClock
        /\ trace'[c][Len(trace[c]) + 1].value = w
    BY <2>3
  <2> QED
    BY ONLY <2>1, <2>3, <2>4
<1>6. \A c \in Couplings : Len(trace[c]) \in Nat /\ Delay[c] \in Nat
  BY TraceType DEF SimInv
<1>7. SimShape'
  <2>1. trace' \in [Couplings -> Seq(TraceEntry)]
    BY <1>3, <1>5
  <2>2. \A e \in pending' : e.due \in Nat /\ e.target \in Couplings
    BY <1>1, <1>4, <1>6 DEF SimInv, SimShape
  <2> QED
    BY <1>1, <2>1, <2>2 DEF SimInv, SimShape
<1>8. ASSUME NEW e \in pending, NEW c \in Couplings, e.target = c
      PROVE  e.due < simClock + Delay[c]
  <2>1. PICK a \in 0..Len(trace[c]) : Applied(c, a)
    BY DEF SimInv, CouplingInv
  <2>2. PICK i \in (a + 1)..Len(trace[c]) : Carries(e, c, i)
    BY <1>8, <2>1 DEF Applied
  <2>3. i \in 1..Len(trace[c])
    BY <1>6, <2>1, <2>2
  <2>4. trace[c][i].at < simClock /\ trace[c][i].at \in Nat
    BY <1>1, <2>3, TraceType DEF SimInv, CouplingInv, InTime
  <2> QED
    BY <1>1, <1>6, <2>2, <2>4 DEF Carries, DueAt
<1>9. OneAtATime'
  <2> SUFFICES ASSUME NEW e \in pending', NEW f \in pending', e.target = f.target, e.due = f.due
               PROVE  e = f
    BY DEF OneAtATime
  <2>1. \A x \in pending' : x \in pending \/ \E c \in Changed : x = EffectOf(c)
    BY <1>1
  <2>2. ASSUME NEW x \in pending, NEW c \in Changed, x.target = c PROVE x.due # EffectOf(c).due
    <3>1. x.due < simClock + Delay[c] /\ x.due \in Nat /\ c \in Couplings
      BY <1>4, <1>8, <2>2 DEF SimInv, SimShape
    <3> QED
      BY <1>1, <1>4, <1>6, <3>1
  <2>3. CASE e \in pending /\ f \in pending
    BY <2>3 DEF SimInv, OneAtATime
  <2>4. CASE e \in pending /\ ~(f \in pending)
    BY <1>4, <2>1, <2>2, <2>4
  <2>5. CASE ~(e \in pending) /\ f \in pending
    BY <1>4, <2>1, <2>2, <2>5
  <2>6. CASE ~(e \in pending) /\ ~(f \in pending)
    BY <1>4, <2>1, <2>6
  <2> QED
    BY <2>3, <2>4, <2>5, <2>6
<1>10. ASSUME NEW c \in Couplings PROVE CouplingInv(c)'
  <2>1. PICK n : n = Len(trace[c])
    OBVIOUS
  <2>2. /\ n \in Nat /\ Len(trace[c])' = n + 1 /\ Delay[c] \in Nat
        /\ \A i \in 1..n : trace'[c][i] = trace[c][i]
        /\ trace'[c][n + 1].at = simClock /\ trace'[c][n + 1].value = v(c)
    <3>1. n \in Nat /\ Delay[c] \in Nat
      BY <1>6, <2>1
    <3> QED
      BY <1>5, <2>1, <3>1
  <2>3. InTime(c) /\ Constant(c) /\ LastIs(c)
    BY DEF SimInv, CouplingInv
  <2>4. PICK a \in 0..n : Applied(c, a)
    BY <2>1 DEF SimInv, CouplingInv
  <2>5. \A i \in 1..n : DueAt(c, i)' = DueAt(c, i) /\ (IsChange(c, i)' <=> IsChange(c, i))
    <3> TAKE i \in 1..n
    <3>1. i # 1 => i - 1 \in 1..n
      BY <2>2
    <3>2. trace'[c][i] = trace[c][i] /\ (i # 1 => trace'[c][i - 1] = trace[c][i - 1])
      BY <2>2, <3>1
    <3> QED
      BY <3>2 DEF DueAt, IsChange
  <2>6. DueAt(c, n + 1)' = simClock + Delay[c]
    BY <2>2 DEF DueAt
  <2>7. IsChange(c, n + 1)' <=> c \in Changed
    <3>1. c \in Changed <=> lastValue[c] # v(c)
      BY <1>3
    <3>2. CASE n = 0
      <4>1. lastValue[c] = Unset
        BY <2>1, <2>3, <3>2 DEF LastIs
      <4>2. IsChange(c, n + 1)'
        BY <3>2 DEF IsChange
      <4>3. v(c) # Unset
        BY <1>2 DEF Unset
      <4> QED
        BY <3>1, <4>1, <4>2, <4>3
    <3>3. CASE n # 0
      <4>1. n \in 1..n /\ n + 1 # 1 /\ n + 1 - 1 = n
        BY <2>2, <3>3
      <4>2. lastValue[c] = trace[c][n].value
        BY <2>1, <2>3, <3>3 DEF LastIs
      <4>3. trace'[c][n].value = trace[c][n].value
        BY <2>2, <4>1
      <4> QED
        BY <2>2, <3>1, <4>1, <4>2, <4>3 DEF IsChange
    <3> QED
      BY <3>2, <3>3
  <2>8. InTime(c)'
    <3>1. \A i \in 1..(n + 1) : i = n + 1 \/ i \in 1..n
      BY <2>2
    <3>2. \A i \in 1..n : trace[c][i].at < simClock
      BY <1>1, <2>1, <2>3 DEF InTime
    <3>3. \A i \in 1..(n + 1) :
            \/ trace'[c][i].at < simClock'
            \/ trace'[c][i].at = simClock' /\ simAt' = "sleep"
      BY <1>1, <2>2, <3>1, <3>2
    <3>4. \A i, j \in 1..(n + 1) : i < j => trace'[c][i].at < trace'[c][j].at
      <4> SUFFICES ASSUME NEW i \in 1..(n + 1), NEW j \in 1..(n + 1), i < j
                   PROVE  trace'[c][i].at < trace'[c][j].at
        OBVIOUS
      <4>1. i \in 1..n
        BY <2>2
      <4>2. CASE j = n + 1
        BY <2>2, <3>2, <4>1, <4>2
      <4>3. CASE j \in 1..n
        BY <2>1, <2>2, <2>3, <4>1, <4>3 DEF InTime
      <4> QED
        BY <3>1, <4>2, <4>3
    <3> QED
      BY <2>2, <3>3, <3>4 DEF InTime
  <2>9. Constant(c)'
    <3> SUFFICES ASSUME NEW i \in 1..(n + 1), NEW j \in 1..(n + 1), i < j,
                        \A k \in (i + 1)..j : ~IsChange(c, k)'
                 PROVE  trace'[c][j].value = trace'[c][i].value
      BY <2>2 DEF Constant
    <3>1. i \in 1..n
      BY <2>2
    <3>2. ASSUME NEW m \in i..n, \A k \in (i + 1)..m : ~IsChange(c, k)'
          PROVE  trace'[c][m].value = trace'[c][i].value
      <4>1. m \in 1..n /\ \A k \in (i + 1)..m : k \in 1..n
        BY <2>2, <3>1
      <4>2. \A k \in (i + 1)..m : ~IsChange(c, k)
        BY <2>5, <3>2, <4>1
      <4>3. i < m => trace[c][m].value = trace[c][i].value
        BY <2>1, <2>3, <3>1, <4>1, <4>2 DEF Constant
      <4> QED
        BY <2>2, <3>1, <4>1, <4>3
    <3>3. CASE j = n + 1
      <4>1. n + 1 \in (i + 1)..j /\ n \in i..n /\ n \in 1..n /\ n + 1 # 1 /\ n + 1 - 1 = n
            /\ \A k \in (i + 1)..n : k \in (i + 1)..j
        BY <2>2, <3>1, <3>3
      <4>2. ~IsChange(c, n + 1)'
        BY <4>1
      <4>3. trace'[c][n + 1].value = trace'[c][n].value
        BY <4>1, <4>2 DEF IsChange
      <4>4. trace'[c][n].value = trace'[c][i].value
        BY <3>2, <4>1
      <4> QED
        BY <3>3, <4>3, <4>4
    <3>4. CASE j # n + 1
      <4>1. j \in i..n
        BY <2>2, <3>1, <3>4
      <4> QED
        BY <3>2, <4>1
    <3> QED
      BY <3>3, <3>4
  <2>10. LastIs(c)'
    <3>1. lastValue'[c] = v(c)
      BY <1>3
    <3>2. n + 1 # 0
      BY <2>2
    <3> QED
      BY <2>2, <3>1, <3>2 DEF LastIs
  <2>11. a \in Nat /\ a <= n /\ \A i \in (a + 1)..(n + 1) :
                                  i = n + 1 \/ (i \in (a + 1)..n /\ i \in 1..n)
    BY <2>2, <2>4
  <2>12. /\ \A e : \A i \in 1..n : Carries(e, c, i)' <=> Carries(e, c, i)
         /\ \A e : c \in Changed /\ e = EffectOf(c) => Carries(e, c, n + 1)'
    <3>1. \A e : \A i \in 1..n : Carries(e, c, i)' <=> Carries(e, c, i)
      BY <2>2, <2>5 DEF Carries
    <3>2. SUFFICES ASSUME NEW e, c \in Changed, e = EffectOf(c)
                   PROVE  Carries(e, c, n + 1)'
      BY <3>1
    <3>3. e.target = c /\ e.due = simClock + Delay[c] /\ e.value = v(c)
      BY <1>4, <3>2
    <3> QED
      BY <2>2, <2>6, <3>3 DEF Carries
  <2>13. Applied(c, a)'
    <3>1. a \in 0..Len(trace[c])'
      BY <2>2, <2>11
    <3>2. \A i \in 1..a : DueAt(c, i)' <= simClock'
      <4> TAKE i \in 1..a
      <4>1. i \in 1..n
        BY <2>11, <2>2
      <4> QED
        BY <1>1, <2>4, <2>5, <4>1 DEF Applied
    <3>3. simAt' # "cycle"
      BY <1>1
    <3>4. ~Disturbed(c)' /\ a > 0 => input'[c] = trace'[c][a].value
      <4>1. a > 0 => a \in 1..n
        BY <2>2, <2>11
      <4>2. Disturbed(c)' <=> Disturbed(c)
        BY <1>1 DEF Disturbed
      <4> QED
        BY <1>1, <2>2, <2>4, <4>1, <4>2 DEF Applied
    <3>5. \A e \in pending' : e.target = c =>
            \E i \in (a + 1)..(n + 1) : IsChange(c, i)' /\ Carries(e, c, i)'
      <4> SUFFICES ASSUME NEW e \in pending', e.target = c
                   PROVE  \E i \in (a + 1)..(n + 1) : IsChange(c, i)' /\ Carries(e, c, i)'
        OBVIOUS
      <4>1. CASE e \in pending
        <5>1. PICK i \in (a + 1)..n : IsChange(c, i) /\ Carries(e, c, i)
          BY <2>1, <2>4, <4>1 DEF Applied
        <5>2. i \in (a + 1)..(n + 1) /\ i \in 1..n
          BY <2>2, <2>11
        <5> QED
          BY <2>5, <2>12, <5>1, <5>2
      <4>2. CASE ~(e \in pending)
        <5>1. c \in Changed /\ e = EffectOf(c)
          BY <1>1, <1>4, <4>2
        <5>2. n + 1 \in (a + 1)..(n + 1)
          BY <2>2, <2>11
        <5> QED
          BY <2>7, <2>12, <5>1, <5>2
      <4> QED
        BY <4>1, <4>2
    <3>6. \A i \in (a + 1)..(n + 1) : IsChange(c, i)' => \E e \in pending' : Carries(e, c, i)'
      <4> SUFFICES ASSUME NEW i \in (a + 1)..(n + 1), IsChange(c, i)'
                   PROVE  \E e \in pending' : Carries(e, c, i)'
        OBVIOUS
      <4>1. CASE i = n + 1
        <5>1. c \in Changed /\ EffectOf(c) \in pending'
          BY <1>1, <2>7, <4>1
        <5>2. PICK e \in pending' : e = EffectOf(c)
          BY <5>1
        <5> QED
          BY <2>12, <4>1, <5>1, <5>2
      <4>2. CASE i \in (a + 1)..n /\ i \in 1..n
        <5>1. PICK e \in pending : Carries(e, c, i)
          BY <2>1, <2>4, <2>5, <4>2 DEF Applied
        <5> QED
          BY <1>1, <2>12, <4>2, <5>1
      <4> QED
        BY <2>11, <4>1, <4>2
    <3> QED
      BY <2>2, <3>1, <3>2, <3>3, <3>4, <3>5, <3>6 DEF Applied
  <2>14. a \in 0..Len(trace[c])'
    BY <2>2, <2>11
  <2> QED
    BY <2>8, <2>9, <2>10, <2>13, <2>14 DEF CouplingInv
<1> QED
  BY <1>7, <1>9, <1>10 DEF SimInv

LEMMA SimStart == SimInit => SimInv
<1> SUFFICES ASSUME SimInit PROVE SimInv
  OBVIOUS
<1>1. SimShape /\ OneAtATime
  <2>1. output \in [Couplings -> Int]
    BY SimulationAssumption DEF SimInit
  <2>2. trace \in [Couplings -> Seq(TraceEntry)]
    BY EmptySeq DEF SimInit
  <2>3. cursor \in 0..Len(Disturbances)
    BY SimulationAssumption, LenProperties DEF SimInit
  <2> QED
    BY <2>1, <2>2, <2>3 DEF SimInit, SimShape, OneAtATime
<1>2. ASSUME NEW c \in Couplings PROVE CouplingInv(c)
  <2>1. Len(trace[c]) = 0 /\ trace[c] = <<>> /\ lastValue[c] = Unset /\ pending = {}
    BY EmptySeq DEF SimInit
  <2>2. InTime(c) /\ Constant(c) /\ LastIs(c)
    BY <2>1 DEF InTime, Constant, LastIs
  <2>3. Applied(c, 0)
    BY <2>1 DEF Applied
  <2> QED
    BY <2>1, <2>2, <2>3 DEF CouplingInv
<1> QED
  BY <1>1, <1>2 DEF SimInv

LEMMA SimStep == SimInv /\ [SimNext]_simVars => SimInv'
<1> SUFFICES ASSUME SimInv, [SimNext]_simVars PROVE SimInv'
  OBVIOUS
<1>1. simClock \in Nat /\ cursor \in cursor..Len(Disturbances)
  BY SimulationAssumption, LenProperties DEF SimInv, SimShape
<1>2. CASE apply_pre_cycle
  <2>1. simAt = "pre" /\ UNCHANGED <<simClock, output, sequence, lastValue, trace>>
    BY <1>2 DEF apply_pre_cycle
  <2>2. CASE \E f \in 1..Len(Disturbances) :
               /\ DueFault(f) /\ \A i \in 1..(f - 1) : ~DueFault(i)
               /\ cursor' = f /\ input' = Scripted(cursor + 1, f - 1)
               /\ simAt' \in Recovery /\ UNCHANGED pending
    BY <2>1, <2>2, FaultInv
  <2>3. CASE /\ \A i \in 1..Len(Disturbances) : ~DueFault(i)
             /\ cursor' \in cursor..Len(Disturbances)
             /\ \A i \in 1..Len(Disturbances) : IsDue(i) <=> i \in (cursor + 1)..cursor'
             /\ input' = Written(Scripted(cursor + 1, cursor'), DueEffects)
             /\ pending' = pending \ DueEffects /\ simAt' = "cycle"
    BY <2>1, <2>3, EffectsInv
  <2> QED
    BY <1>2, <2>2, <2>3 DEF apply_pre_cycle
<1>3. CASE SimCycle
  <2>1. output' \in [Couplings -> Int]
    BY <1>3, SimulationAssumption DEF SimCycle
  <2>2. simAt = "cycle" /\ simAt' \in {"pre", "post", "sleep", "faulted"}
    BY <1>3 DEF SimCycle, Recovery
  <2>3. /\ simClock' = simClock /\ cursor' = cursor
        /\ UNCHANGED <<pending, trace, lastValue, input>>
    BY <1>3 DEF SimCycle
  <2> QED
    BY <1>1, <2>1, <2>2, <2>3, IdleKeeps DEF Disturbed
<1>4. CASE apply_post_cycle
  BY <1>4, PostInv
<1>5. CASE SimSleep
  <2>1. simClock' \in Nat /\ simClock' > simClock
    BY <1>1, <1>5, SimulationAssumption DEF SimSleep
  <2>2. simAt' = "pre" /\ cursor' = cursor /\ UNCHANGED <<pending, trace, lastValue, input, output>>
    BY <1>5 DEF SimSleep
  <2> QED
    BY <1>1, <2>1, <2>2, IdleKeeps DEF Disturbed, SimInv, SimShape
<1>6. CASE UNCHANGED simVars
  <2>1. UNCHANGED <<simClock, simAt, output, input, cursor, pending, lastValue, trace>>
    BY <1>6 DEF simVars
  <2>2. output' \in [Couplings -> Int] /\ simAt \in {"pre", "cycle", "post", "sleep", "faulted"}
    BY <2>1 DEF SimInv, SimShape
  <2> QED
    BY <1>1, <2>1, <2>2, IdleKeeps DEF Disturbed
<1> QED
  BY <1>2, <1>3, <1>4, <1>5, <1>6 DEF SimNext

\* A coupling delays its source and does not reorder it: a program finds in the
\* input what the output meant one delay ago, for any couplings, delays and
\* scripts, and whatever faults come in between.
THEOREM WiringIsAlwaysDelayed == SimSpec => []WiringIsDelayed
<1> QED
  BY SimStart, SimStep, AppliedIsArrived, PTL DEF SimSpec
=============================================================================
