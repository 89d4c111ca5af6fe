------------------------------ MODULE IoDrivers ------------------------------
(***************************************************************************)
(* Two drivers that talk to devices over a network:                        *)
(* crates/trust-runtime/src/io/modbus.rs and io/mqtt.rs.                   *)
(*                                                                         *)
(* The scan calls a driver twice per cycle, to read inputs and to write    *)
(* outputs; both calls take the same path here.  A Modbus call is a        *)
(* request and its answer on a connection that lives over many cycles.  An *)
(* MQTT session has a thread of its own, which tells the driver through a  *)
(* flag and an error text, set one after the other, how it is.             *)
(***************************************************************************)
EXTENDS Naturals, Sequences

CONSTANTS
  Ids,          \* transaction ids, 2^16 in the code
  OnError,      \* on_error of the Modbus driver: "fault" or "warn"
  MaxOutages    \* bound: changes of the device and of the broker

ASSUME IoAssumption ==
  Ids \in Nat \ {0} /\ OnError \in {"fault", "warn"} /\ MaxOutages \in Nat

VARIABLES
  device,    \* "up", "down", or "ailing": answers may miss the timeout, be
             \* exceptions or be too short
  stream,    \* ModbusTcpDriver.stream: "none", "open", or "dead" (closed by the device)
  txid,      \* transaction_id
  waiting,   \* whether a call waits for an answer
  asked,     \* requests the device has not answered
  answers,   \* answers that have not been read
  accepted,  \* whether the last answer accepted was the answer of its call (history)
  mb_health, \* health of the Modbus driver
  broker,    \* whether the broker can be reached
  session,   \* MqttIoDriver.session, with what its thread shares
  due,       \* whether next_reconnect has passed
  mq_health, \* health of the MQTT driver
  outages    \* counter for the bound

mbVars == <<device, stream, txid, waiting, asked, answers, accepted, mb_health>>
mqVars == <<broker, session, due, mq_health>>
ioVars == <<mbVars, mqVars, outages>>

\* good: the registers that were asked for.  own: whether the message belongs to
\* the call that waits now (history).
Message   == [tx : 0..(Ids - 1), good : BOOLEAN, own : BOOLEAN]
NoSession == [worker |-> "none", connected |-> FALSE, error |-> FALSE]

IoTypeOK ==
  /\ device \in {"up", "ailing", "down"} /\ stream \in {"none", "open", "dead"}
  /\ txid \in 0..(Ids - 1) /\ waiting \in BOOLEAN
  /\ asked \in Seq(Message) /\ answers \in Seq(Message) /\ accepted \in BOOLEAN
  /\ mb_health \in {"ok", "degraded", "faulted"}
  /\ broker \in BOOLEAN /\ due \in BOOLEAN /\ mq_health \in {"ok", "degraded"}
  /\ session \in [worker : {"none", "runs", "fails", "ended"}, connected : BOOLEAN,
                  error : BOOLEAN]
  /\ outages \in 0..MaxOutages

IoInit ==
  /\ device = "up" /\ stream = "none" /\ txid = 1 % Ids /\ waiting = FALSE
  /\ asked = <<>> /\ answers = <<>> /\ accepted = TRUE /\ mb_health = "ok"
  /\ broker \in BOOLEAN /\ session = NoSession /\ due = TRUE /\ mq_health = "degraded"
  /\ outages = 0

-----------------------------------------------------------------------------
(***************************************************************************)
(* Modbus.                                                                 *)
(***************************************************************************)
\* Variant: the connection is kept for the next call.
handle_error_keeps ==
  /\ mb_health' = IF OnError = "fault" THEN "faulted" ELSE "degraded"
  /\ UNCHANGED <<stream, asked, answers>>

\* The connection goes, and what is on its way with it.
handle_error ==
  /\ mb_health' = IF OnError = "fault" THEN "faulted" ELSE "degraded"
  /\ stream' = "none" /\ asked' = <<>> /\ answers' = <<>>

NotOwn(messages) == [i \in 1..Len(messages) |-> [messages[i] EXCEPT !.own = FALSE]]

\* ensure_connected, next_transaction and the request.  (Two requests at most
\* are under way; the code never has more than one.)
SendRequest ==
  /\ ~waiting
  /\ stream = "open" \/ (stream = "none" /\ device # "down")
  /\ Len(asked) + Len(answers) < 3
  /\ stream' = "open" /\ waiting' = TRUE
  /\ mb_health' = IF stream = "none" THEN "ok" ELSE mb_health
  /\ txid' = (txid + 1) % Ids
  /\ asked' = Append(NotOwn(asked), [tx |-> txid, good |-> TRUE, own |-> TRUE])
  /\ answers' = NotOwn(answers)
  /\ UNCHANGED <<device, accepted, mqVars, outages>>

\* No connection, or one the device has closed.
SendFails ==
  /\ ~waiting
  /\ stream = "dead" \/ (stream = "none" /\ device = "down")
  /\ handle_error
  /\ txid' = IF stream = "dead" THEN (txid + 1) % Ids ELSE txid
  /\ UNCHANGED <<device, waiting, accepted, mqVars, outages>>

CurrentTx == (txid + Ids - 1) % Ids

\* send_request reads an answer: another transaction is an error, and so are
\* an exception and a short answer in read_registers and write_registers.
ReadAnswer ==
  /\ waiting /\ answers # <<>> /\ waiting' = FALSE
  /\ IF Head(answers).tx = CurrentTx /\ Head(answers).good
       THEN /\ accepted' = Head(answers).own /\ answers' = Tail(answers)
            /\ mb_health' = "ok"
            /\ UNCHANGED <<stream, asked>>
       ELSE handle_error /\ UNCHANGED accepted
  /\ UNCHANGED <<device, txid, mqVars, outages>>

\* The timeout of the stream, or the end of the connection.
ReadFails ==
  /\ waiting
  /\ device # "up" \/ stream = "dead"
  /\ waiting' = FALSE /\ handle_error
  /\ UNCHANGED <<device, txid, accepted, mqVars, outages>>

DeviceAnswers ==
  /\ device # "down" /\ stream = "open" /\ asked # <<>>
  /\ \E good \in (IF device = "up" THEN {TRUE} ELSE BOOLEAN) :
       answers' = Append(answers, [Head(asked) EXCEPT !.good = good])
  /\ asked' = Tail(asked)
  /\ UNCHANGED <<device, stream, txid, waiting, accepted, mb_health, mqVars, outages>>

\* A device that goes down closes the connection and forgets it.
DeviceChanges(d) ==
  /\ outages < MaxOutages /\ outages' = outages + 1
  /\ d # device /\ device' = d
  /\ IF d = "down" /\ stream = "open"
       THEN stream' = "dead" /\ asked' = <<>> /\ answers' = <<>>
       ELSE UNCHANGED <<stream, asked, answers>>
  /\ UNCHANGED <<txid, waiting, accepted, mb_health, mqVars>>

-----------------------------------------------------------------------------
(***************************************************************************)
(* MQTT: the thread of a session.                                          *)
(***************************************************************************)
MqttRest == UNCHANGED <<mbVars, broker, due, mq_health, outages>>

\* ConnAck, SubAck, a publish, or something sent.
WorkerHears ==
  /\ session.worker = "runs" /\ broker
  /\ session' = [session EXCEPT !.connected = TRUE]
  /\ MqttRest

\* The event loop yields an error, or ends.
WorkerFails ==
  /\ session.worker = "runs" /\ ~broker
  /\ session' = [session EXCEPT !.connected = FALSE, !.worker = "fails"]
  /\ MqttRest

WorkerEnds ==
  /\ session.worker = "fails"
  /\ session' = [session EXCEPT !.error = TRUE, !.worker = "ended"]
  /\ MqttRest

(***************************************************************************)
(* MQTT: the driver, called by the scan.                                   *)
(***************************************************************************)
\* ensure_session finds one that is connected, connecting, or failed too recently.
KeepSession ==
  /\ session # NoSession
  /\ session.connected \/ ~session.error \/ ~due
  /\ mq_health' = IF session.connected THEN "ok" ELSE "degraded"
  /\ UNCHANGED <<mbVars, broker, session, due, outages>>

\* A session that has failed is given up for a new one, or there was none.  The
\* call that creates it does not wait for the connection.
NewSession ==
  /\ session = NoSession \/ (~session.connected /\ session.error)
  /\ due
  /\ session' = [worker |-> "runs", connected |-> FALSE, error |-> FALSE]
  /\ mq_health' = "degraded"
  /\ UNCHANGED <<mbVars, broker, due, outages>>

\* The factory fails.
NoNewSession ==
  /\ session = NoSession \/ (~session.connected /\ session.error)
  /\ due /\ due' = FALSE
  /\ session' = NoSession /\ mq_health' = "degraded"
  /\ UNCHANGED <<mbVars, broker, outages>>

\* write_outputs: publish fails when the thread of the session has ended.
PublishFails ==
  /\ session.worker = "ended" /\ ~session.connected
  /\ session' = NoSession /\ due' = FALSE /\ mq_health' = "degraded"
  /\ UNCHANGED <<mbVars, broker, outages>>

ReconnectDue ==
  /\ ~due /\ due' = TRUE
  /\ UNCHANGED <<mbVars, broker, session, mq_health, outages>>

BrokerChanges ==
  /\ outages < MaxOutages /\ outages' = outages + 1
  /\ broker' = ~broker
  /\ UNCHANGED <<mbVars, session, due, mq_health>>

ModbusNext ==
  \/ SendRequest \/ SendFails \/ ReadAnswer \/ ReadFails \/ DeviceAnswers
  \/ \E d \in {"up", "ailing", "down"} : DeviceChanges(d)

MqttNext ==
  \/ WorkerHears \/ WorkerFails \/ WorkerEnds
  \/ KeepSession \/ NewSession \/ NoNewSession \/ PublishFails \/ ReconnectDue
  \/ BrokerChanges

IoNext == ModbusNext \/ MqttNext

\* The scan goes on, the device answers while it is up, the session's thread
\* runs, and not every attempt to create a session fails.
IoFairness ==
  /\ WF_ioVars(SendRequest) /\ WF_ioVars(SendFails) /\ WF_ioVars(ReadAnswer)
  /\ WF_ioVars(ReadFails) /\ WF_ioVars(DeviceAnswers)
  /\ WF_ioVars(WorkerHears) /\ WF_ioVars(WorkerFails) /\ WF_ioVars(WorkerEnds)
  /\ WF_ioVars(KeepSession) /\ SF_ioVars(NewSession) /\ WF_ioVars(ReconnectDue)

IoSpec == IoInit /\ [][IoNext]_ioVars
IoFairSpec == IoSpec /\ IoFairness

-----------------------------------------------------------------------------
(***************************************************************************)
(* Properties                                                              *)
(***************************************************************************)
\* The registers a call copies into the process image are the answer to that
\* call, although answers come late and transaction ids repeat.
AnswersBelong == accepted

\* Once the device is up for good the Modbus driver is healthy for good: it
\* gives up connections the device has closed.  Once the broker is up for good
\* the MQTT driver is connected for good, in whatever moment the session's
\* thread failed and whenever the driver looked at it.
DriversRecover ==
  /\ (<>[](device = "up")) => <>[](mb_health = "ok")
  /\ (<>[]broker) => <>[](mq_health = "ok")
=============================================================================
