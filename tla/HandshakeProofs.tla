--------------------------- MODULE HandshakeProofs ---------------------------
(***************************************************************************)
(* StreamBoundary of Handshake, for all sizes of messages, answers and of   *)
(* the buffer.                                                              *)
(*                                                                          *)
(* The inductive invariant accounts for every byte of the current answer:   *)
(* it is in the buffer, in the socket or with the server, and nothing of    *)
(* the application is in the socket before all of the answer is.            *)
(***************************************************************************)
EXTENDS Handshake, TLAPS

TypeOK ==
  /\ phase \in SendPhases \cup RecvPhases \cup {"FORWARDING", "FAILED"}
  /\ verdict \in {"none", "accept", "auth", "reject", "endless"}
  /\ {err, srvshut} \subseteq BOOLEAN
  /\ {size, srvgot, due, hsin, appin, appdue} \subseteq Nat

\* Nothing of an answer, or behind one, is anywhere.
Quiet == due = 0 /\ hsin = 0 /\ appin = 0 /\ appdue = 0

\* A message is being sent; the buffer is empty before the first write.
SendState ==
  /\ Quiet
  /\ srvgot + ToSend = MsgLen[phase]
  /\ size = 0 => srvgot = 0

\* The server has the message and has not answered.
Unanswered == size = 0 /\ Quiet /\ srvgot = MsgLen[Current]

\* The two bytes of an answer to the methods or the password.
ShortAnswer ==
  /\ srvgot = 0 /\ size + hsin + due = 2 /\ size < 2
  /\ appin = 0 /\ appdue = 0
  /\ verdict \in {"accept", "auth", "reject"}

\* The answer to the request, of which a whole one is never in the buffer.
AnswerLen == IF verdict = "endless" THEN Cap + 1 ELSE ReplyLen

ReplyAnswer ==
  /\ srvgot = 0 /\ size + hsin + due = AnswerLen
  /\ size < Cap /\ (verdict # "endless" => size < ReplyLen)
  /\ verdict \in {"accept", "reject", "endless"}
  /\ verdict # "accept" => appin = 0 /\ appdue = 0
  /\ due > 0 => appin = 0

Failure == srvshut \/ err \/ verdict \in {"reject", "endless"}

IInv ==
  /\ TypeOK /\ eaten = 0
  /\ phase \in SendPhases => SendState
  /\ phase \in {"RECV_METHOD", "RECV_AUTH"} => Unanswered \/ ShortAnswer
  /\ phase = "RECV_REPLY" => Unanswered \/ ReplyAnswer
  /\ phase = "FORWARDING" => verdict = "accept" /\ hsin = 0 /\ due = 0
  /\ phase \in {"FORWARDING", "FAILED"} => size = 0
  /\ phase = "FAILED" => Failure

------------------------------------------------------------------------------
(* Reading *)

\* What IInv needs of the constants and the types, for the arithmetic below.
LEMMA Numbers ==
  ASSUME SizesAssumption, IInv
  PROVE  /\ Cap \in Nat /\ AppLen \in Nat /\ ReplyLen \in Nat /\ ReplyLen > 0 /\ ReplyLen < Cap
         /\ \A m \in SendPhases : MsgLen[m] \in Nat /\ MsgLen[m] > 0 /\ MsgLen[m] <= Cap
         /\ size \in Nat /\ srvgot \in Nat /\ due \in Nat /\ hsin \in Nat
         /\ appin \in Nat /\ appdue \in Nat
BY DEF SizesAssumption, IInv, TypeOK

\* Reading bytes of the answer only: the application's stay where they are.
LEMMA TakeAnswer ==
  ASSUME NEW n \in Nat, hsin \in Nat, appin \in Nat, eaten = 0, n <= hsin, Take(n)
  PROVE  hsin' = hsin - n /\ appin' = appin /\ eaten' = 0
BY DEF Take, Pos

\* Once the handshake has failed for a reason, the rest of IInv asks for nothing.
LEMMA FailKeeps ==
  ASSUME IInv, Fail, Failure, {srvgot', due', hsin', appin', appdue'} \subseteq Nat, eaten' = 0,
         UNCHANGED <<err, verdict, srvshut>>
  PROVE  IInv'
BY DEF Fail, Failure, IInv, TypeOK, SendPhases, RecvPhases

\* handshake_output(): what the server gets and what is left make the message.
LEMMA OutputKeeps ==
  ASSUME SizesAssumption, IInv, handshake_output
  PROVE  IInv'
<1> USE DEF SendPhases, RecvPhases
<1>1. /\ phase \in SendPhases /\ SendState
      /\ UNCHANGED <<err, verdict, due, appdue, srvshut, hsin, appin, eaten>>
  BY DEF handshake_output, IInv, srvvars
<1>2. PICK n \in 0..ToSend :
        /\ size' = ToSend - n
        /\ srvgot' = srvgot + n
        /\ \/ n < ToSend /\ UNCHANGED <<phase, mask>>
           \/ n = ToSend /\ phase' = AfterSend(phase) /\ mask' = EventsAfterSend
  BY DEF handshake_output
<1>3. ToSend \in Nat /\ n \in Nat /\ n <= ToSend /\ srvgot \in Nat
  BY <1>1, <1>2, Numbers DEF ToSend
<1>4. CASE n < ToSend /\ UNCHANGED phase
  <2>1. size' > 0 /\ srvgot' + size' = MsgLen[phase]
    BY <1>1, <1>2, <1>3, <1>4, Numbers DEF SendState
  <2>2. SendState'
    BY <1>1, <1>4, <2>1 DEF SendState, ToSend, Quiet
  <2>3. TypeOK'
    BY <1>1, <1>2, <1>3, <1>4 DEF IInv, TypeOK
  <2> QED BY <1>1, <1>4, <2>2, <2>3 DEF IInv
<1>5. CASE n = ToSend /\ phase' = AfterSend(phase)
  <2>1. size' = 0 /\ srvgot' = MsgLen[phase]
    BY <1>1, <1>2, <1>3, <1>5, Numbers DEF SendState
  <2>2. Current' = phase /\ phase' \in RecvPhases
    BY <1>1, <1>5 DEF AfterSend, Current
  <2>3. Unanswered'
    BY <1>1, <2>1, <2>2 DEF Unanswered, SendState, Quiet
  <2>4. TypeOK'
    BY <1>1, <1>2, <1>3, <2>1, <2>2 DEF IInv, TypeOK
  <2> QED BY <1>1, <2>2, <2>3, <2>4 DEF IInv
<1> QED BY <1>2, <1>4, <1>5

\* RECV_METHOD and RECV_AUTH.
LEMMA InputKeeps ==
  ASSUME SizesAssumption, IInv, socks_handshake_input
  PROVE  IInv'
<1> USE DEF SendPhases, RecvPhases
<1>1. /\ phase \in {"RECV_METHOD", "RECV_AUTH"} /\ (Unanswered \/ ShortAnswer)
      /\ hsin > 0 \/ appin > 0 \/ srvshut
      /\ UNCHANGED <<err, srvgot, verdict, due, appdue, srvshut>>
  BY DEF socks_handshake_input, IInv, srvvars
<1>2. PICK n \in 0..(hsin + appin) :
       /\ n = 0 => hsin + appin = 0
       /\ Take(n)
       /\ CASE n = 0 \/ size + n > 2 -> Fail
            [] n > 0 /\ size + n < 2 ->
                 size' = size + n /\ UNCHANGED <<phase, mask>>
            [] OTHER ->
                 CASE verdict = "auth" -> NextSend("SEND_AUTH")
                   [] verdict = "accept" -> NextSend("SEND_REQUEST")
                   [] OTHER -> Fail
  BY DEF socks_handshake_input
<1>3. appin = 0 /\ hsin \in Nat /\ n \in Nat /\ n <= hsin
  BY <1>1, <1>2, Numbers DEF Unanswered, ShortAnswer, Quiet
<1>4. hsin' = hsin - n /\ appin' = appin /\ eaten' = 0
  BY <1>2, <1>3, TakeAnswer DEF IInv
<1>5. {srvgot', due', hsin', appin', appdue'} \subseteq Nat
  BY <1>1, <1>3, <1>4, Numbers
<1>6. CASE n = 0
  <2>1. srvshut
    BY <1>1, <1>2, <1>3, <1>6
  <2>2. Fail
    BY <1>2, <1>6
  <2> QED BY <1>1, <1>4, <1>5, <2>1, <2>2, FailKeeps DEF Failure
<1>7. CASE n > 0
  <2>1. ShortAnswer /\ size + n <= 2
    BY <1>1, <1>3, <1>7, Numbers DEF Unanswered, ShortAnswer, Quiet
  <2>2. CASE size + n < 2
    <3>1. size' = size + n /\ UNCHANGED phase
      BY <1>2, <1>3, <1>7, <2>2, Numbers
    <3>2. ShortAnswer'
      BY <1>1, <1>3, <1>4, <2>1, <2>2, <3>1, Numbers DEF ShortAnswer
    <3>3. TypeOK'
      BY <1>1, <1>3, <1>5, <3>1, Numbers DEF IInv, TypeOK
    <3> QED BY <1>1, <1>4, <3>1, <3>2, <3>3 DEF IInv
  <2>3. CASE size + n = 2
    <3>1. Quiet' /\ srvgot' = 0
      BY <1>1, <1>3, <1>4, <2>1, <2>3, Numbers DEF ShortAnswer, Quiet
    <3>2. \/ NextSend("SEND_AUTH") \/ NextSend("SEND_REQUEST")
          \/ Fail /\ verdict = "reject"
      BY <1>2, <1>3, <1>7, <2>1, <2>3, Numbers DEF ShortAnswer
    <3>3. CASE Fail /\ verdict = "reject"
      BY <1>1, <1>4, <1>5, <3>3, FailKeeps DEF Failure
    <3>4. CASE NextSend("SEND_AUTH") \/ NextSend("SEND_REQUEST")
      <4>1. phase' \in SendPhases /\ size' = 0
        BY <3>4 DEF NextSend
      <4>2. SendState'
        BY <3>1, <4>1, Numbers DEF SendState, ToSend
      <4>3. TypeOK'
        BY <1>1, <1>5, <4>1 DEF IInv, TypeOK
      <4> QED BY <1>4, <4>1, <4>2, <4>3 DEF IInv
    <3> QED BY <3>2, <3>3, <3>4
  <2> QED BY <1>3, <2>1, <2>2, <2>3, Numbers
<1> QED BY <1>3, <1>6, <1>7

\* RECV_REPLY: MSG_PEEK may show bytes of the application, and only bytes of the
\* answer are taken.
LEMMA ReplyKeeps ==
  ASSUME SizesAssumption, IInv, handshake_reply
  PROVE  IInv'
<1> USE DEF SendPhases, RecvPhases
<1>1. /\ phase = "RECV_REPLY" /\ (Unanswered \/ ReplyAnswer)
      /\ hsin > 0 \/ appin > 0 \/ srvshut
      /\ UNCHANGED <<err, srvgot, verdict, due, appdue, srvshut>>
  BY DEF handshake_reply, IInv, srvvars
<1>2. PICK n \in 0..(hsin + appin) :
       /\ n = 0 => hsin + appin = 0 \/ Room = 0
       /\ n <= Room
       /\ Take(Discard(n))
       /\ CASE n = 0 -> Fail
            [] n > 0 /\ ~Whole(n) ->
                 IF TooLong(n) THEN Fail
                 ELSE size' = size + n /\ UNCHANGED <<phase, mask>>
            [] OTHER ->
                 IF verdict = "accept"
                 THEN phase' = "FORWARDING" /\ mask' = {"IN", "OUT"} /\ size' = 0
                 ELSE Fail
  BY DEF handshake_reply
<1>3. n \in Nat /\ n <= hsin + appin /\ n <= Cap - size - 1
  BY <1>2, Numbers DEF Room
<1>4. CASE n = 0
  <2>1. ~Whole(n)
    BY <1>1, <1>4, Numbers DEF Whole, Unanswered, ReplyAnswer
  <2>2. hsin' = hsin /\ appin' = appin /\ eaten' = 0
    BY <1>2, <1>4, <2>1, Numbers, TakeAnswer DEF Discard, IInv
  <2>3. Failure
    <3>1. CASE hsin + appin = 0
      BY <1>1, <3>1, Numbers DEF Failure
    <3>2. CASE Room = 0
      BY <1>1, <3>2, Numbers DEF Room, Failure, Unanswered, ReplyAnswer
    <3> QED BY <1>2, <1>4, <3>1, <3>2
  <2>4. Fail
    BY <1>2, <1>4
  <2>5. {srvgot', due', hsin', appin', appdue'} \subseteq Nat
    BY <1>1, <2>2, Numbers
  <2> QED BY <1>1, <2>2, <2>3, <2>4, <2>5, FailKeeps
<1>5. CASE n > 0 /\ ~Whole(n)
  <2>1. ReplyAnswer
    BY <1>1, <1>3, <1>5, Numbers DEF Unanswered, Quiet
  <2>2. n <= hsin
    BY <1>3, <1>5, <2>1, Numbers DEF ReplyAnswer, AnswerLen, Whole
  <2>3. hsin' = hsin - n /\ appin' = appin /\ eaten' = 0
    BY <1>2, <1>3, <1>5, <2>2, Numbers, TakeAnswer DEF Discard, IInv
  <2>4. {srvgot', due', hsin', appin', appdue'} \subseteq Nat
    BY <1>1, <1>3, <2>2, <2>3, Numbers
  <2>5. CASE TooLong(n)
    <3>1. verdict = "endless"
      BY <1>3, <1>5, <2>1, <2>5, Numbers DEF TooLong, Whole, ReplyAnswer
    <3>2. Fail
      BY <1>2, <1>3, <1>5, <2>5
    <3> QED BY <1>1, <2>3, <2>4, <3>1, <3>2, FailKeeps DEF Failure
  <2>6. CASE ~TooLong(n)
    <3>1. size' = size + n /\ UNCHANGED phase
      BY <1>2, <1>3, <1>5, <2>6
    <3>2. ReplyAnswer'
      BY <1>1, <1>3, <1>5, <2>1, <2>2, <2>3, <3>1, Numbers DEF ReplyAnswer, AnswerLen, Whole
    <3>3. TypeOK'
      BY <1>1, <1>3, <2>4, <3>1, Numbers DEF IInv, TypeOK
    <3> QED BY <1>1, <2>3, <3>1, <3>2, <3>3 DEF IInv
  <2> QED BY <2>5, <2>6
<1>6. CASE n > 0 /\ Whole(n)
  <2>1. ReplyAnswer /\ verdict # "endless"
    BY <1>1, <1>3, <1>6, Numbers DEF Unanswered, Quiet, Whole
  <2>2. due = 0 /\ ReplyLen - size = hsin
    BY <1>3, <1>6, <2>1, Numbers DEF ReplyAnswer, AnswerLen, Whole
  <2>3. hsin' = 0 /\ appin' = appin /\ eaten' = 0
    BY <1>2, <1>6, <2>2, Numbers, TakeAnswer DEF Discard, IInv
  <2>4. {srvgot', due', hsin', appin', appdue'} \subseteq Nat
    BY <1>1, <2>3, Numbers
  <2>5. CASE verdict = "accept"
    <3>1. phase' = "FORWARDING" /\ size' = 0
      BY <1>2, <1>3, <1>6, <2>5
    <3>2. TypeOK'
      BY <1>1, <2>4, <3>1 DEF IInv, TypeOK
    <3> QED BY <1>1, <2>2, <2>3, <2>5, <3>1, <3>2 DEF IInv
  <2>6. CASE verdict # "accept"
    <3>1. Fail /\ verdict = "reject"
      BY <1>2, <1>3, <1>6, <2>1, <2>6 DEF ReplyAnswer
    <3> QED BY <1>1, <2>3, <2>4, <3>1, FailKeeps DEF Failure
  <2> QED BY <2>5, <2>6
<1> QED BY <1>3, <1>4, <1>5, <1>6

------------------------------------------------------------------------------
(* The proxy server and the network *)

\* One answer to a message, and the application's bytes only behind an acceptance.
LEMMA AnswerKeeps ==
  ASSUME SizesAssumption, IInv, srv_answer
  PROVE  IInv'
<1> USE DEF SendPhases, RecvPhases
<1>1. /\ phase \in RecvPhases /\ srvgot = MsgLen[Current] /\ srvgot' = 0
      /\ UNCHANGED <<phase, size, mask, err, hsin, appin, srvshut, eaten>>
  BY DEF srv_answer
<1>2. Current \in SendPhases /\ srvgot > 0
  BY <1>1, Numbers DEF Current
<1>3. Unanswered
  BY <1>1, <1>2, Numbers DEF IInv, ShortAnswer, ReplyAnswer
<1>4. CASE phase # "RECV_REPLY"
  <2>1. verdict' \in {"accept", "auth", "reject"} /\ due' = 2 /\ appdue' = 0
    BY <1>1, <1>4 DEF srv_answer
  <2>2. ShortAnswer'
    BY <1>1, <1>3, <2>1 DEF ShortAnswer, Unanswered, Quiet
  <2>3. TypeOK'
    BY <1>1, <2>1 DEF IInv, TypeOK
  <2> QED BY <1>1, <1>4, <2>2, <2>3 DEF IInv
<1>5. CASE phase = "RECV_REPLY"
  <2>1. /\ verdict' \in {"accept", "reject", "endless"}
        /\ due' = IF verdict' = "endless" THEN Cap + 1 ELSE ReplyLen
        /\ appdue' = IF verdict' = "accept" THEN AppLen ELSE 0
    BY <1>1, <1>5 DEF srv_answer
  <2>2. ReplyAnswer'
    BY <1>1, <1>3, <2>1, Numbers DEF ReplyAnswer, AnswerLen, Unanswered, Quiet
  <2>3. TypeOK'
    BY <1>1, <2>1, Numbers DEF IInv, TypeOK
  <2> QED BY <1>1, <1>5, <2>2, <2>3 DEF IInv
<1> QED BY <1>4, <1>5

\* A piece of the stream reaches the socket in order.
LEMMA SrvSendKeeps ==
  ASSUME SizesAssumption, IInv, srv_send
  PROVE  IInv'
<1> USE DEF SendPhases, RecvPhases
<1>1. /\ due + appdue > 0
      /\ UNCHANGED <<phase, size, mask, err, srvgot, verdict, srvshut, eaten>>
  BY DEF srv_send
<1>2. PICK n \in 1..(due + appdue) :
        /\ due' = Pos(due - n) /\ hsin' = hsin + due - due'
        /\ appdue' = appdue - Pos(n - due)
        /\ appin' = appin + Pos(n - due)
  BY DEF srv_send
<1>3. /\ {due', hsin', appdue', appin'} \subseteq Nat
      /\ due' + hsin' = due + hsin /\ due' <= due
      /\ appdue' + appin' = appdue + appin
      /\ due' > 0 => appin' = appin
  BY <1>2, Numbers DEF Pos
<1>4. TypeOK'
  BY <1>1, <1>3 DEF IInv, TypeOK
<1>5. ~Quiet /\ phase \notin SendPhases /\ ~Unanswered
  BY <1>1, Numbers DEF IInv, SendState, Unanswered, Quiet
<1>6. ShortAnswer => ShortAnswer'
  BY <1>1, <1>3, Numbers DEF ShortAnswer
<1>7. ReplyAnswer => ReplyAnswer'
  <2> SUFFICES ASSUME ReplyAnswer PROVE ReplyAnswer'
    OBVIOUS
  <2>1. AnswerLen' = AnswerLen /\ size' + hsin' + due' = size + hsin + due
    BY <1>1, <1>3, Numbers DEF AnswerLen
  <2>2. verdict # "accept" => appin' = 0 /\ appdue' = 0
    BY <1>3, Numbers DEF ReplyAnswer
  <2>3. due' > 0 => appin' = 0
    BY <1>3, Numbers DEF ReplyAnswer
  <2> QED BY <1>1, <2>1, <2>2, <2>3 DEF ReplyAnswer
<1>8. due = 0 /\ hsin = 0 => due' = 0 /\ hsin' = 0
  BY <1>3, Numbers
<1> QED BY <1>1, <1>4, <1>5, <1>6, <1>7, <1>8 DEF IInv, Failure

\* Closing, breaking and stuttering move no byte.
LEMMA NetworkKeeps ==
  ASSUME IInv, srv_close \/ net_error \/ UNCHANGED vars
  PROVE  IInv'
<1>1. UNCHANGED <<phase, size, srvgot, verdict, due, hsin, appin, appdue, eaten>>
  BY DEF srv_close, net_error, vars, srvvars
<1>2. TypeOK' /\ (Failure => Failure')
  BY <1>1 DEF srv_close, net_error, vars, srvvars, IInv, TypeOK, Failure
<1> QED
  BY <1>1, <1>2 DEF IInv, SendState, ToSend, Quiet, Unanswered, Current, ShortAnswer, ReplyAnswer,
     AnswerLen

------------------------------------------------------------------------------
\* The inductive invariant of the handshake, for SOCKS and HTTP: where the bytes
\* of the message and of its answer are.
THEOREM Invariance ==
  ASSUME SizesAssumption
  PROVE  Spec => []IInv
<1>1. ASSUME Init PROVE IInv
  <2> USE DEF SendPhases, RecvPhases
  <2>1. phase \in SendPhases /\ MsgLen[phase] \in Nat
    BY <1>1 DEF Init, FirstPhase, SizesAssumption
  <2>2. TypeOK
    <3>1. {size, srvgot, due, hsin, appin, appdue} \subseteq Nat
      BY <1>1 DEF Init
    <3>2. {err, srvshut} \subseteq BOOLEAN
      BY <1>1 DEF Init
    <3> QED BY <1>1, <2>1, <3>1, <3>2 DEF Init, TypeOK
  <2>3. SendState
    BY <1>1, <2>1 DEF Init, SendState, ToSend, Quiet
  <2> QED BY <1>1, <2>1, <2>2, <2>3 DEF Init, IInv
<1>2. ASSUME IInv, [Next]_vars PROVE IInv'
  <2>1. CASE handshake_error
    BY <1>2, <2>1, FailKeeps, Numbers DEF handshake_error, Failure, srvvars, IInv
  <2> QED
    BY <1>2, <2>1, OutputKeeps, InputKeeps, ReplyKeeps, AnswerKeeps, SrvSendKeeps, NetworkKeeps
       DEF Next, Handler
<1> QED BY <1>1, <1>2, PTL DEF Spec

\* The handshake takes all of the proxy's answer and nothing behind it, sends
\* each message once, stays in its buffer, and fails only for a reason
\* (socks_handshake_output(), socks_handshake_input(), http_handshake_input()).
THEOREM BoundaryKept ==
  ASSUME SizesAssumption
  PROVE  Spec => []StreamBoundary
<1>1. ASSUME IInv PROVE StreamBoundary
  <2> USE DEF SendPhases, RecvPhases
  <2>1. size <= Cap
    <3>1. CASE phase \in SendPhases
      <4>1. srvgot + ToSend <= Cap /\ size <= ToSend
        BY <1>1, <3>1, Numbers DEF IInv, SendState, ToSend
      <4> QED BY <1>1, <3>1, <4>1, Numbers DEF ToSend
    <3>2. CASE phase \notin SendPhases
      BY <1>1, <3>2, Numbers DEF IInv, TypeOK, Unanswered, ShortAnswer, ReplyAnswer
    <3> QED BY <3>1, <3>2
  <2>2. phase \in RecvPhases => srvgot \in {0, MsgLen[Current]}
    BY <1>1 DEF IInv, Unanswered, ShortAnswer, ReplyAnswer
  <2> QED
    BY <1>1, <2>1, <2>2 DEF IInv, SendState, Failure, StreamBoundary
<1> QED BY <1>1, Invariance, PTL
==============================================================================
