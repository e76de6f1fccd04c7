---------------------------- MODULE EconnProofs ----------------------------
(***************************************************************************)
(* What every function of econn.c leaves behind, for every set of devices. *)
(* Keeps is the contract the theorems about Calling rest on: the outcome   *)
(* is well-formed, the identity of the connection does not change, and     *)
(* unless the close callback runs no wait is left without a timer.         *)
(***************************************************************************)
EXTENDS Econn, TLAPS

OutcomeType == [conn : Conn, out : SUBSET Payload, cb : Callback, err : BOOLEAN]

Arrival == [to : Client, from : Client, sess : Session,
            type : MsgType, resp : BOOLEAN, sdp : MfId \cup {None}]

\* sent says that no SETUP or UPDATE was refused by the transport.
Keeps(conn, r, sent) ==
    /\ r \in OutcomeType
    /\ r.conn.self = conn.self
    /\ r.conn.sessid_local = conn.sessid_local
    /\ Timed(conn) => r.cb = "close" \/ Timed(r.conn)
    /\ sent /\ ClosingTimed(conn) => r.cb = "close" \/ ClosingTimed(r.conn)

\* An update of a connection that changes neither its type nor its identity.
Same(conn, n) == /\ n \in Conn
                 /\ n.self = conn.self
                 /\ n.sessid_local = conn.sessid_local

LEMMA PayloadType ==
  /\ Cancel \in Payload
  /\ \A resp \in BOOLEAN : Hangup(resp) \in Payload
  /\ \A type \in {"SETUP", "UPDATE"}, resp \in BOOLEAN, sdp \in MfId :
       [type |-> type, resp |-> resp, sdp |-> sdp] \in Payload
BY DEF Cancel, Hangup, Payload, MsgType

\* A record built from well-typed parts has those parts.
LEMMA OutcomeIsTyped ==
  ASSUME NEW conn \in Conn, NEW out \in SUBSET Payload, NEW cb \in Callback,
         NEW err \in BOOLEAN
  PROVE  /\ Outcome(conn, out, cb, err) \in OutcomeType
         /\ Outcome(conn, out, cb, err).conn = conn
         /\ Outcome(conn, out, cb, err).cb = cb
BY DEF Outcome, OutcomeType

LEMMA OutcomeKeeps ==
  ASSUME NEW conn, NEW n, Same(conn, n),
         NEW out \in SUBSET Payload, NEW cb \in Callback, NEW err \in BOOLEAN,
         NEW sent \in BOOLEAN,
         Timed(conn) => cb = "close" \/ Timed(n),
         sent /\ ClosingTimed(conn) => cb = "close" \/ ClosingTimed(n)
  PROVE  Keeps(conn, Outcome(n, out, cb, err), sent)
BY OutcomeIsTyped DEF Same, Keeps

LEMMA ReturnKeeps ==
  ASSUME NEW conn, NEW n, Same(conn, n), NEW sent \in BOOLEAN,
         Timed(conn) => Timed(n),
         sent /\ ClosingTimed(conn) => ClosingTimed(n)
  PROVE  /\ Keeps(conn, Return(n), sent)
         /\ Keeps(conn, Refuse(n), sent)
         /\ \A out \in SUBSET Payload : Keeps(conn, Send(n, out), sent)
         /\ \A cb \in Callback : Keeps(conn, Notify(n, cb), sent)
BY OutcomeKeeps DEF Return, Refuse, Send, Notify, Callback

LEMMA UnchangedKeeps ==
  ASSUME NEW conn \in Conn, NEW sent \in BOOLEAN
  PROVE  Keeps(conn, Return(conn), sent) /\ Keeps(conn, Refuse(conn), sent)
BY ReturnKeeps DEF Same

LEMMA CloseKeeps ==
  ASSUME NEW conn \in Conn, NEW sent \in BOOLEAN
  PROVE  Keeps(conn, econn_close(conn), sent)
<1>1. Same(conn, [conn EXCEPT !.state = "TERMINATING", !.tmr = "none"])
  BY DEF Same, Conn, ConnState
<1>2. (IF conn.state = "PENDING_OUTGOING" THEN {Cancel} ELSE {}) \in SUBSET Payload
  BY PayloadType
<1> QED
  BY <1>1, <1>2, OutcomeKeeps DEF econn_close, Callback

\* A request is sent from a state it leaves with its timer running; a response
\* leaves the connection answered.  If the transport fails, sent is false.
LEMMA RequestKeeps ==
  ASSUME NEW conn, NEW n, Same(conn, n), NEW type \in {"SETUP", "UPDATE"},
         NEW sdp \in MfId, NEW ok \in BOOLEAN
  PROVE  Keeps(conn, Request(n, type, sdp, ok), ok)
<1>1. CASE ok
  <2>1. Same(conn, [n EXCEPT !.tmr = "setup"])
    BY DEF Same, Conn
  <2>2. Timed([n EXCEPT !.tmr = "setup"]) /\ ClosingTimed([n EXCEPT !.tmr = "setup"])
    BY DEF Timed, ClosingTimed, Same, Conn
  <2> QED
    BY <1>1, <2>1, <2>2, ReturnKeeps, PayloadType DEF Request, econn_send_setup
<1>2. CASE ~ok
  <2>1. Same(conn, econn_set_state(n, "TERMINATING"))
    BY DEF Same, Conn, ConnState, econn_set_state
  <2>2. Timed(econn_set_state(n, "TERMINATING"))
    BY DEF Timed, Waiting, Same, Conn, econn_set_state
  <2> QED
    BY <1>2, <2>1, <2>2, ReturnKeeps DEF Request, econn_send_setup
<1> QED
  BY <1>1, <1>2

LEMMA ResponseKeeps ==
  ASSUME NEW conn \in Conn, NEW type \in {"SETUP", "UPDATE"},
         NEW sdp \in MfId, NEW ok \in BOOLEAN
  PROVE  Keeps(conn, Response(conn, type, sdp, ok), ok)
<1>1. CASE ok
  <2> DEFINE n == [conn EXCEPT !.tmr = "none", !.state = "ANSWERED"]
  <2>1. Same(conn, n) /\ Timed(n) /\ ClosingTimed(n)
    BY DEF Same, Conn, ConnState, Timed, Waiting, ClosingTimed
  <2> QED
    BY <1>1, <2>1, ReturnKeeps, PayloadType DEF Response, econn_send_setup
<1>2. CASE ~ok
  <2> DEFINE n == econn_set_state([conn EXCEPT !.tmr = "none"], "TERMINATING")
  <2>1. Same(conn, n) /\ Timed(n)
    BY DEF Same, Conn, ConnState, Timed, Waiting, econn_set_state
  <2> QED
    BY <1>2, <2>1, ReturnKeeps DEF Response, econn_send_setup
<1> QED
  BY <1>1, <1>2

\* The application interface keeps the contract.
LEMMA InterfaceKeeps ==
  ASSUME NEW conn \in Conn, NEW sdp \in MfId, NEW ok \in BOOLEAN
  PROVE  /\ Keeps(conn, econn_start(conn, sdp, ok), ok)
         /\ Keeps(conn, econn_update_req(conn, sdp, ok), ok)
         /\ Keeps(conn, econn_update_resp(conn, sdp, ok), ok)
         /\ Keeps(conn, econn_answer(conn, sdp, ok), ok)
<1>1. Same(conn, [conn EXCEPT !.state = "PENDING_OUTGOING", !.dir = "OUTGOING"])
  BY DEF Same, Conn, ConnState
<1>2. Same(conn, econn_set_state(conn, "UPDATE_SENT"))
  BY DEF Same, Conn, ConnState, econn_set_state
<1> QED
  BY <1>1, <1>2, RequestKeeps, ResponseKeeps, UnchangedKeeps
  DEF econn_start, econn_update_req, econn_update_resp, econn_answer

LEMMA EndKeeps ==
  ASSUME NEW conn \in Conn, NEW sent \in BOOLEAN
  PROVE  Keeps(conn, econn_end(conn), sent)
<1> DEFINE closing == [conn EXCEPT !.state = "TERMINATING", !.tmr = "cancel"]
           hanging == [conn EXCEPT !.state = "HANGUP_SENT", !.tmr = "term"]
<1>1. Same(conn, closing) /\ Timed(closing) /\ ClosingTimed(closing)
  BY DEF Same, Conn, ConnState, Timed, ClosingTimed
<1>2. Same(conn, hanging) /\ Timed(hanging) /\ ClosingTimed(hanging)
  BY DEF Same, Conn, ConnState, Timed, ClosingTimed
<1>3. Keeps(conn, Return(closing), sent) /\ Keeps(conn, Send(closing, {Cancel}), sent)
  BY <1>1, ReturnKeeps, PayloadType
<1>4. Keeps(conn, Send(hanging, {Hangup(FALSE)}), sent)
  BY <1>2, ReturnKeeps, PayloadType
<1> QED
  BY <1>3, <1>4, UnchangedKeeps DEF econn_end

LEMMA DatachanKeeps ==
  ASSUME NEW conn \in Conn
  PROVE  LET n == econn_set_datachan_established(conn)
         IN  /\ Same(conn, n)
             /\ Timed(conn) => Timed(n)
             /\ ClosingTimed(conn) => ClosingTimed(n)
BY DEF econn_set_datachan_established, econn_set_state, Same, Conn, ConnState,
       Timed, ClosingTimed, Waiting

\* The message handlers keep it too.  m is what the backend or the data
\* channel delivers.
LEMMA SetupKeeps ==
  ASSUME NEW conn \in Conn, NEW m \in Arrival, NEW sent \in BOOLEAN
  PROVE  Keeps(conn, recv_setup(conn, m), sent)
<1> DEFINE b == [conn EXCEPT !.clientid_remote = m.from]
           ring == [b EXCEPT !.state = "PENDING_INCOMING", !.dir = "INCOMING",
                             !.sessid_remote = m.sess, !.tmr = "setup"]
           win  == [b EXCEPT !.sessid_remote = m.sess, !.conflict = 1]
           lose == [b EXCEPT !.state = "CONFLICT_RESOLUTION",
                             !.sessid_remote = m.sess, !.conflict = -1]
           ans  == [b EXCEPT !.state = "ANSWERED", !.tmr = "none",
                             !.sessid_remote = m.sess]
<1>1. /\ Same(conn, b)
      /\ Timed(conn) => Timed(b)
      /\ ClosingTimed(conn) => ClosingTimed(b)
  BY DEF Same, Conn, Arrival, Timed, ClosingTimed, Waiting
<1>2. Same(conn, ring) /\ Same(conn, win) /\ Same(conn, lose) /\ Same(conn, ans)
  BY DEF Same, Conn, ConnState, Arrival
<1>3. /\ Timed(ring) /\ Timed(lose) /\ Timed(ans)
      /\ ClosingTimed(ring) /\ ClosingTimed(lose) /\ ClosingTimed(ans)
  BY DEF Conn, Timed, ClosingTimed, Waiting
<1>4. /\ Timed(conn) => Timed(win)
      /\ ClosingTimed(conn) => ClosingTimed(win)
  BY DEF Conn, Timed, ClosingTimed, Waiting
<1>5. /\ Keeps(conn, Return(conn), sent) /\ Keeps(conn, Return(b), sent)
      /\ Keeps(conn, Return(win), sent) /\ Keeps(conn, Notify(ring, "conn"), sent)
      /\ Keeps(conn, Notify(lose, "answer_reset"), sent)
      /\ Keeps(conn, Notify(ans, "answer"), sent)
  BY <1>1, <1>2, <1>3, <1>4, ReturnKeeps, UnchangedKeeps DEF Callback
<1> QED
  BY <1>5 DEF recv_setup, handle_setup_request, handle_setup_response

LEMMA UpdateKeeps ==
  ASSUME NEW conn \in Conn, NEW m \in Arrival, NEW sent \in BOOLEAN
  PROVE  Keeps(conn, recv_update(conn, m), sent)
<1> DEFINE req == [conn EXCEPT !.state = "UPDATE_RECV", !.tmr = "setup"]
           ans == [conn EXCEPT !.state = "ANSWERED", !.tmr = "none"]
<1>1. Same(conn, req) /\ Same(conn, ans)
  BY DEF Same, Conn, ConnState
<1>2. Timed(req) /\ Timed(ans) /\ ClosingTimed(req) /\ ClosingTimed(ans)
  BY DEF Conn, Timed, ClosingTimed, Waiting
<1>3. /\ Keeps(conn, Return(conn), sent)
      /\ Keeps(conn, Notify(req, "update_req"), sent)
      /\ Keeps(conn, Notify(ans, "update_resp"), sent)
  BY <1>1, <1>2, ReturnKeeps, UnchangedKeeps DEF Callback
<1> QED
  BY <1>3 DEF recv_update, handle_update_request, handle_update_response

LEMMA CancelKeeps ==
  ASSUME NEW conn \in Conn, NEW m \in Arrival, NEW sent \in BOOLEAN
  PROVE  Keeps(conn, recv_cancel(conn, m), sent)
<1> DEFINE n == [econn_set_state(conn, "TERMINATING")
                   EXCEPT !.state = "TERMINATING", !.tmr = "none"]
<1>1. Same(conn, n)
  BY DEF Same, Conn, ConnState, econn_set_state
<1>2. \A out \in SUBSET Payload : Keeps(conn, Outcome(n, out, "close", FALSE), sent)
  BY <1>1, OutcomeKeeps DEF Callback
<1>3. Keeps(conn, econn_close(econn_set_state(conn, "TERMINATING")), sent)
  BY <1>2, PayloadType DEF econn_close
<1> QED
  BY <1>3, UnchangedKeeps DEF recv_cancel

LEMMA HangupKeeps ==
  ASSUME NEW conn \in Conn, NEW m \in Arrival, NEW sent \in BOOLEAN
  PROVE  Keeps(conn, recv_hangup(conn, m), sent)
<1> DEFINE n == [conn EXCEPT !.state = "TERMINATING", !.tmr = "none"]
<1>1. Same(conn, n)
  BY DEF Same, Conn, ConnState
<1>2. \A out \in SUBSET Payload : Keeps(conn, Outcome(n, out, "close", FALSE), sent)
  BY <1>1, OutcomeKeeps DEF Callback
<1>3. (IF m.resp THEN {} ELSE {Hangup(TRUE)}) \in SUBSET Payload
  BY PayloadType
<1> QED
  BY <1>2, <1>3, UnchangedKeeps DEF recv_hangup

LEMMA RecvKeeps ==
  ASSUME NEW conn \in Conn, NEW m \in Arrival, NEW sent \in BOOLEAN
  PROVE  Keeps(conn, econn_recv_message(conn, m), sent)
BY SetupKeeps, UpdateKeeps, CancelKeeps, HangupKeeps
DEF econn_recv_message, Arrival, MsgType

=============================================================================
