------------------------------- MODULE Econn -------------------------------
(***************************************************************************)
(* One end-to-end connection of the 3.0 calling protocol (src/econn).      *)
(*                                                                         *)
(* The functions of econn.c run to completion on one event-loop thread, so *)
(* each is an operator that maps the connection before the call to what    *)
(* the call leaves behind: the connection, the messages handed to the      *)
(* transport, the one application callback it makes (always last) and      *)
(* whether it returned an error.  Calling composes them with ecall and the *)
(* network.                                                                *)
(***************************************************************************)
EXTENDS Integers

CONSTANTS Client,    \* the devices of all users in the conversation
          Userid,    \* Client -> Nat: the user of a device, in strcmp order
          Clientid,  \* Client -> Nat: the device's id, in strcmp order
          None       \* an empty string or a NULL pointer

Session == Client \X Nat        \* sessid_local of a device's n-th connection
MfId    == Client \X Nat        \* a device's n-th mediaflow; stands for its SDP

ASSUME IdAssumption ==
    /\ Userid \in [Client -> Nat]
    /\ Clientid \in [Client -> Nat]
    /\ \A c, d \in Client : Clientid[c] = Clientid[d] => c = d
    /\ None \notin Client
    /\ None \notin Client \X Nat

ConnState == {"IDLE", "PENDING_OUTGOING", "PENDING_INCOMING",
              "CONFLICT_RESOLUTION", "ANSWERED", "DATACHAN_ESTABLISHED",
              "HANGUP_SENT", "UPDATE_SENT", "UPDATE_RECV", "TERMINATING"}

MsgType == {"SETUP", "UPDATE", "CANCEL", "HANGUP"}

\* struct econn.  tmr is tmr_local together with the handler it was armed
\* with: the setup timeout, the wait for HANGUP(r), or the 1 ms deferred close.
Conn == [self            : Client,
         sessid_local    : Session,
         state           : ConnState,
         dir             : {"UNKNOWN", "OUTGOING", "INCOMING"},
         sessid_remote   : Session \cup {None},
         clientid_remote : Client \cup {None},
         conflict        : {-1, 0, 1},
         tmr             : {"none", "setup", "term", "cancel"}]

ASSUME NullAssumption == None \notin Conn

\* What a message says; the sender and its session are added on the way out.
Payload == [type : MsgType, resp : BOOLEAN, sdp : MfId \cup {None}]

Callback == {"none", "conn", "answer", "answer_reset", "update_req",
             "update_resp", "close"}

\* What a call leaves behind: it returned, sent messages, made a callback, or
\* refused with an error.
Outcome(conn, out, cb, err) == [conn |-> conn, out |-> out, cb |-> cb, err |-> err]
Return(conn)     == Outcome(conn, {}, "none", FALSE)
Refuse(conn)     == Outcome(conn, {}, "none", TRUE)
Send(conn, out)  == Outcome(conn, out, "none", FALSE)
Notify(conn, cb) == Outcome(conn, {}, cb, FALSE)

econn_alloc(self, sessid) ==
    [self |-> self, sessid_local |-> sessid, state |-> "IDLE",
     dir |-> "UNKNOWN", sessid_remote |-> None, clientid_remote |-> None,
     conflict |-> 0, tmr |-> "none"]

econn_set_state(conn, state) == [conn EXCEPT !.state = state]

\* Mutant: the user ids are not compared, so both ends of a glare may lose.
IsWinnerByClient(c, d) == Userid[c] = Userid[d] /\ Clientid[c] > Clientid[d]

econn_iswinner(c, d) ==
    \/ Userid[c] > Userid[d]
    \/ Userid[c] = Userid[d] /\ Clientid[c] > Clientid[d]

----------------------------------------------------------------------------
\* Sending.  send_cancel and send_hangup only warn when the transport fails,
\* which is a lost message; a failed SETUP or UPDATE ends the connection, but
\* neither runs the close callback nor touches the timer.

Cancel        == [type |-> "CANCEL", resp |-> FALSE, sdp |-> None]
Hangup(resp)  == [type |-> "HANGUP", resp |-> resp, sdp |-> None]

econn_send_setup(conn, type, resp, sdp, ok) ==
    IF ok THEN Send(conn, {[type |-> type, resp |-> resp, sdp |-> sdp]})
          ELSE Refuse(econn_set_state(conn, "TERMINATING"))

econn_close(conn) ==
    Outcome([conn EXCEPT !.state = "TERMINATING", !.tmr = "none"],
            IF conn.state = "PENDING_OUTGOING" THEN {Cancel} ELSE {},
            "close", FALSE)

----------------------------------------------------------------------------
\* The application interface.

\* Mutant: the request is sent without starting the timer.
RequestUntimed(conn, type, sdp, ok) == econn_send_setup(conn, type, FALSE, sdp, ok)

\* A request starts the setup timer once it is sent; a response stops the
\* timer, and once it is sent the call is answered.
Request(conn, type, sdp, ok) ==
    econn_send_setup(IF ok THEN [conn EXCEPT !.tmr = "setup"] ELSE conn,
                     type, FALSE, sdp, ok)

Response(conn, type, sdp, ok) ==
    econn_send_setup(IF ok THEN [conn EXCEPT !.tmr = "none", !.state = "ANSWERED"]
                           ELSE [conn EXCEPT !.tmr = "none"],
                     type, TRUE, sdp, ok)

econn_start(conn, sdp, ok) ==
    IF conn.state \in {"IDLE", "PENDING_OUTGOING"}
    THEN Request([conn EXCEPT !.state = "PENDING_OUTGOING", !.dir = "OUTGOING"],
                 "SETUP", sdp, ok)
    ELSE Refuse(conn)

econn_update_req(conn, sdp, ok) ==
    Request(econn_set_state(conn, "UPDATE_SENT"), "UPDATE", sdp, ok)

econn_update_resp(conn, sdp, ok) ==
    IF conn.state = "UPDATE_RECV" THEN Response(conn, "UPDATE", sdp, ok)
                                  ELSE Refuse(conn)

econn_answer(conn, sdp, ok) ==
    IF conn.state \in {"PENDING_INCOMING", "CONFLICT_RESOLUTION"}
    THEN Response(conn, "SETUP", sdp, ok)
    ELSE Refuse(conn)

\* Mutant: the deferred close is not armed.
EndUntimed(conn) ==
    Send([conn EXCEPT !.state = "TERMINATING"], {Cancel})

\* Mutant: the peer is told, but an answered connection stays up.
EndStaysUp(conn) ==
    Send([conn EXCEPT !.tmr = "cancel"], {Cancel})

econn_end(conn) ==
    CASE conn.state = "PENDING_INCOMING" ->
           Return([conn EXCEPT !.state = "TERMINATING", !.tmr = "cancel"])
      [] conn.state \in {"PENDING_OUTGOING", "ANSWERED", "CONFLICT_RESOLUTION"} ->
           Send([conn EXCEPT !.state = "TERMINATING", !.tmr = "cancel"], {Cancel})
      [] conn.state = "DATACHAN_ESTABLISHED" ->
           Send([conn EXCEPT !.state = "HANGUP_SENT", !.tmr = "term"], {Hangup(FALSE)})
      [] OTHER -> Return(conn)

econn_set_datachan_established(conn) ==
    IF conn.state = "ANSWERED" THEN econn_set_state(conn, "DATACHAN_ESTABLISHED")
                               ELSE conn

\* tmr_local_handler, tmr_term_handler and tmr_cancel_handler differ only in
\* the error they close with.
tmr_handler(conn) == econn_close(conn)

----------------------------------------------------------------------------
\* States in which the connection waits for the peer or for its application
\* and that only a timer bounds; PENDING_OUTGOING counts once SETUP is sent.
Waiting(conn) ==
    \/ conn.state \in {"PENDING_INCOMING", "UPDATE_SENT", "UPDATE_RECV", "HANGUP_SENT"}
    \/ conn.state = "PENDING_OUTGOING" /\ conn.dir = "OUTGOING"

Timed(conn)        == Waiting(conn) => conn.tmr # "none"
ClosingTimed(conn) == conn.state = "TERMINATING" => conn.tmr # "none"

----------------------------------------------------------------------------
\* The message handlers.  m carries the sender's device, its session and a
\* Payload.

\* Mutant: the loser of a glare does not note the winner's session.
SetupRequestUnlinked(conn, m) ==
    IF conn.state = "PENDING_OUTGOING" /\ ~econn_iswinner(conn.self, m.from)
    THEN Notify([conn EXCEPT !.state = "CONFLICT_RESOLUTION", !.conflict = -1],
                "answer_reset")
    ELSE IF conn.state = "IDLE"
    THEN Notify([conn EXCEPT !.state = "PENDING_INCOMING", !.dir = "INCOMING",
                             !.sessid_remote = m.sess, !.tmr = "setup"], "conn")
    ELSE Return(conn)

handle_setup_request(conn, m) ==
    CASE conn.state = "IDLE" ->
           Notify([conn EXCEPT !.state = "PENDING_INCOMING", !.dir = "INCOMING",
                               !.sessid_remote = m.sess, !.tmr = "setup"], "conn")
      [] conn.state = "PENDING_OUTGOING" /\ econn_iswinner(conn.self, m.from) ->
           Return([conn EXCEPT !.sessid_remote = m.sess, !.conflict = 1])
      [] conn.state = "PENDING_OUTGOING" /\ ~econn_iswinner(conn.self, m.from) ->
           Notify([conn EXCEPT !.state = "CONFLICT_RESOLUTION",
                               !.sessid_remote = m.sess, !.conflict = -1],
                  "answer_reset")
      [] OTHER -> Return(conn)

\* Mutant: the device is recorded where the session belongs.
SetupResponseMistyped(conn, m) ==
    Notify([conn EXCEPT !.state = "ANSWERED", !.tmr = "none",
                        !.sessid_remote = m.from], "answer")

\* Mutant: an answered call is answered again.
SetupResponseAgain(conn, m) ==
    IF conn.state \in {"PENDING_OUTGOING", "CONFLICT_RESOLUTION", "ANSWERED", "DATACHAN_ESTABLISHED"}
    THEN Notify([conn EXCEPT !.state = "ANSWERED", !.tmr = "none",
                             !.sessid_remote = m.sess], "answer")
    ELSE Return(conn)

\* Mutant: the answering session is not noted.
SetupResponseUnlinked(conn, m) ==
    IF conn.state \in {"PENDING_OUTGOING", "CONFLICT_RESOLUTION"}
    THEN Notify([conn EXCEPT !.state = "ANSWERED", !.tmr = "none"], "answer")
    ELSE Return(conn)

handle_setup_response(conn, m) ==
    IF conn.state \in {"PENDING_OUTGOING", "CONFLICT_RESOLUTION"}
    THEN Notify([conn EXCEPT !.state = "ANSWERED", !.tmr = "none",
                             !.sessid_remote = m.sess], "answer")
    ELSE Return(conn)

\* Mutant: a SETUP of any device is taken.
RecvSetupAnyDevice(conn, m) ==
    LET bound == [conn EXCEPT !.clientid_remote = m.from]
    IN  IF m.resp THEN handle_setup_response(bound, m)
                  ELSE handle_setup_request(bound, m)

\* The first SETUP of either kind binds the connection to its sender's device,
\* whatever the state.
recv_setup(conn, m) ==
    LET bound == [conn EXCEPT !.clientid_remote = m.from]
    IN  CASE conn.clientid_remote \notin {None, m.from} -> Return(conn)
          [] OTHER -> IF m.resp THEN handle_setup_response(bound, m)
                                ELSE handle_setup_request(bound, m)

handle_update_request(conn, m) ==
    IF \/ conn.state \in {"ANSWERED", "DATACHAN_ESTABLISHED"}
       \/ conn.state = "UPDATE_SENT" /\ ~econn_iswinner(conn.self, m.from)
    THEN Notify([conn EXCEPT !.state = "UPDATE_RECV", !.tmr = "setup"], "update_req")
    ELSE Return(conn)

handle_update_response(conn, m) ==
    IF conn.state = "UPDATE_SENT"
    THEN Notify([conn EXCEPT !.state = "ANSWERED", !.tmr = "none"], "update_resp")
    ELSE Return(conn)

recv_update(conn, m) ==
    IF conn.sessid_remote = m.sess /\ conn.clientid_remote = m.from
    THEN IF m.resp THEN handle_update_response(conn, m)
                   ELSE handle_update_request(conn, m)
    ELSE Return(conn)

recv_cancel(conn, m) ==
    IF /\ conn.clientid_remote = m.from
       /\ conn.state \in {"PENDING_INCOMING", "ANSWERED", "DATACHAN_ESTABLISHED"}
       /\ conn.sessid_remote = m.sess
    THEN econn_close(econn_set_state(conn, "TERMINATING"))
    ELSE Return(conn)

recv_hangup(conn, m) ==
    IF /\ conn.sessid_remote = m.sess
       /\ conn.state \in {"DATACHAN_ESTABLISHED", "HANGUP_SENT"}
    THEN Outcome([conn EXCEPT !.state = "TERMINATING", !.tmr = "none"],
                 IF m.resp THEN {} ELSE {Hangup(TRUE)}, "close", FALSE)
    ELSE Return(conn)

econn_recv_message(conn, m) ==
    CASE m.type = "SETUP"  -> recv_setup(conn, m)
      [] m.type = "UPDATE" -> recv_update(conn, m)
      [] m.type = "CANCEL" -> recv_cancel(conn, m)
      [] m.type = "HANGUP" -> recv_hangup(conn, m)

=============================================================================
