------------------------------- MODULE Ecall -------------------------------
(***************************************************************************)
(* The call object of src/ecall: one connection (Econn), one mediaflow     *)
(* whose candidate gathering is asynchronous, and the callbacks that run   *)
(* between the two.  The mediaflow is reduced to what ecall sees of it:    *)
(* the offer/answer state, which flow it is paired with, and whether       *)
(* media and data channel are up.                                          *)
(*                                                                         *)
(* An operator maps a step in progress to the step after one C function.   *)
(* e says which calls into the environment succeed during the step.        *)
(***************************************************************************)
EXTENDS Econn

CONSTANT Faults      \* the calls that may fail: a subset of FaultKind

FaultKind == {"tx", "alloc", "sdp", "media"}

ASSUME FaultAssumption == Faults \subseteq FaultKind

\* tx: the backend accepts a SETUP or UPDATE; alloc: there is a local address
\* for a mediaflow; sdp: the remote SDP is acceptable; media: audio starts.
Env == {e \in [FaultKind -> BOOLEAN] : \A f \in FaultKind \ Faults : e[f]}

\* struct mediaflow as ecall uses it.  rid is the remote flow whose SDP was
\* applied last: two flows reach each other only if each holds the other's.
Flow == [id       : MfId,
         gathered : BOOLEAN,                      \* mediaflow_is_gathered
         sdp      : {"IDLE", "GOFF", "HOFF", "DONE"},
         offerer  : BOOLEAN,                      \* sdp_offerer
         rid      : MfId \cup {None},
         live     : BOOLEAN,                      \* ICE started and not failed
         ready    : BOOLEAN,                      \* mediaflow_is_ready
         chan     : BOOLEAN,                      \* dce_is_chan_open
         media    : BOOLEAN]                      \* started

ASSUME NoFlowAssumption == None \notin Flow

\* struct ecall.  ended and the two counters are not in the code: whether the
\* user has hung up, and how many connections and flows the device has made.
Call == [econn    : Conn \cup {None},
         mf       : Flow \cup {None},
         async    : {"NONE", "OFFER", "ANSWER", "COMPLETE"},
         answered : BOOLEAN,
         update   : BOOLEAN,
         tmr      : BOOLEAN,                      \* channel_estab_handler, 1 ms
         mtmr     : BOOLEAN,                      \* media_start_tmr, 5 s
         ended    : BOOLEAN,
         nconn    : Nat,
         nmf      : Nat]

ecall_alloc(nconn, nmf) ==
    [econn |-> None, mf |-> None, async |-> "NONE", answered |-> FALSE,
     update |-> FALSE, tmr |-> FALSE, mtmr |-> FALSE, ended |-> FALSE,
     nconn |-> nconn, nmf |-> nmf]

Begin(x) == [x |-> x, out |-> {}, closed |-> FALSE, err |-> FALSE]
Fail(s)  == [s EXCEPT !.err = TRUE]

econn_current_state(x) == IF x.econn = None THEN "IDLE" ELSE x.econn.state

\* The application destroys the call in its close callback, which ends it
\* without any message of its own.
ecall_close(s) == [s EXCEPT !.closed = TRUE, !.x.mf = None]

\* SETUP, UPDATE and CANCEL go to the backend.  HANGUP needs an open channel,
\* and is tagged with the flow it travels on.
send_handler(x, out) ==
    {p \in out : p.type # "HANGUP"} \cup
    {[p EXCEPT !.sdp = x.mf.id] :
        p \in {q \in out : q.type = "HANGUP" /\ x.mf # None /\ x.mf.chan}}

\* Take over what a function of econn.c left behind.
Adopt(s, r) ==
    [s EXCEPT !.x.econn = r.conn, !.err = r.err,
              !.out = @ \cup send_handler(s.x, r.out)]

----------------------------------------------------------------------------
\* The mediaflow's side of offer and answer.

mediaflow_alloc(id) ==
    [id |-> id, gathered |-> FALSE, sdp |-> "IDLE", offerer |-> FALSE,
     rid |-> None, live |-> FALSE, ready |-> FALSE, chan |-> FALSE,
     media |-> FALSE]

mediaflow_generate_offer(mf)  == [mf EXCEPT !.sdp = "GOFF", !.offerer = TRUE]
mediaflow_generate_answer(mf) == [mf EXCEPT !.sdp = "DONE"]

\* Mutant: a flow that had made an offer stays the offerer.
HandleOfferKeepsRole(mf, sdp) == [mf EXCEPT !.sdp = "HOFF", !.rid = sdp]

mediaflow_handle_offer(mf, sdp) ==
    [mf EXCEPT !.sdp = "HOFF", !.offerer = FALSE, !.rid = sdp]
mediaflow_handle_answer(mf, sdp) == [mf EXCEPT !.sdp = "DONE", !.rid = sdp]
mediaflow_sdpstate_reset(mf) ==
    IF mf = None THEN None ELSE [mf EXCEPT !.sdp = "IDLE"]

\* Whether handle_offer and handle_answer accept the SDP.  Only handle_offer
\* rejects a wrong sdp_state; the others warn and go on.
OfferOK(mf, e)  == mf # None /\ e["sdp"] /\ mf.sdp = "IDLE"
AnswerOK(mf, e) == mf # None /\ e["sdp"]

alloc_mediaflow(s, c, e) ==
    IF e["alloc"]
    THEN [s EXCEPT !.x.mf = mediaflow_alloc(<<c, s.x.nmf + 1>>), !.x.nmf = @ + 1]
    ELSE Fail([s EXCEPT !.x.mf = None])

----------------------------------------------------------------------------
\* Offers and answers, at once or when gathering completes.

offer_and_connect(s, e) ==
    LET t == [s EXCEPT !.x.mf = mediaflow_generate_offer(@)]
    IN  Adopt(t, IF t.x.update
                 THEN econn_update_req(t.x.econn, t.x.mf.id, e["tx"])
                 ELSE econn_start(t.x.econn, t.x.mf.id, e["tx"]))

generate_offer(s, e) ==
    CASE s.x.mf.gathered -> offer_and_connect(s, e)
      [] ~s.x.mf.gathered /\ s.x.async # "NONE" -> Fail(s)
      [] OTHER -> [s EXCEPT !.x.async = "OFFER"]

generate_answer(s, e) ==
    LET t == [s EXCEPT !.x.mf = [mediaflow_generate_answer(@) EXCEPT !.live = TRUE]]
        u == Adopt(t, IF t.x.update
                      THEN econn_update_resp(t.x.econn, t.x.mf.id, e["tx"])
                      ELSE econn_answer(t.x.econn, t.x.mf.id, e["tx"]))
    IN  IF t.x.update /\ t.x.mf.chan
        THEN [u EXCEPT !.x.econn = econn_set_datachan_established(@)]
        ELSE u

generate_or_gather_answer(s, e) ==
    CASE s.x.mf.gathered -> generate_answer(s, e)
      [] ~s.x.mf.gathered /\ s.x.async \notin {"NONE", "OFFER"} -> Fail(s)
      [] OTHER -> [s EXCEPT !.x.async = "ANSWER"]

\* Mutant: gathering that completes after the call ended still connects.
GatherIgnoresState(s, e) ==
    LET t == IF s.x.async = "OFFER" THEN offer_and_connect(s, e)
                                    ELSE generate_answer(s, e)
    IN  IF s.x.async \in {"NONE", "COMPLETE"} THEN s
        ELSE IF t.err THEN ecall_close(t) ELSE [t EXCEPT !.x.async = "COMPLETE"]

mf_gather_handler(s, e) ==
    LET t == IF s.x.async = "OFFER" THEN offer_and_connect(s, e)
                                    ELSE generate_answer(s, e)
    IN  CASE \/ econn_current_state(s.x) = "TERMINATING"
             \/ s.x.async \in {"NONE", "COMPLETE"} -> s
          [] OTHER -> IF t.err THEN ecall_close(t)
                               ELSE [t EXCEPT !.x.async = "COMPLETE"]

----------------------------------------------------------------------------
\* The connection's callbacks.

econn_conn_handler(s, c, m, e) ==
    LET t == IF s.x.mf = None THEN alloc_mediaflow(s, c, e) ELSE s
    IN  IF t.err \/ ~OfferOK(t.x.mf, e) THEN ecall_close(t)
        ELSE [t EXCEPT !.x.mf = mediaflow_handle_offer(@, m.sdp)]

econn_answer_handler(s, reset, m, e) ==
    LET mf == mediaflow_sdpstate_reset(s.x.mf)
        t  == generate_or_gather_answer(
                [s EXCEPT !.x.mf = mediaflow_handle_offer(mf, m.sdp)], e)
    IN  CASE reset /\ ~OfferOK(mf, e) -> ecall_close(s)
          [] reset /\ OfferOK(mf, e) ->
               IF t.err THEN ecall_close(t) ELSE [t EXCEPT !.x.answered = TRUE]
          [] ~reset /\ s.x.answered -> s
          [] ~reset /\ ~s.x.answered ->
               IF ~AnswerOK(s.x.mf, e) THEN ecall_close(s)
               ELSE [s EXCEPT
                       !.x.mf = [mediaflow_handle_answer(@, m.sdp) EXCEPT !.live = TRUE],
                       !.x.answered = TRUE]

econn_update_req_handler(s, c, m, e) ==
    LET t == alloc_mediaflow([s EXCEPT !.x.update = TRUE], c, e)
        u == generate_or_gather_answer(
               [t EXCEPT !.x.mf = mediaflow_handle_offer(@, m.sdp),
                         !.x.async = "NONE"], e)
    IN  IF t.err \/ ~OfferOK(t.x.mf, e) THEN ecall_close(t)
        ELSE IF u.err THEN ecall_close(u) ELSE u

econn_update_resp_handler(s, m, e) ==
    LET t == [s EXCEPT !.x.mf = [mediaflow_handle_answer(@, m.sdp) EXCEPT !.live = TRUE]]
    IN  IF ~s.x.update THEN s
        ELSE IF ~AnswerOK(s.x.mf, e) THEN ecall_close(s)
        ELSE IF t.x.mf.chan
        THEN [t EXCEPT !.x.econn = econn_set_datachan_established(@)]
        ELSE t

\* Run the callback that a function of econn.c makes last.
Dispatch(s, c, cb, m, e) ==
    CASE cb = "none"         -> s
      [] cb = "conn"         -> econn_conn_handler(s, c, m, e)
      [] cb = "answer"       -> econn_answer_handler(s, FALSE, m, e)
      [] cb = "answer_reset" -> econn_answer_handler(s, TRUE, m, e)
      [] cb = "update_req"   -> econn_update_req_handler(s, c, m, e)
      [] cb = "update_resp"  -> econn_update_resp_handler(s, m, e)
      [] cb = "close"        -> ecall_close(s)

EconnStep(s, c, r, m, e) == Dispatch(Adopt(s, r), c, r.cb, m, e)

----------------------------------------------------------------------------
\* The application interface, and what the marshalling queue does with errors.

ecall_end(s) ==
    LET t == IF s.x.econn = None THEN s ELSE Adopt(s, econn_end(s.x.econn))
    IN  IF t.x.mf = None THEN t ELSE [t EXCEPT !.x.mf.media = FALSE]

EndOnError(s) == IF s.err THEN ecall_end(s) ELSE s

create_econn(s, c) ==
    [s EXCEPT !.x.econn = econn_alloc(c, <<c, s.x.nconn + 1>>),
              !.x.nconn = @ + 1]

ecall_start(s, c, e) ==
    LET t == [create_econn(s, c) EXCEPT !.x.econn.state = "PENDING_OUTGOING"]
        u == alloc_mediaflow(t, c, e)
    IN  IF s.x.econn # None THEN Fail(s)
        ELSE IF u.err THEN u ELSE generate_offer([u EXCEPT !.x.async = "NONE"], e)

ecall_answer(s, e) ==
    LET t == generate_or_gather_answer(s, e)
    IN  IF econn_current_state(s.x) # "PENDING_INCOMING" \/ s.x.mf = None
        THEN Fail(s)
        ELSE IF t.err THEN t ELSE [t EXCEPT !.x.answered = TRUE]

ecall_restart(s, c, e) ==
    LET t == alloc_mediaflow([s EXCEPT !.x.update = TRUE], c, e)
    IN  IF econn_current_state(s.x) \notin {"ANSWERED", "DATACHAN_ESTABLISHED"}
        THEN Fail(s)
        ELSE IF t.err THEN t ELSE generate_offer([t EXCEPT !.x.async = "NONE"], e)

ecall_media_start(s, e) ==
    IF s.x.mf = None \/ ~s.x.mf.ready THEN s
    ELSE IF e["media"] THEN [s EXCEPT !.x.mf.media = TRUE, !.x.mtmr = FALSE]
                       ELSE Fail(s)

econn_is_creator(c, m) ==
    Userid[c] # Userid[m.from] /\ ~m.resp /\ m.type = "SETUP"

\* From the user's own devices only SETUP(r) matters: the call was answered
\* elsewhere, stop ringing.
ecall_msg_recv(s, c, m, e) ==
    LET t == IF s.x.econn = None /\ econn_is_creator(c, m)
             THEN create_econn(s, c) ELSE s
        own == Userid[c] = Userid[m.from]
        answered_elsewhere ==
            m.type = "SETUP" /\ m.resp /\ econn_current_state(s.x) = "PENDING_INCOMING"
    IN  CASE own /\ answered_elsewhere ->
               EconnStep(s, c, econn_close(s.x.econn), m, e)
          [] ~own /\ t.x.econn # None ->
               EconnStep(t, c, econn_recv_message(t.x.econn, m), m, e)
          [] OTHER -> s

=============================================================================
