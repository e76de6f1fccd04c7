---------------------------- MODULE EcallProofs ----------------------------
(***************************************************************************)
(* What every function of ecall.c leaves behind.  Well is the contract: a  *)
(* step in progress is well-formed, a flow, a timer or a message implies   *)
(* a connection, the connection carries the device's own latest session,   *)
(* and unless the call is closed no wait is left without a timer.          *)
(***************************************************************************)
EXTENDS Ecall, EconnProofs

Step == [x : Call, out : SUBSET Payload, closed : BOOLEAN, err : BOOLEAN]

Own(x, c) ==
    /\ x.mf # None \/ x.tmr => x.econn # None
    /\ x.econn # None => /\ x.econn.self = c
                         /\ x.econn.sessid_local = <<c, x.nconn>>

Safe(x) ==
    x.econn # None => /\ Timed(x.econn)
                      /\ "tx" \notin Faults => ClosingTimed(x.econn)

Shape(s, c) ==
    /\ s \in Step
    /\ Own(s.x, c)
    /\ s.out # {} => s.x.econn # None

Well(s, c) == Shape(s, c) /\ (s.closed \/ Safe(s.x))

LEMMA EnvType ==
  ASSUME NEW e \in Env
  PROVE  /\ \A f \in FaultKind : e[f] \in BOOLEAN
         /\ "tx" \notin Faults => e["tx"]
BY DEF Env, FaultKind

LEMMA BeginWell ==
  ASSUME NEW x \in Call, NEW c, Own(x, c), Safe(x)
  PROVE  Well(Begin(x), c)
BY DEF Begin, Well, Shape, Step

LEMMA FailWell ==
  ASSUME NEW s, NEW c, Well(s, c)
  PROVE  Well(Fail(s), c)
BY DEF Fail, Well, Shape, Step

LEMMA CloseWell ==
  ASSUME NEW s, NEW c, Shape(s, c)
  PROVE  Well(ecall_close(s), c)
BY DEF ecall_close, Well, Shape, Step, Call, Own

\* Updates of the call that leave the connection alone.
LEMMA MfWell ==
  ASSUME NEW s, NEW c, Well(s, c),
         NEW mf \in Flow \cup {None}, mf # None => s.x.econn # None
  PROVE  LET t == [s EXCEPT !.x.mf = mf]
         IN  Well(t, c) /\ t.x.econn = s.x.econn /\ t.x.mf = mf
<1>1. s.x \in Call
  BY DEF Well, Shape, Step
<1>2. [s.x EXCEPT !.mf = mf] \in Call
  BY <1>1 DEF Call
<1> QED
  BY <1>1, <1>2 DEF Well, Shape, Step, Own, Safe, Call

LEMMA AsyncWell ==
  ASSUME NEW s, NEW c, Well(s, c), NEW async \in {"NONE", "OFFER", "ANSWER", "COMPLETE"}
  PROVE  LET t == [s EXCEPT !.x.async = async]
         IN  Well(t, c) /\ t.x.econn = s.x.econn /\ t.x.mf = s.x.mf
<1>1. s.x \in Call
  BY DEF Well, Shape, Step
<1>2. [s.x EXCEPT !.async = async] \in Call
  BY <1>1 DEF Call
<1> QED
  BY <1>1, <1>2 DEF Well, Shape, Step, Own, Safe, Call

LEMMA FlagWell ==
  ASSUME NEW s, NEW c, Well(s, c)
  PROVE  /\ Well([s EXCEPT !.x.update = TRUE], c)
         /\ Well([s EXCEPT !.x.answered = TRUE], c)
         /\ [s EXCEPT !.x.update = TRUE].x.econn = s.x.econn
<1>1. s.x \in Call
  BY DEF Well, Shape, Step
<1>2. [s.x EXCEPT !.update = TRUE] \in Call /\ [s.x EXCEPT !.answered = TRUE] \in Call
  BY <1>1 DEF Call
<1> QED
  BY <1>1, <1>2 DEF Well, Shape, Step, Own, Safe, Call

LEMMA CountWell ==
  ASSUME NEW s, NEW c, Well(s, c), NEW n \in Nat
  PROVE  LET t == [s EXCEPT !.x.nmf = n]
         IN  Well(t, c) /\ t.x.econn = s.x.econn /\ t.x.mf = s.x.mf
<1>1. s.x \in Call
  BY DEF Well, Shape, Step
<1>2. [s.x EXCEPT !.nmf = n] \in Call
  BY <1>1 DEF Call
<1> QED
  BY <1>1, <1>2 DEF Well, Shape, Step, Own, Safe, Call

LEMMA AdoptWell ==
  ASSUME NEW s, NEW c, Well(s, c), s.x.econn # None,
         NEW r, NEW sent \in BOOLEAN, Keeps(s.x.econn, r, sent),
         "tx" \notin Faults => sent
  PROVE  /\ Shape(Adopt(s, r), c)
         /\ r.cb # "close" => Well(Adopt(s, r), c)
<1>1. s.x \in Call /\ r.conn \in Conn /\ r.err \in BOOLEAN /\ r.out \in SUBSET Payload
  BY DEF Well, Shape, Step, Keeps, OutcomeType
<1>2. send_handler(s.x, r.out) \in SUBSET Payload
  BY <1>1 DEF send_handler, Payload, Call, Flow
<1>3. [s.x EXCEPT !.econn = r.conn] \in Call
  BY <1>1 DEF Call
<1> QED
  BY <1>1, <1>2, <1>3, NullAssumption DEF Adopt, Well, Shape, Step, Own, Safe, Keeps, Call

\* The mediaflow's operators build flows.
LEMMA FlowType ==
  /\ \A id \in MfId : mediaflow_alloc(id) \in Flow
  /\ \A mf \in Flow :
       /\ mediaflow_generate_offer(mf) \in Flow
       /\ [mediaflow_generate_answer(mf) EXCEPT !.live = TRUE] \in Flow
       /\ mediaflow_sdpstate_reset(mf) \in Flow \cup {None}
       /\ mf.id \in MfId
  /\ \A mf \in Flow, sdp \in MfId \cup {None} :
       /\ mediaflow_handle_offer(mf, sdp) \in Flow
       /\ [mediaflow_handle_answer(mf, sdp) EXCEPT !.live = TRUE] \in Flow
<1>1. \A id \in MfId : mediaflow_alloc(id) \in Flow
  BY DEF Flow, mediaflow_alloc
<1>2. ASSUME NEW mf \in Flow
      PROVE  /\ mediaflow_generate_offer(mf) \in Flow
             /\ [mediaflow_generate_answer(mf) EXCEPT !.live = TRUE] \in Flow
             /\ mediaflow_sdpstate_reset(mf) \in Flow \cup {None}
             /\ mf.id \in MfId
  BY DEF Flow, mediaflow_generate_offer, mediaflow_generate_answer, mediaflow_sdpstate_reset
<1>3. ASSUME NEW mf \in Flow, NEW sdp \in MfId \cup {None}
      PROVE  /\ mediaflow_handle_offer(mf, sdp) \in Flow
             /\ [mediaflow_handle_answer(mf, sdp) EXCEPT !.live = TRUE] \in Flow
  BY DEF Flow, mediaflow_handle_offer, mediaflow_handle_answer
<1> QED
  BY <1>1, <1>2, <1>3

LEMMA AllocWell ==
  ASSUME NEW s, NEW c \in Client, Well(s, c), s.x.econn # None, NEW e \in Env
  PROVE  LET t == alloc_mediaflow(s, c, e)
         IN  /\ Well(t, c)
             /\ t.x.econn = s.x.econn
             /\ t.err \/ t.x.mf \in Flow
<1>1. CASE e["alloc"]
  <2> DEFINE n  == s.x.nmf + 1
             mf == mediaflow_alloc(<<c, n>>)
  <2>1. n \in Nat
    BY DEF Well, Shape, Step, Call
  <2>2. <<c, n>> \in MfId
    BY <2>1 DEF MfId
  <2>3. mf \in Flow
    BY <2>2, FlowType
  <2>4. alloc_mediaflow(s, c, e) = [s EXCEPT !.x.mf = mf, !.x.nmf = @ + 1]
    BY <1>1 DEF alloc_mediaflow
  <2> HIDE DEF mf
  <2>5. alloc_mediaflow(s, c, e) = [s EXCEPT !.x.mf = mf, !.x.nmf = n]
    BY <2>4 DEF Well, Shape, Step, Call
  <2> DEFINE t1 == [s EXCEPT !.x.mf = mf]
  <2> HIDE DEF n
  <2>6. Well(t1, c) /\ t1.x.econn = s.x.econn /\ t1.x.mf = mf
    BY <2>3, MfWell
  <2>7. alloc_mediaflow(s, c, e) = [t1 EXCEPT !.x.nmf = n]
    BY <2>5
  <2> HIDE DEF t1
  <2>8. /\ Well([t1 EXCEPT !.x.nmf = n], c)
        /\ [t1 EXCEPT !.x.nmf = n].x.econn = t1.x.econn
        /\ [t1 EXCEPT !.x.nmf = n].x.mf = t1.x.mf
    BY <2>1, <2>6, CountWell
  <2> QED
    BY <2>3, <2>6, <2>7, <2>8
<1>2. CASE ~e["alloc"]
  <2> DEFINE t == [s EXCEPT !.x.mf = None]
  <2>1. Well(t, c) /\ t.x.econn = s.x.econn
    BY MfWell
  <2>2. Well(Fail(t), c)
    BY <2>1, FailWell
  <2>3. Fail(t).err /\ Fail(t).x = t.x
    BY DEF Fail, Well, Shape, Step
  <2> QED
    BY <1>2, <2>1, <2>2, <2>3 DEF alloc_mediaflow
<1> QED
  BY <1>1, <1>2

\* A call of econn.c that makes no close callback, on a flow of the call.
LEMMA OfferWell ==
  ASSUME NEW s, NEW c, Well(s, c), s.x.econn # None, s.x.mf \in Flow, NEW e \in Env
  PROVE  Well(offer_and_connect(s, e), c)
<1> DEFINE mf == mediaflow_generate_offer(s.x.mf)
           t  == [s EXCEPT !.x.mf = mf]
           r  == IF t.x.update THEN econn_update_req(t.x.econn, t.x.mf.id, e["tx"])
                               ELSE econn_start(t.x.econn, t.x.mf.id, e["tx"])
<1>1. mf \in Flow
  BY FlowType
<1>2. Well(t, c) /\ t.x.econn = s.x.econn /\ t.x.mf = mf
  BY <1>1, MfWell
<1>3. t.x.econn \in Conn /\ t.x.mf.id \in MfId /\ e["tx"] \in BOOLEAN
  BY <1>1, <1>2, FlowType, EnvType DEF Well, Shape, Step, Call, FaultKind
<1>4. Keeps(t.x.econn, r, e["tx"]) /\ r.cb # "close"
  BY <1>3, InterfaceKeeps
  DEF econn_update_req, econn_start, Request, econn_send_setup, Send, Refuse, Outcome
<1>5. offer_and_connect(s, e) = Adopt(t, r)
  BY DEF offer_and_connect
<1>6. Well(Adopt(t, r), c)
  <2> HIDE DEF t, r
  <2> QED
    BY <1>2, <1>3, <1>4, AdoptWell, EnvType
<1> QED
  BY <1>5, <1>6

LEMMA GenerateOfferWell ==
  ASSUME NEW s, NEW c, Well(s, c), s.x.econn # None, s.x.mf \in Flow, NEW e \in Env
  PROVE  Well(generate_offer(s, e), c)
<1>1. Well([s EXCEPT !.x.async = "OFFER"], c)
  BY AsyncWell
<1> QED
  BY <1>1, OfferWell, FailWell DEF generate_offer

\* The data channel is up: the connection moves on, and stays safe.
LEMMA DatachanWell ==
  ASSUME NEW s, NEW c, Well(s, c), s.x.econn # None
  PROVE  Well([s EXCEPT !.x.econn = econn_set_datachan_established(@)], c)
<1> DEFINE n == econn_set_datachan_established(s.x.econn)
<1>1. s.x \in Call /\ s.x.econn \in Conn
  BY DEF Well, Shape, Step, Call
<1>2. /\ Same(s.x.econn, n)
      /\ Timed(s.x.econn) => Timed(n)
      /\ ClosingTimed(s.x.econn) => ClosingTimed(n)
  BY <1>1, DatachanKeeps
<1>3. [s.x EXCEPT !.econn = n] \in Call /\ n # None
  BY <1>1, <1>2, NullAssumption DEF Call, Same
<1>4. [s EXCEPT !.x.econn = econn_set_datachan_established(@)]
        = [s EXCEPT !.x = [s.x EXCEPT !.econn = n]]
  BY <1>1 DEF Well, Shape, Step, Call
<1>5. Well([s EXCEPT !.x = [s.x EXCEPT !.econn = n]], c)
  BY <1>1, <1>2, <1>3 DEF Well, Shape, Step, Own, Safe, Same, Call
<1> QED
  BY <1>4, <1>5

LEMMA AnswerWell ==
  ASSUME NEW s, NEW c, Well(s, c), s.x.econn # None, s.x.mf \in Flow, NEW e \in Env
  PROVE  Well(generate_answer(s, e), c)
<1> DEFINE mf == [mediaflow_generate_answer(s.x.mf) EXCEPT !.live = TRUE]
           t  == [s EXCEPT !.x.mf = mf]
           r  == IF t.x.update THEN econn_update_resp(t.x.econn, t.x.mf.id, e["tx"])
                               ELSE econn_answer(t.x.econn, t.x.mf.id, e["tx"])
           u  == Adopt(t, r)
<1>1. mf \in Flow
  BY FlowType
<1>2. Well(t, c) /\ t.x.econn = s.x.econn /\ t.x.mf = mf
  BY <1>1, MfWell
<1>3. t.x.econn \in Conn /\ t.x.mf.id \in MfId /\ e["tx"] \in BOOLEAN
  BY <1>1, <1>2, FlowType, EnvType DEF Well, Shape, Step, Call, FaultKind
<1>4. Keeps(t.x.econn, r, e["tx"]) /\ r.cb # "close"
  BY <1>3, InterfaceKeeps
  DEF econn_update_resp, econn_answer, Response, econn_send_setup, Send, Refuse, Outcome
<1>5. generate_answer(s, e)
        = IF t.x.update /\ t.x.mf.chan
          THEN [u EXCEPT !.x.econn = econn_set_datachan_established(@)] ELSE u
  BY DEF generate_answer
<1>6. Well(u, c) /\ u.x.econn # None
  <2>1. r.conn # None
    BY <1>4, NullAssumption DEF Keeps, OutcomeType
  <2> HIDE DEF t, r
  <2>2. Well(u, c)
    BY <1>2, <1>3, <1>4, AdoptWell, EnvType
  <2>3. u.x.econn = r.conn
    BY <1>2 DEF Adopt, Well, Shape, Step, Call
  <2> QED
    BY <2>1, <2>2, <2>3
<1> QED
  <2> HIDE DEF t, u
  <2> QED
    BY <1>5, <1>6, DatachanWell

LEMMA GatherAnswerWell ==
  ASSUME NEW s, NEW c, Well(s, c), s.x.econn # None, s.x.mf \in Flow, NEW e \in Env
  PROVE  Well(generate_or_gather_answer(s, e), c)
<1>1. Well([s EXCEPT !.x.async = "ANSWER"], c)
  BY AsyncWell
<1> QED
  BY <1>1, AnswerWell, FailWell DEF generate_or_gather_answer

LEMMA GatherHandlerWell ==
  ASSUME NEW s, NEW c, Well(s, c), s.x.mf \in Flow, NEW e \in Env
  PROVE  Well(mf_gather_handler(s, e), c)
<1> DEFINE t == IF s.x.async = "OFFER" THEN offer_and_connect(s, e)
                                       ELSE generate_answer(s, e)
<1>1. s.x.econn # None
  BY NoFlowAssumption DEF Well, Shape, Own
<1>2. Well(t, c)
  BY <1>1, OfferWell, AnswerWell
<1>3. Well(ecall_close(t), c) /\ Well([t EXCEPT !.x.async = "COMPLETE"], c)
  <2> HIDE DEF t
  <2>1. Well(ecall_close(t), c)
    BY <1>2, CloseWell DEF Well
  <2>2. Well([t EXCEPT !.x.async = "COMPLETE"], c)
    BY <1>2, AsyncWell
  <2> QED
    BY <2>1, <2>2
<1>4. \/ mf_gather_handler(s, e) = s
      \/ mf_gather_handler(s, e) = ecall_close(t)
      \/ mf_gather_handler(s, e) = [t EXCEPT !.x.async = "COMPLETE"]
  BY DEF mf_gather_handler
<1> QED
  BY <1>3, <1>4

\* The connection's callbacks, on a connection that did not close.
LEMMA ConnHandlerWell ==
  ASSUME NEW s, NEW c \in Client, Well(s, c), s.x.econn # None, NEW m \in Arrival, NEW e \in Env
  PROVE  Well(econn_conn_handler(s, c, m, e), c)
<1> DEFINE t  == IF s.x.mf = None THEN alloc_mediaflow(s, c, e) ELSE s
           mf == mediaflow_handle_offer(t.x.mf, m.sdp)
           u  == [t EXCEPT !.x.mf = mf]
<1>1. Well(t, c) /\ t.x.econn # None
  BY AllocWell
<1>2. \/ econn_conn_handler(s, c, m, e) = ecall_close(t)
      \/ /\ econn_conn_handler(s, c, m, e) = u
         /\ t.x.mf # None
  BY DEF econn_conn_handler, OfferOK
<1>3. Well(ecall_close(t), c)
  <2> HIDE DEF t
  <2> QED
    BY <1>1, CloseWell DEF Well
<1>4. t.x.mf # None => Well(u, c)
  <2> HIDE DEF t
  <2>1. t.x.mf # None => t.x.mf \in Flow
    BY <1>1 DEF Well, Shape, Step, Call
  <2>2. t.x.mf # None => mf \in Flow
    BY <2>1, FlowType DEF Arrival
  <2> HIDE DEF mf
  <2> QED
    BY <1>1, <2>2, MfWell
<1> QED
  BY <1>2, <1>3, <1>4

LEMMA AnswerHandlerWell ==
  ASSUME NEW s, NEW c, Well(s, c), s.x.econn # None, NEW reset \in BOOLEAN,
         NEW m \in Arrival, NEW e \in Env
  PROVE  Well(econn_answer_handler(s, reset, m, e), c)
<1> DEFINE mf == mediaflow_sdpstate_reset(s.x.mf)
           ho == mediaflow_handle_offer(mf, m.sdp)
           o  == [s EXCEPT !.x.mf = ho]
           t  == generate_or_gather_answer(o, e)
           ha == [mediaflow_handle_answer(s.x.mf, m.sdp) EXCEPT !.live = TRUE]
<1>1. s.x.mf \in Flow \cup {None} /\ m.sdp \in MfId \cup {None}
  BY DEF Well, Shape, Step, Call, Arrival
<1>2. Well(ecall_close(s), c)
  BY CloseWell DEF Well
<1>3. ASSUME mf # None PROVE Well(ecall_close(t), c) /\ Well([t EXCEPT !.x.answered = TRUE], c)
  <2>1. mf \in Flow
    BY <1>1, <1>3, FlowType DEF mediaflow_sdpstate_reset
  <2>2. ho \in Flow
    <3> HIDE DEF mf
    <3> QED
      BY <1>1, <2>1, FlowType
  <2>3. Well(o, c) /\ o.x.econn # None /\ o.x.mf \in Flow
    <3> HIDE DEF ho
    <3> QED
      BY <2>2, MfWell
  <2>4. Well(t, c)
    <3> HIDE DEF o
    <3> QED
      BY <2>3, GatherAnswerWell
  <2> HIDE DEF t
  <2> QED
    BY <2>4, CloseWell, FlagWell DEF Well
<1>4. ASSUME s.x.mf # None
      PROVE  Well([s EXCEPT !.x.mf = ha, !.x.answered = TRUE], c)
  <2>1. ha \in Flow
    BY <1>1, <1>4, FlowType
  <2> HIDE DEF ha
  <2>2. Well([s EXCEPT !.x.mf = ha], c)
    BY <2>1, MfWell
  <2>3. Well([[s EXCEPT !.x.mf = ha] EXCEPT !.x.answered = TRUE], c)
    BY <2>2, FlagWell
  <2> QED
    BY <2>3
<1>5. \/ econn_answer_handler(s, reset, m, e) = s
      \/ econn_answer_handler(s, reset, m, e) = ecall_close(s)
      \/ /\ econn_answer_handler(s, reset, m, e) \in
              {ecall_close(t), [t EXCEPT !.x.answered = TRUE]}
         /\ mf # None
      \/ /\ econn_answer_handler(s, reset, m, e) = [s EXCEPT !.x.mf = ha, !.x.answered = TRUE]
         /\ s.x.mf # None
  BY DEF econn_answer_handler, OfferOK, AnswerOK
<1> QED
  BY <1>2, <1>3, <1>4, <1>5

LEMMA UpdateReqHandlerWell ==
  ASSUME NEW s, NEW c \in Client, Well(s, c), s.x.econn # None, NEW m \in Arrival, NEW e \in Env
  PROVE  Well(econn_update_req_handler(s, c, m, e), c)
<1> DEFINE s1 == [s EXCEPT !.x.update = TRUE]
           t  == alloc_mediaflow(s1, c, e)
           ho == mediaflow_handle_offer(t.x.mf, m.sdp)
           t1 == [t EXCEPT !.x.mf = ho]
           t2 == [t1 EXCEPT !.x.async = "NONE"]
           u  == generate_or_gather_answer(t2, e)
<1>1. Well(s1, c) /\ s1.x.econn # None
  BY FlagWell
<1>2. Well(t, c) /\ t.x.econn # None
  <2> HIDE DEF s1
  <2> QED
    BY <1>1, AllocWell
<1>3. Well(ecall_close(t), c)
  <2> HIDE DEF t
  <2> QED
    BY <1>2, CloseWell DEF Well
<1>4. ASSUME t.x.mf # None PROVE Well(u, c)
  <2> HIDE DEF t
  <2>1. t.x.mf \in Flow
    BY <1>2, <1>4 DEF Well, Shape, Step, Call
  <2>2. ho \in Flow
    BY <2>1, FlowType DEF Arrival
  <2> HIDE DEF ho
  <2>3. Well(t1, c) /\ t1.x.econn # None /\ t1.x.mf \in Flow
    BY <1>2, <2>2, MfWell
  <2> HIDE DEF t1
  <2>4. Well(t2, c) /\ t2.x.econn # None /\ t2.x.mf = t1.x.mf
    BY <2>3, AsyncWell
  <2> HIDE DEF t2
  <2> QED
    BY <2>3, <2>4, GatherAnswerWell
<1>5. ASSUME t.x.mf # None PROVE Well(ecall_close(u), c)
  <2>1. Well(u, c)
    BY <1>4, <1>5
  <2> HIDE DEF u
  <2> QED
    BY <2>1, CloseWell DEF Well
<1>6. \/ econn_update_req_handler(s, c, m, e) = ecall_close(t)
      \/ /\ econn_update_req_handler(s, c, m, e) \in {u, ecall_close(u)}
         /\ t.x.mf # None
  BY DEF econn_update_req_handler, OfferOK
<1> QED
  BY <1>3, <1>4, <1>5, <1>6

LEMMA UpdateRespHandlerWell ==
  ASSUME NEW s, NEW c, Well(s, c), s.x.econn # None, NEW m \in Arrival, NEW e \in Env
  PROVE  Well(econn_update_resp_handler(s, m, e), c)
<1> DEFINE ha == [mediaflow_handle_answer(s.x.mf, m.sdp) EXCEPT !.live = TRUE]
           t  == [s EXCEPT !.x.mf = ha]
           u  == [t EXCEPT !.x.econn = econn_set_datachan_established(@)]
<1>1. Well(ecall_close(s), c)
  BY CloseWell DEF Well
<1>2. ASSUME s.x.mf # None PROVE Well(t, c) /\ Well(u, c)
  <2>1. ha \in Flow
    BY <1>2, FlowType DEF Well, Shape, Step, Call, Arrival
  <2> HIDE DEF ha
  <2>2. Well(t, c) /\ t.x.econn # None
    BY <2>1, MfWell
  <2> HIDE DEF t
  <2> QED
    BY <2>2, DatachanWell
<1>3. \/ econn_update_resp_handler(s, m, e) \in {s, ecall_close(s)}
      \/ econn_update_resp_handler(s, m, e) \in {t, u} /\ s.x.mf # None
  BY DEF econn_update_resp_handler, AnswerOK
<1> QED
  BY <1>1, <1>2, <1>3

\* A function of econn.c with the callback it makes.
LEMMA EconnStepWell ==
  ASSUME NEW s, NEW c \in Client, Well(s, c), s.x.econn # None,
         NEW r, Keeps(s.x.econn, r, TRUE), NEW m \in Arrival, NEW e \in Env
  PROVE  Well(EconnStep(s, c, r, m, e), c)
<1> DEFINE t == Adopt(s, r)
<1>1. Shape(t, c) /\ (r.cb # "close" => Well(t, c))
  BY AdoptWell
<1>2. t.x.econn # None /\ r.cb \in Callback
  BY NullAssumption DEF Adopt, Well, Shape, Step, Call, Keeps, OutcomeType
<1> HIDE DEF t
<1>3. Well(ecall_close(t), c)
  BY <1>1, CloseWell
<1>4. r.cb # "close" =>
        /\ Well(econn_conn_handler(t, c, m, e), c)
        /\ Well(econn_answer_handler(t, FALSE, m, e), c)
        /\ Well(econn_answer_handler(t, TRUE, m, e), c)
        /\ Well(econn_update_req_handler(t, c, m, e), c)
        /\ Well(econn_update_resp_handler(t, m, e), c)
  BY <1>1, <1>2, ConnHandlerWell, AnswerHandlerWell, UpdateReqHandlerWell,
     UpdateRespHandlerWell
<1>5. Well(Dispatch(t, c, r.cb, m, e), c)
  BY <1>1, <1>2, <1>3, <1>4 DEF Dispatch, Callback
<1> QED
  BY <1>5 DEF EconnStep, t

\* The application interface.
LEMMA EndWell ==
  ASSUME NEW s, NEW c, Well(s, c)
  PROVE  Well(ecall_end(s), c)
<1> DEFINE r == econn_end(s.x.econn)
           t == IF s.x.econn = None THEN s ELSE Adopt(s, r)
<1>1. Well(t, c)
  <2>1. CASE s.x.econn = None
    BY <2>1
  <2>2. CASE s.x.econn # None
    <3>1. s.x.econn \in Conn
      BY <2>2 DEF Well, Shape, Step, Call
    <3>2. Keeps(s.x.econn, r, TRUE) /\ r.cb # "close"
      BY <3>1, EndKeeps DEF econn_end, Return, Send, Outcome
    <3> HIDE DEF r
    <3> QED
      BY <2>2, <3>2, AdoptWell
  <2> QED
    BY <2>1, <2>2
<1>2. ecall_end(s) = IF t.x.mf = None THEN t ELSE [t EXCEPT !.x.mf.media = FALSE]
  BY DEF ecall_end
<1> HIDE DEF t
<1>3. ASSUME t.x.mf # None PROVE Well([t EXCEPT !.x.mf.media = FALSE], c)
  <2> DEFINE mf == [t.x.mf EXCEPT !.media = FALSE]
  <2>1. t.x.mf \in Flow /\ t.x.econn # None
    BY <1>1, <1>3 DEF Well, Shape, Step, Call, Own
  <2>2. mf \in Flow
    BY <2>1 DEF Flow
  <2>3. [t EXCEPT !.x.mf.media = FALSE] = [t EXCEPT !.x.mf = mf]
    OBVIOUS
  <2> HIDE DEF mf
  <2> QED
    BY <1>1, <2>1, <2>2, <2>3, MfWell
<1> QED
  BY <1>1, <1>2, <1>3

LEMMA EndOnErrorWell ==
  ASSUME NEW s, NEW c, Well(s, c)
  PROVE  Well(EndOnError(s), c)
BY EndWell DEF EndOnError

\* A new connection, possibly already set to PENDING_OUTGOING by ecall_start,
\* waits for nothing yet.
LEMMA CreateWell ==
  ASSUME NEW s, NEW c \in Client, Well(s, c), s.x.econn = None
  PROVE  LET t == create_econn(s, c)
             u == [t EXCEPT !.x.econn.state = "PENDING_OUTGOING"]
         IN  Well(t, c) /\ t.x.econn # None /\ Well(u, c) /\ u.x.econn # None
<1> DEFINE n == s.x.nconn + 1
           k == econn_alloc(c, <<c, n>>)
           l == [k EXCEPT !.state = "PENDING_OUTGOING"]
<1>1. s.x \in Call /\ n \in Nat
  BY DEF Well, Shape, Step, Call
<1>2. <<c, n>> \in Session
  BY <1>1 DEF Session
<1>3. k \in Conn /\ l \in Conn
  BY <1>2 DEF econn_alloc, Conn, ConnState
<1>4. /\ k.self = c /\ l.self = c
      /\ k.sessid_local = <<c, n>> /\ l.sessid_local = <<c, n>>
      /\ Timed(k) /\ Timed(l) /\ ClosingTimed(k) /\ ClosingTimed(l)
  BY DEF econn_alloc, Timed, Waiting, ClosingTimed
<1>5. /\ create_econn(s, c) = [s EXCEPT !.x = [s.x EXCEPT !.econn = k, !.nconn = n]]
      /\ [create_econn(s, c) EXCEPT !.x.econn.state = "PENDING_OUTGOING"]
           = [s EXCEPT !.x = [s.x EXCEPT !.econn = l, !.nconn = n]]
  <2>1. ASSUME NEW a
        PROVE  LET t == [s EXCEPT !.x.econn = a, !.x.nconn = @ + 1]
               IN  /\ t = [s EXCEPT !.x = [s.x EXCEPT !.econn = a, !.nconn = n]]
                   /\ [t EXCEPT !.x.econn.state = "PENDING_OUTGOING"]
                        = [s EXCEPT !.x = [s.x EXCEPT
                             !.econn = [a EXCEPT !.state = "PENDING_OUTGOING"],
                             !.nconn = n]]
    BY <1>1 DEF Well, Shape, Step, Call
  <2> QED
    BY <2>1 DEF create_econn
<1>6. s.x.mf = None /\ s.out = {}
  BY DEF Well, Shape, Own
<1> HIDE DEF n, k, l
<1>7. ASSUME NEW a \in Conn, a.self = c, a.sessid_local = <<c, n>>, Timed(a), ClosingTimed(a)
      PROVE  LET t == [s EXCEPT !.x = [s.x EXCEPT !.econn = a, !.nconn = n]]
             IN  Well(t, c) /\ t.x.econn # None
  <2>1. [s.x EXCEPT !.econn = a, !.nconn = n] \in Call /\ a # None
    BY <1>1, <1>7, NullAssumption DEF Call
  <2> QED
    BY <1>1, <1>6, <1>7, <2>1 DEF Well, Shape, Step, Own, Safe, Call
<1> QED
  BY <1>3, <1>4, <1>5, <1>7

LEMMA StartWell ==
  ASSUME NEW s, NEW c \in Client, Well(s, c), NEW e \in Env
  PROVE  Well(ecall_start(s, c, e), c)
<1> DEFINE t == [create_econn(s, c) EXCEPT !.x.econn.state = "PENDING_OUTGOING"]
           u == alloc_mediaflow(t, c, e)
           v == [u EXCEPT !.x.async = "NONE"]
<1>1. CASE s.x.econn # None
  BY <1>1, FailWell DEF ecall_start
<1>2. CASE s.x.econn = None
  <2>1. Well(t, c) /\ t.x.econn # None
    BY <1>2, CreateWell
  <2>2. ecall_start(s, c, e) = IF u.err THEN u ELSE generate_offer(v, e)
    BY <1>2 DEF ecall_start
  <2> HIDE DEF t
  <2>3. Well(u, c) /\ u.x.econn # None /\ (u.err \/ u.x.mf \in Flow)
    BY <2>1, AllocWell
  <2> HIDE DEF u
  <2>4. Well(v, c) /\ v.x.econn # None /\ (u.err \/ v.x.mf \in Flow)
    BY <2>3, AsyncWell
  <2> HIDE DEF v
  <2> QED
    BY <2>2, <2>3, <2>4, GenerateOfferWell
<1> QED
  BY <1>1, <1>2

LEMMA UserAnswerWell ==
  ASSUME NEW s, NEW c, Well(s, c), NEW e \in Env
  PROVE  Well(ecall_answer(s, e), c)
<1> DEFINE t == generate_or_gather_answer(s, e)
<1>1. CASE econn_current_state(s.x) # "PENDING_INCOMING" \/ s.x.mf = None
  BY <1>1, FailWell DEF ecall_answer
<1>2. CASE ~(econn_current_state(s.x) # "PENDING_INCOMING" \/ s.x.mf = None)
  <2>1. s.x.mf \in Flow /\ s.x.econn # None
    BY <1>2 DEF Well, Shape, Step, Call, Own
  <2>2. Well(t, c)
    BY <2>1, GatherAnswerWell
  <2>3. ecall_answer(s, e) = IF t.err THEN t ELSE [t EXCEPT !.x.answered = TRUE]
    BY <1>2 DEF ecall_answer
  <2> HIDE DEF t
  <2> QED
    BY <2>2, <2>3, FlagWell
<1> QED
  BY <1>1, <1>2

LEMMA RestartWell ==
  ASSUME NEW s, NEW c \in Client, Well(s, c), NEW e \in Env
  PROVE  Well(ecall_restart(s, c, e), c)
<1> DEFINE r == [s EXCEPT !.x.update = TRUE]
           t == alloc_mediaflow(r, c, e)
           v == [t EXCEPT !.x.async = "NONE"]
<1>1. CASE econn_current_state(s.x) \notin {"ANSWERED", "DATACHAN_ESTABLISHED"}
  BY <1>1, FailWell DEF ecall_restart
<1>2. CASE econn_current_state(s.x) \in {"ANSWERED", "DATACHAN_ESTABLISHED"}
  <2>1. s.x.econn # None
    BY <1>2 DEF econn_current_state
  <2>2. Well(r, c) /\ r.x.econn # None
    BY <2>1, FlagWell
  <2>3. ecall_restart(s, c, e) = IF t.err THEN t ELSE generate_offer(v, e)
    BY <1>2 DEF ecall_restart
  <2> HIDE DEF r
  <2>4. Well(t, c) /\ t.x.econn # None /\ (t.err \/ t.x.mf \in Flow)
    BY <2>2, AllocWell
  <2> HIDE DEF t
  <2>5. Well(v, c) /\ v.x.econn # None /\ (t.err \/ v.x.mf \in Flow)
    BY <2>4, AsyncWell
  <2> HIDE DEF v
  <2> QED
    BY <2>3, <2>4, <2>5, GenerateOfferWell
<1> QED
  BY <1>1, <1>2

LEMMA MsgRecvWell ==
  ASSUME NEW s, NEW c \in Client, Well(s, c), NEW m \in Arrival, NEW e \in Env
  PROVE  Well(ecall_msg_recv(s, c, m, e), c)
<1> DEFINE t == IF s.x.econn = None /\ econn_is_creator(c, m)
                THEN create_econn(s, c) ELSE s
<1>1. Well(t, c)
  BY CreateWell
<1>2. s.x.econn # None => Well(EconnStep(s, c, econn_close(s.x.econn), m, e), c)
  <2>1. s.x.econn # None => Keeps(s.x.econn, econn_close(s.x.econn), TRUE)
    BY CloseKeeps DEF Well, Shape, Step, Call
  <2> QED
    BY <2>1, EconnStepWell
<1>3. \/ ecall_msg_recv(s, c, m, e) = s
      \/ /\ ecall_msg_recv(s, c, m, e) = EconnStep(s, c, econn_close(s.x.econn), m, e)
         /\ s.x.econn # None
      \/ /\ ecall_msg_recv(s, c, m, e) =
              EconnStep(t, c, econn_recv_message(t.x.econn, m), m, e)
         /\ t.x.econn # None
  BY DEF ecall_msg_recv, econn_current_state
<1> HIDE DEF t
<1>4. t.x.econn # None =>
        Well(EconnStep(t, c, econn_recv_message(t.x.econn, m), m, e), c)
  <2>1. t.x.econn # None => Keeps(t.x.econn, econn_recv_message(t.x.econn, m), TRUE)
    BY <1>1, RecvKeeps DEF Well, Shape, Step, Call
  <2> QED
    BY <1>1, <2>1, EconnStepWell
<1> QED
  BY <1>2, <1>3, <1>4

=============================================================================
