--------------------------- MODULE CallingProofs ---------------------------
(***************************************************************************)
(* Theorems about Calling, for any set of devices, any number of calls and *)
(* flows and any faults and inputs.  The inductive invariant IInv joins    *)
(* the types with the contract of EcallProofs: neither is inductive alone, *)
(* because a message may only be posted by a device that has a connection  *)
(* and a timer is only known to run if every function left it running.     *)
(***************************************************************************)
EXTENDS Calling, EcallProofs

IInv == /\ TypeOK
        /\ \A c \in Client : Own(call[c], c) /\ Safe(call[c])

LEMMA InitIInv == Init => IInv
<1> SUFFICES ASSUME Init PROVE IInv
  OBVIOUS
<1>1. ecall_alloc(0, 0) \in Call
  BY DEF ecall_alloc, Call
<1>2. call \in [Client -> Call] /\ net = {}
  BY <1>1 DEF Init
<1>3. \A c \in Client : call[c].econn = None /\ call[c].mf = None /\ ~call[c].tmr
  BY DEF Init, ecall_alloc
<1> QED
  BY <1>2, <1>3 DEF IInv, TypeOK, Own, Safe

\* What a step posts are packets.
LEMMA PostType ==
  ASSUME NEW c \in Client, NEW s, Well(s, c)
  PROVE  Post(c, s) \subseteq Packet
<1>1. s.out \subseteq Payload /\ (s.out # {} => s.x.econn \in Conn)
  BY DEF Well, Shape, Step, Call
<1>2. \A p \in s.out : s.x.econn.sessid_local \in Session
  BY <1>1 DEF Conn
<1>3. ASSUME NEW p \in s.out, NEW d \in Client
      PROVE  [to |-> d, from |-> c, sess |-> s.x.econn.sessid_local,
              type |-> p.type, resp |-> p.resp, sdp |-> p.sdp] \in Packet
  BY <1>1, <1>2 DEF Packet, Payload
<1>4. \A p \in s.out : Receivers(c, p) \subseteq Client
  BY DEF Receivers
<1> QED
  BY <1>3, <1>4 DEF Post

LEMMA CommitIInv ==
  ASSUME IInv, NEW c \in Client, NEW s, Well(s, c), NEW rest \in SUBSET Packet,
         Commit(c, s, rest)
  PROVE  IInv'
<1> DEFINE x == IF s.closed THEN ecall_alloc(s.x.nconn, s.x.nmf) ELSE s.x
<1>1. x \in Call /\ Own(x, c) /\ Safe(x)
  <2>1. s.x \in Call
    BY DEF Well, Shape, Step
  <2>2. CASE s.closed
    <3>1. ecall_alloc(s.x.nconn, s.x.nmf) \in Call
      BY <2>1 DEF ecall_alloc, Call
    <3> QED
      BY <2>2, <3>1 DEF ecall_alloc, Own, Safe
  <2>3. CASE ~s.closed
    BY <2>1, <2>3 DEF Well, Shape
  <2> QED
    BY <2>2, <2>3
<1>2. call' = [call EXCEPT ![c] = x] /\ net' = rest \cup Post(c, s)
  BY DEF Commit
<1> HIDE DEF x
<1>3. net' \subseteq Packet
  BY <1>2, PostType
<1>4. call' \in [Client -> Call]
  BY <1>1, <1>2 DEF IInv, TypeOK
<1>5. \A d \in Client : Own(call'[d], d) /\ Safe(call'[d])
  BY <1>1, <1>2 DEF IInv, TypeOK
<1>6. TypeOK'
  BY <1>3, <1>4 DEF TypeOK
<1> QED
  BY <1>5, <1>6 DEF IInv

LEMMA CallWell ==
  ASSUME IInv, NEW c \in Client
  PROVE  /\ call[c] \in Call
         /\ Well(Begin(call[c]), c)
         /\ call[c].mf # None => call[c].mf \in Flow /\ call[c].econn \in Conn
         /\ net \in SUBSET Packet
<1>1. call[c] \in Call /\ Own(call[c], c) /\ Safe(call[c])
  BY DEF IInv, TypeOK
<1>2. net \in SUBSET Packet
  BY DEF IInv, TypeOK
<1>3. call[c].mf # None => call[c].mf \in Flow /\ call[c].econn \in Conn
  BY <1>1 DEF Call, Own
<1> QED
  BY <1>1, <1>2, <1>3, BeginWell

\* A change of the call that keeps the connection, and no flow without one.
LEMMA EditWell ==
  ASSUME IInv, NEW c \in Client, NEW x \in Call,
         x.econn = call[c].econn, x.nconn = call[c].nconn,
         x.mf # None => call[c].mf # None, x.tmr => call[c].econn # None
  PROVE  Well(Begin(x), c)
<1>1. Own(x, c) /\ Safe(x)
  BY DEF IInv, Own, Safe
<1> QED
  BY <1>1, BeginWell

LEMMA MediaStartWell ==
  ASSUME NEW s, NEW c, Well(s, c), NEW e \in Env
  PROVE  Well(ecall_media_start(s, e), c)
<1> DEFINE x == [s.x EXCEPT !.mf.media = TRUE, !.mtmr = FALSE]
           t == [s EXCEPT !.x.mf.media = TRUE, !.x.mtmr = FALSE]
<1>1. ASSUME s.x.mf # None PROVE Well(t, c)
  <2>1. s.x \in Call /\ s.x.mf \in Flow /\ s.x.econn # None
    BY <1>1 DEF Well, Shape, Step, Call, Own
  <2>2. [s.x.mf EXCEPT !.media = TRUE] \in Flow
    BY <2>1 DEF Flow
  <2>3. x \in Call
    BY <2>1, <2>2 DEF Call
  <2>4. t = [s EXCEPT !.x = x]
    BY <2>1 DEF Well, Shape, Step, Call
  <2>5. x.econn = s.x.econn /\ x.nconn = s.x.nconn
    BY <2>1 DEF Call
  <2> HIDE DEF x, t
  <2> QED
    BY <2>1, <2>3, <2>4, <2>5 DEF Well, Shape, Step, Own, Safe
<1>2. \/ ecall_media_start(s, e) \in {s, Fail(s)}
      \/ ecall_media_start(s, e) = t /\ s.x.mf # None
  BY DEF ecall_media_start
<1> QED
  BY <1>1, <1>2, FailWell

\* The user's actions.
LEMMA UserIInv ==
  ASSUME IInv, NEW c \in Client,
         Start(c) \/ Answer(c) \/ End(c) \/ Restart(c) \/ MediaStart(c) \/ ecall_media_stop(c)
  PROVE  IInv'
<1>1. CASE Start(c)
  BY <1>1, CallWell, StartWell, EndOnErrorWell, CommitIInv DEF Start
<1>2. CASE Answer(c)
  BY <1>2, CallWell, UserAnswerWell, EndOnErrorWell, CommitIInv DEF Answer
<1>3. CASE End(c)
  <2> DEFINE x == [call[c] EXCEPT !.ended = TRUE]
  <2>1. /\ x \in Call /\ x.econn = call[c].econn /\ x.nconn = call[c].nconn
        /\ x.mf = call[c].mf /\ call[c].econn # None
    BY <1>3, CallWell DEF Call, End
  <2>2. Commit(c, ecall_end(Begin(x)), net)
    BY <1>3 DEF End
  <2> HIDE DEF x
  <2> QED
    BY <2>1, <2>2, EditWell, EndWell, CallWell, CommitIInv
<1>4. CASE Restart(c)
  BY <1>4, CallWell, RestartWell, CommitIInv DEF Restart
<1>5. CASE MediaStart(c)
  BY <1>5, CallWell, MediaStartWell, EndOnErrorWell, CommitIInv DEF MediaStart
<1>6. CASE ecall_media_stop(c)
  <2> DEFINE x == [call[c] EXCEPT !.mf.media = FALSE]
  <2>1. call[c] \in Call /\ call[c].mf \in Flow
    BY <1>6, CallWell DEF ecall_media_stop
  <2>2. [call[c].mf EXCEPT !.media = FALSE] \in Flow
    BY <2>1 DEF Flow
  <2>3. x \in Call /\ x.econn = call[c].econn /\ x.nconn = call[c].nconn
    BY <2>1, <2>2 DEF Call
  <2>4. Commit(c, Begin(x), net) /\ call[c].mf # None /\ call[c].econn # None
    BY <1>6 DEF ecall_media_stop, IInv, Own
  <2> HIDE DEF x
  <2> QED
    BY <2>3, <2>4, EditWell, CallWell, CommitIInv
<1> QED
  BY <1>1, <1>2, <1>3, <1>4, <1>5, <1>6

\* Timers and the events of the mediaflow.
LEMMA FlowIInv ==
  ASSUME IInv, NEW c \in Client,
         \/ ConnTimer(c) \/ Gather(c) \/ mf_estab_handler(c)
         \/ media_start_timeout_handler(c) \/ mf_close_handler(c) \/ data_estab_handler(c)
         \/ data_channel_open_handler(c) \/ channel_estab_handler(c)
         \/ data_channel_closed_handler(c)
  PROVE  IInv'
<1> DEFINE Edit(x) == /\ x \in Call
                      /\ x.econn = call[c].econn
                      /\ x.nconn = call[c].nconn
                      /\ x.mf # None => call[c].mf # None
                      /\ x.tmr => call[c].econn # None
<1>0. /\ call[c] \in Call /\ net \in SUBSET Packet /\ Well(Begin(call[c]), c)
      /\ call[c].mf # None \/ call[c].tmr => call[c].econn # None
  BY CallWell DEF IInv, Own
<1>a. ASSUME NEW x, Edit(x) PROVE Well(Begin(x), c)
  BY <1>a, EditWell
<1>b. ASSUME NEW s, Well(s, c), Commit(c, s, net) PROVE IInv'
  BY <1>b, <1>0, CommitIInv
<1>c. Well(ecall_close(Begin(call[c])), c)
  BY <1>0, CloseWell DEF Well
<1>1. CASE ConnTimer(c)
  <2> DEFINE r == tmr_handler(call[c].econn)
  <2>1. call[c].econn \in Conn /\ Begin(call[c]).x.econn = call[c].econn /\ call[c].econn # None
    BY <1>0, <1>1 DEF ConnTimer, Call, Begin
  <2>2. Keeps(call[c].econn, r, TRUE)
    BY <2>1, CloseKeeps DEF tmr_handler
  <2>3. Commit(c, ecall_close(Adopt(Begin(call[c]), r)), net)
    BY <1>1 DEF ConnTimer
  <2> HIDE DEF r
  <2>4. Shape(Adopt(Begin(call[c]), r), c)
    BY <1>0, <2>1, <2>2, AdoptWell
  <2> QED
    BY <2>3, <2>4, CloseWell, <1>b
<1>2. CASE Gather(c)
  <2> DEFINE x == [call[c] EXCEPT !.mf.gathered = TRUE]
  <2>1. call[c].mf \in Flow
    BY <1>2, CallWell DEF Gather
  <2>2. [call[c].mf EXCEPT !.gathered = TRUE] \in Flow
    BY <2>1 DEF Flow
  <2>3. Edit(x) /\ x.mf \in Flow
    BY <1>0, <1>2, <2>1, <2>2 DEF Call, Gather
  <2>4. PICK e \in Env : Commit(c, mf_gather_handler(Begin(x), e), net)
    BY <1>2 DEF Gather
  <2> HIDE DEF x
  <2>5. Well(Begin(x), c) /\ Begin(x).x.mf \in Flow
    BY <1>a, <2>3 DEF Begin
  <2> QED
    BY <2>4, <2>5, GatherHandlerWell, <1>b
<1>3. CASE mf_estab_handler(c)
  <2> DEFINE x == [call[c] EXCEPT !.mf.ready = TRUE, !.mtmr = TRUE]
  <2>1. call[c].mf # None /\ call[c].mf \in Flow
    BY <1>3, CallWell DEF mf_estab_handler, Paired
  <2>2. [call[c].mf EXCEPT !.ready = TRUE] \in Flow
    BY <2>1 DEF Flow
  <2>3. Edit(x)
    BY <1>0, <2>1, <2>2 DEF Call
  <2>4. Commit(c, Begin(x), net)
    BY <1>3 DEF mf_estab_handler
  <2> HIDE DEF x
  <2> QED
    BY <2>3, <2>4, <1>a, <1>b
<1>4. CASE media_start_timeout_handler(c)
  <2> DEFINE x == [call[c] EXCEPT !.mtmr = FALSE]
  <2>1. Edit(x)
    BY <1>0 DEF Call
  <2>2. Commit(c, ecall_end(Begin(x)), net)
    BY <1>4 DEF media_start_timeout_handler
  <2> HIDE DEF x
  <2> QED
    BY <2>1, <2>2, EndWell, <1>a, <1>b
<1>5. CASE mf_close_handler(c)
  <2> DEFINE x == [call[c] EXCEPT !.mf.live = FALSE, !.mf.ready = FALSE]
  <2>1. call[c].mf # None /\ call[c].mf \in Flow
    BY <1>5, CallWell DEF mf_close_handler
  <2>2. [call[c].mf EXCEPT !.live = FALSE, !.ready = FALSE] \in Flow
    BY <2>1 DEF Flow
  <2>3. Edit(x)
    BY <1>0, <2>1, <2>2 DEF Call
  <2>4. Commit(c, ecall_end(Begin(x)), net)
    BY <1>5 DEF mf_close_handler
  <2> HIDE DEF x
  <2> QED
    BY <2>3, <2>4, EndWell, <1>a, <1>b
<1>6. CASE data_estab_handler(c)
  BY <1>6, <1>b, <1>c DEF data_estab_handler
<1>7. CASE data_channel_open_handler(c)
  <2> DEFINE x == [call[c] EXCEPT !.mf.chan = TRUE, !.tmr = TRUE]
  <2>1. call[c].mf # None /\ call[c].mf \in Flow
    BY <1>7, CallWell DEF data_channel_open_handler, Paired
  <2>2. [call[c].mf EXCEPT !.chan = TRUE] \in Flow
    BY <2>1 DEF Flow
  <2>3. Edit(x)
    BY <1>0, <2>1, <2>2 DEF Call
  <2>4. Commit(c, Begin(x), net)
    BY <1>7 DEF data_channel_open_handler
  <2> HIDE DEF x
  <2> QED
    BY <2>3, <2>4, <1>a, <1>b
<1>8. CASE channel_estab_handler(c)
  <2> DEFINE n == econn_set_datachan_established(call[c].econn)
             x == [call[c] EXCEPT !.tmr = FALSE, !.econn = n]
  <2>1. call[c].econn \in Conn /\ Own(call[c], c) /\ Safe(call[c])
    BY <1>0, <1>8 DEF Call, channel_estab_handler, IInv
  <2>2. /\ Same(call[c].econn, n)
        /\ Timed(call[c].econn) => Timed(n)
        /\ ClosingTimed(call[c].econn) => ClosingTimed(n)
    BY <2>1, DatachanKeeps
  <2>3. Commit(c, Begin(x), net)
    BY <1>0, <1>8 DEF channel_estab_handler, Call
  <2> HIDE DEF n
  <2>4. x \in Call /\ Own(x, c) /\ Safe(x)
    BY <1>0, <2>1, <2>2, NullAssumption DEF Call, Same, Own, Safe
  <2> HIDE DEF x
  <2> QED
    BY <2>3, <2>4, BeginWell, <1>b
<1>9. CASE data_channel_closed_handler(c)
  BY <1>9, <1>b, <1>c DEF data_channel_closed_handler
<1> QED
  BY <1>1, <1>2, <1>3, <1>4, <1>5, <1>6, <1>7, <1>8, <1>9

\* Messages.
LEMMA MessageIInv ==
  ASSUME IInv, NEW m \in net, RecvBackend(m) \/ RecvDataChannel(m)
  PROVE  IInv'
<1>1. m \in Arrival /\ m.to \in Client /\ net \in SUBSET Packet
  BY DEF IInv, TypeOK, Packet, Arrival
<1>2. Well(Begin(call[m.to]), m.to)
  BY <1>1, CallWell
<1>3. CASE RecvBackend(m)
  <2>1. PICK e \in Env, rest \in Remaining(m) :
          Commit(m.to, ecall_msg_recv(Begin(call[m.to]), m.to, m, e), rest)
    BY <1>3 DEF RecvBackend
  <2>2. rest \in SUBSET Packet
    BY <1>1 DEF Remaining
  <2> QED
    BY <1>1, <1>2, <2>1, <2>2, MsgRecvWell, CommitIInv
<1>4. CASE RecvDataChannel(m)
  <2> DEFINE r == econn_recv_message(call[m.to].econn, m)
  <2>1. call[m.to].econn \in Conn /\ call[m.to].econn # None
    BY <1>1, <1>4, CallWell, NullAssumption DEF RecvDataChannel
  <2>2. Keeps(call[m.to].econn, r, TRUE)
    BY <1>1, <2>1, RecvKeeps
  <2>3. PICK e \in Env :
          Commit(m.to, EconnStep(Begin(call[m.to]), m.to, r, m, e), net \ {m})
    BY <1>4 DEF RecvDataChannel
  <2> HIDE DEF r
  <2>4. Begin(call[m.to]).x.econn = call[m.to].econn
    BY DEF Begin
  <2>5. net \ {m} \in SUBSET Packet
    BY <1>1
  <2> QED
    BY <1>1, <1>2, <2>1, <2>2, <2>3, <2>4, <2>5, EconnStepWell, CommitIInv
<1> QED
  BY <1>3, <1>4

LEMMA NextIInv == IInv /\ [Next]_vars => IInv'
<1> SUFFICES ASSUME IInv, [Next]_vars PROVE IInv'
  OBVIOUS
<1>1. CASE UNCHANGED vars
  BY <1>1 DEF vars, IInv, TypeOK
<1>2. CASE Next
  BY <1>2, UserIInv, FlowIInv, MessageIInv DEF Next
<1> QED
  BY <1>1, <1>2

\* The inductive invariant holds in every reachable state: types, who owns what,
\* and the timers of every connection (econn.c) at once.
THEOREM Inductive == Spec => []IInv
BY InitIInv, NextIInv, PTL DEF Spec

\* Every reachable call object and message is well-formed, whatever the users,
\* the network and the faults do.
THEOREM TypeCorrect == Spec => []TypeOK
<1>1. IInv => TypeOK
  BY DEF IInv
<1> QED
  BY <1>1, Inductive, PTL

\* tmr_local runs whenever a device rings or waits for an answer, an update
\* response or HANGUP(r): for any number of devices, calls and restarts, and
\* even if sending, allocating, SDP or media fail.
THEOREM WaitsAreTimed == Spec => []WaitIsTimed
<1>1. IInv => WaitIsTimed
  BY DEF IInv, Safe, WaitIsTimed
<1> QED
  BY <1>1, Inductive, PTL

\* If the transport never refuses a SETUP or UPDATE, a terminating connection
\* always has the timer that closes it.
THEOREM ClosingsAreTimed == ASSUME "tx" \notin Faults PROVE Spec => []ClosingIsTimed
<1>1. IInv => ClosingIsTimed
  BY DEF IInv, Safe, ClosingIsTimed
<1> QED
  BY <1>1, Inductive, PTL

=============================================================================
