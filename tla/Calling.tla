------------------------------ MODULE Calling ------------------------------
(***************************************************************************)
(* The devices of a 1:1 conversation calling each other: every device runs *)
(* one call object (Ecall, Econn), the backend carries SETUP, UPDATE and   *)
(* CANCEL to every other device of both users, and the data channel of a   *)
(* paired flow carries HANGUP.  The backend may lose, delay and reorder,   *)
(* and with the input "duplicate" also repeat, what it carries.             *)
(***************************************************************************)
EXTENDS Ecall

CONSTANTS MaxConn,      \* bound: connections a device makes
          MaxMf,        \* bound: mediaflows a device makes
          Callers,      \* bound: the devices whose users place calls
          Inputs        \* bound: the optional inputs that occur

InputKind == {"restart",        \* network changes during a call
              "media",          \* the media manager starts and holds media
              "failure",        \* flows fail
              "duplicate"}      \* the backend delivers a message again

ASSUME BoundAssumption ==
    /\ MaxConn \in Nat /\ MaxMf \in Nat
    /\ Callers \subseteq Client /\ Inputs \subseteq InputKind

VARIABLES call,         \* the call object of each device
          net           \* messages in flight

vars == <<call, net>>

\* A message on its way: to one device, from a device's connection.
Packet == [to : Client, from : Client, sess : Session,
           type : MsgType, resp : BOOLEAN, sdp : MfId \cup {None}]

\* The backend fans a message out to every other device; a HANGUP reaches
\* the device that owns the flow's peer.
Receivers(c, p) ==
    {d \in Client : IF p.type = "HANGUP" THEN d = call[c].mf.rid[1] ELSE d # c}

Post(c, s) ==
    UNION {{[to |-> d, from |-> c, sess |-> s.x.econn.sessid_local,
             type |-> p.type, resp |-> p.resp, sdp |-> p.sdp] : d \in Receivers(c, p)} :
           p \in s.out}

\* The end of a step of device c: what it sent leaves, a closed call is
\* destroyed by the application.
Commit(c, s, rest) ==
    /\ s.x.nconn <= MaxConn /\ s.x.nmf <= MaxMf
    /\ call' = [call EXCEPT ![c] = IF s.closed THEN ecall_alloc(s.x.nconn, s.x.nmf)
                                               ELSE s.x]
    /\ net' = rest \cup Post(c, s)

Init == /\ call = [c \in Client |-> ecall_alloc(0, 0)]
        /\ net = {}

----------------------------------------------------------------------------
\* The user and the device.

Start(c) ==
    /\ c \in Callers
    /\ call[c].econn = None
    /\ \E e \in Env : Commit(c, EndOnError(ecall_start(Begin(call[c]), c, e)), net)

Answer(c) ==
    /\ econn_current_state(call[c]) = "PENDING_INCOMING"
    /\ \E e \in Env : Commit(c, EndOnError(ecall_answer(Begin(call[c]), e)), net)

End(c) ==
    /\ call[c].econn # None
    /\ Commit(c, ecall_end(Begin([call[c] EXCEPT !.ended = TRUE])), net)

\* The network interface of the device changed.  A failed restart is logged.
Restart(c) ==
    /\ "restart" \in Inputs
    /\ econn_current_state(call[c]) \in {"ANSWERED", "DATACHAN_ESTABLISHED"}
    /\ \E e \in Env : Commit(c, ecall_restart(Begin(call[c]), c, e), net)

\* The media manager routed audio to the call, or put it on hold.
MediaStart(c) ==
    /\ "media" \in Inputs
    /\ call[c].mf # None /\ call[c].mf.ready /\ ~call[c].mf.media
    /\ \E e \in Env : Commit(c, EndOnError(ecall_media_start(Begin(call[c]), e)), net)

ecall_media_stop(c) ==
    /\ call[c].mf # None /\ call[c].mf.media
    /\ Commit(c, Begin([call[c] EXCEPT !.mf.media = FALSE]), net)

----------------------------------------------------------------------------
\* The connection's timer.

ConnTimer(c) ==
    /\ call[c].econn # None
    /\ call[c].econn.tmr # "none"
    /\ LET r == tmr_handler(call[c].econn)
       IN  Commit(c, ecall_close(Adopt(Begin(call[c]), r)), net)

----------------------------------------------------------------------------
\* The mediaflow.  Two flows can reach each other when each applied the
\* other's SDP and both run their connectivity checks.

Paired(c, d) ==
    /\ call[c].mf # None /\ call[d].mf # None
    /\ call[c].mf.rid = call[d].mf.id
    /\ call[d].mf.rid = call[c].mf.id

Gather(c) ==
    /\ call[c].mf # None
    /\ ~call[c].mf.gathered
    /\ \E e \in Env :
         Commit(c, mf_gather_handler(Begin([call[c] EXCEPT !.mf.gathered = TRUE]), e), net)

mf_estab_handler(c) ==
    /\ \E d \in Client : Paired(c, d) /\ call[c].mf.live /\ call[d].mf.live
    /\ ~call[c].mf.ready
    /\ Commit(c, Begin([call[c] EXCEPT !.mf.ready = TRUE, !.mtmr = TRUE]), net)

media_start_timeout_handler(c) ==
    /\ "media" \in Inputs
    /\ call[c].mtmr
    /\ Commit(c, ecall_end(Begin([call[c] EXCEPT !.mtmr = FALSE])), net)


\* Gathering, ICE, DTLS or RTP failed.
mf_close_handler(c) ==
    /\ "failure" \in Inputs
    /\ call[c].mf # None
    /\ Commit(c, ecall_end(Begin([call[c] EXCEPT !.mf.live = FALSE,
                                                 !.mf.ready = FALSE])), net)

\* SCTP is up: the flow that made the offer opens the channel.  The request
\* opens it at the peer first, whose ACK opens it here; or it cannot be sent.
data_channel_open_handler(c) ==
    /\ \E d \in Client : /\ Paired(c, d) /\ call[c].mf.ready /\ call[d].mf.ready
                         /\ IF call[c].mf.offerer THEN call[d].mf.chan
                                                  ELSE call[d].mf.offerer
    /\ ~call[c].mf.chan
    /\ Commit(c, Begin([call[c] EXCEPT !.mf.chan = TRUE, !.tmr = TRUE]), net)

data_estab_handler(c) ==
    /\ "failure" \in Inputs
    /\ call[c].mf # None /\ call[c].mf.ready /\ call[c].mf.offerer /\ ~call[c].mf.chan
    /\ Commit(c, ecall_close(Begin(call[c])), net)

channel_estab_handler(c) ==
    /\ call[c].tmr
    /\ Commit(c, Begin([call[c] EXCEPT !.tmr = FALSE,
                          !.econn = econn_set_datachan_established(@)]), net)

data_channel_closed_handler(c) ==
    /\ "failure" \in Inputs
    /\ call[c].mf # None /\ call[c].mf.chan
    /\ Commit(c, ecall_close(Begin(call[c])), net)

----------------------------------------------------------------------------
\* Messages.

Remaining(m) == {net \ {m}} \cup IF "duplicate" \in Inputs THEN {net} ELSE {}

RecvBackend(m) ==
    /\ m.type # "HANGUP"
    /\ \E e \in Env, rest \in Remaining(m) :
         Commit(m.to, ecall_msg_recv(Begin(call[m.to]), m.to, m, e), rest)

RecvDataChannel(m) ==
    /\ m.type = "HANGUP"
    /\ call[m.to].mf # None
    /\ call[m.to].mf.chan
    /\ call[m.to].mf.rid = m.sdp
    /\ \E e \in Env :
         Commit(m.to, EconnStep(Begin(call[m.to]), m.to,
                        econn_recv_message(call[m.to].econn, m), m, e), net \ {m})

----------------------------------------------------------------------------
Next ==
    \/ \E c \in Client :
         \/ Start(c)
         \/ Answer(c)
         \/ End(c)
         \/ Restart(c)
         \/ MediaStart(c)
         \/ ecall_media_stop(c)
         \/ ConnTimer(c)
         \/ Gather(c)
         \/ mf_estab_handler(c)
         \/ media_start_timeout_handler(c)
         \/ mf_close_handler(c)
         \/ data_estab_handler(c)
         \/ data_channel_open_handler(c)
         \/ channel_estab_handler(c)
         \/ data_channel_closed_handler(c)
    \/ \E m \in net : RecvBackend(m) \/ RecvDataChannel(m)

Spec == Init /\ [][Next]_vars

\* The event loop runs an expired timer, so an armed connection timer fires.
FairSpec == Spec /\ \A c \in Client : WF_vars(ConnTimer(c))

----------------------------------------------------------------------------
\* Properties.

\* The states of a connection that was answered and not yet ended.
Live == {"ANSWERED", "DATACHAN_ESTABLISHED", "UPDATE_SENT", "UPDATE_RECV"}

InState(c, states) == call[c].econn # None /\ call[c].econn.state \in states

\* c and d are each other's remote session.
Linked(c, d) ==
    /\ call[c].econn # None /\ call[d].econn # None
    /\ call[c].econn.sessid_remote = call[d].econn.sessid_local
    /\ call[d].econn.sessid_remote = call[c].econn.sessid_local

\* The side that sent the SETUP response: the callee, or the loser of a glare.
Answerer(n) == n.dir = "INCOMING" \/ n.conflict = -1

\* Every call object is well-formed, and so is every message in flight.
TypeOK == /\ call \in [Client -> Call]
          /\ net \subseteq Packet

\* No device rings, waits for an answer to SETUP or UPDATE, or waits for
\* HANGUP(r) without tmr_local running, whatever fails: no call waits forever.
WaitIsTimed == \A c \in Client : call[c].econn # None => Timed(call[c].econn)

\* A connection in TERMINATING still has the timer that will run its close
\* callback ("The call was terminated, called once.", ecall_close_h).
ClosingIsTimed ==
    \A c \in Client : call[c].econn # None => ClosingTimed(call[c].econn)

\* A CANCEL or HANGUP is in flight only for a connection that is over at its
\* sender: no later event brings back a connection the peer was told is gone.
EndedIsOver ==
    \A m \in net, c \in Client :
        /\ m.type \in {"CANCEL", "HANGUP"}
        /\ call[c].econn # None
        /\ call[c].econn.sessid_local = m.sess
        => InState(c, {"HANGUP_SENT", "TERMINATING"})

\* Two answered connections of the same call agree who answered whom, also
\* when both users called at once and econn_iswinner had to decide.
RolesComplement ==
    \A c, d \in Client :
        Linked(c, d) /\ InState(c, Live) /\ InState(d, Live)
        => Answerer(call[c].econn) # Answerer(call[d].econn)

\* Of two flows that reach each other exactly one made the offer, so exactly
\* one side opens the data channel, through glare and crossing restarts.
OneOfferer == \A c, d \in Client : Paired(c, d) => call[c].mf.offerer # call[d].mf.offerer

\* Media flows only between the two ends of one call: flows reach each other
\* only if the connections that carried their SDP name each other's session.
PairedLinked == \A c, d \in Client : Paired(c, d) => Linked(c, d)


\* A connection leaves TERMINATING only by being destroyed: neither gathering
\* that completes late nor a late message starts it again.
TerminatingIsFinal ==
    [][\A c \in Client :
         InState(c, {"TERMINATING"})
         => \/ call'[c].econn = None
            \/ /\ call'[c].econn.state = "TERMINATING"
               /\ call'[c].econn.sessid_local = call[c].econn.sessid_local]_vars

\* The peer of an answered call never changes: no message of another device
\* or of another session of the same device takes the call over.
PeerIsPinned ==
    [][\A c \in Client :
         InState(c, Live) /\ call'[c].econn # None
         => /\ call'[c].econn.sessid_remote = call[c].econn.sessid_remote
            /\ call'[c].econn.clientid_remote = call[c].econn.clientid_remote]_vars

\* When the user hangs up, the call goes away (wcall_end, ecall_end).
EndCloses == \A c \in Client : call[c].ended ~> ~call[c].ended

\* The answer a caller acts on is an answer to this call: the session it then
\* talks to, while it lasts, was answering the caller's session.
AnsweredByPeer ==
    \A c, d \in Client :
        /\ InState(c, Live) /\ ~Answerer(call[c].econn)
        /\ InState(d, Live)
        /\ call[c].econn.sessid_remote = call[d].econn.sessid_local
        => Linked(c, d)

\* A connection asks for an update only while the call is up (the states that
\* econn_update_req names).
UpdateFromAnswered ==
    [][\A c \in Client :
         /\ call[c].econn # None /\ ~InState(c, {"UPDATE_SENT"})
         /\ call'[c].econn # None /\ call'[c].econn.state = "UPDATE_SENT"
         => InState(c, {"ANSWERED", "DATACHAN_ESTABLISHED"})]_vars

\* Does not hold when the response overtakes the SETUP (ecall_msg_recv).
\* A device rings for a call that another device of its user has answered only
\* until it is told so: while the SETUP response to it is still in flight.
RingingStops ==
    \A c, d \in Client :
        /\ InState(c, {"PENDING_INCOMING"}) /\ InState(d, {"ANSWERED"})
        /\ Userid[c] = Userid[d] /\ call[d].econn.dir = "INCOMING"
        /\ call[c].econn.sessid_remote = call[d].econn.sessid_remote
        => \E m \in net : m.to = c /\ m.from = d /\ m.type = "SETUP" /\ m.resp

=============================================================================
