-------------------------------- MODULE Dce --------------------------------
(***************************************************************************)
(* Data channels (src/dce): two peers open, use and close labelled         *)
(* channels over one SCTP association.  A channel is opened by a request   *)
(* and an ACK on the same stream, and closed by resetting the stream in    *)
(* both directions.  receive_cb and the API hold the peer connection's     *)
(* lock, so a handler is one step.                                         *)
(*                                                                         *)
(* usrsctp itself is external: streams are ordered and reliable, sends may *)
(* be refused, and at most one re-configuration (a reset or the addition   *)
(* of streams) is outstanding per peer.                                    *)
(***************************************************************************)
EXTENDS Integers, Sequences, FiniteSets

CONSTANTS Active,       \* the peer with the active DTLS role; opens even streams
          Passive,      \* the other one; opens odd streams
          Label,        \* the dce_channels the application allocated
          Opener,       \* Label -> Peer: whose application opens the channel
          Closers,      \* the peers whose application closes channels
          NChannels,    \* NUMBER_OF_CHANNELS
          NStreams,     \* NUMBER_OF_STREAMS
          OutStreams,   \* sinit_num_ostreams
          Refusals,     \* what a send may fail with: a subset of {"again", "error"}
          MaxOpen,      \* bound: channels opened
          MaxData,      \* bound: user messages sent
          None          \* NULL

Peer    == {Active, Passive}
Other(p) == IF p = Active THEN Passive ELSE Active
Index   == 0 .. NChannels - 1
Stream  == 0 .. NStreams - 1

ASSUME SizeAssumption ==
    /\ Active # Passive
    /\ Opener \in [Label -> Peer] /\ Closers \subseteq Peer
    /\ NChannels \in Nat \ {0}
    /\ NStreams \in Nat \ {0}
    /\ OutStreams \in 1 .. NStreams
    /\ Refusals \subseteq {"again", "error"}
    /\ None \notin Index \cup Label

VARIABLES pc,           \* struct dce of each peer, with its half of the association
          opened,       \* channels opened so far
          sent          \* user messages sent so far

vars == <<pc, opened, sent>>

Message == [type : {"req", "ack", "data"}, label : Label \cup {None}]

\* struct channel; req and ack are DATA_CHANNEL_FLAGS_SEND_REQ and _SEND_ACK.
Channel == [state : {"CLOSED", "CONNECTING", "OPEN", "CLOSING"},
            i : Stream, o : Stream, label : Label \cup {None},
            req : BOOLEAN, ack : BOOLEAN]

\* struct peer_connection, the id of each dce_channel, and what the callbacks
\* told the application: up from openh until closeh.
\* outs, wire, rst and add are the association: streams, messages in flight,
\* the reset under way and the streams being added.
PeerConnection ==
    [chan : [Index -> Channel],
     istr : [Stream -> Index \cup {None}],
     ostr : [Stream -> Index \cup {None}],
     buf  : SUBSET Stream,
     id   : [Label -> Int],
     up   : [Label -> BOOLEAN],
     outs : 0 .. NStreams,
     wire : [Stream -> Seq(Message)],
     rst  : [stage : {"none", "sent", "done"}, streams : SUBSET Stream],
     add  : 0 .. NStreams]

NoReset == [stage |-> "none", streams |-> {}]

init_peer_connection ==
    [chan |-> [k \in Index |-> [state |-> "CLOSED", i |-> 0, o |-> 0,
                                label |-> None, req |-> FALSE, ack |-> FALSE]],
     istr |-> [s \in Stream |-> None],
     ostr |-> [s \in Stream |-> None],
     buf  |-> {},
     id   |-> [l \in Label |-> -1],
     up   |-> [l \in Label |-> FALSE],
     outs |-> OutStreams,
     wire |-> [s \in Stream |-> <<>>],
     rst  |-> NoReset,
     add  |-> 0]

Init == /\ pc = [p \in Peer |-> init_peer_connection]
        /\ opened = 0
        /\ sent = 0

----------------------------------------------------------------------------
\* The association.  r says whether the socket buffer takes what a step sends;
\* a stream that the peer does not have is an error.

Result == {"ok"} \cup Refusals

Sends(x, s, r) == IF s < x.outs THEN r ELSE "error"

Idle(x) == x.rst = NoReset /\ x.add = 0

Put(x, s, m) == [x EXCEPT !.wire[s] = Append(@, m)]
Msg(type, l) == [type |-> type, label |-> l]

Lowest(S) == CHOOSE k \in S : \A j \in S : k <= j

----------------------------------------------------------------------------
\* Channels and streams.

FreeChannels(x) == {k \in Index : x.chan[k].state = "CLOSED"}
find_free_channel(x) == IF FreeChannels(x) = {} THEN None ELSE Lowest(FreeChannels(x))

valid_o_stream(x, s) == s <= x.outs

\* Mutant: both peers open even streams.
FreeEvenStreams(x, p) == {s \in Stream \ {0} : s < x.outs /\ x.ostr[s] = None /\ s % 2 = 0}

\* Stream 0 is reserved; the active peer opens even streams, the passive odd.
FreeStreams(x, p) ==
    {s \in Stream \ {0} : s < x.outs /\ x.ostr[s] = None /\ (s % 2 = 0) = (p = Active)}

find_free_o_stream(x, p) == IF FreeStreams(x, p) = {} THEN 0 ELSE Lowest(FreeStreams(x, p))

Unassigned(x) == {k \in Index : x.chan[k].state = "CONNECTING" /\ x.chan[k].o = 0}

\* Mutant: more streams are asked for than there is room for.
RequestUnbounded(x) ==
    IF Unassigned(x) # {} /\ Idle(x) THEN [x EXCEPT !.add = Cardinality(Unassigned(x))] ELSE x

request_more_o_streams(x) ==
    LET need == Cardinality(Unassigned(x))
        n == IF x.outs + need > NStreams THEN NStreams - x.outs ELSE need
    IN  IF n > 0 /\ Idle(x) THEN [x EXCEPT !.add = n] ELSE x

reset_outgoing_stream(x, s) == [x EXCEPT !.buf = @ \cup {s}]

send_outgoing_stream_reset(x) ==
    IF x.buf # {} /\ Idle(x)
    THEN [x EXCEPT !.rst = [stage |-> "sent", streams |-> x.buf], !.buf = {}]
    ELSE x

\* What every channel still owes, on its outgoing stream.
send_deferred_messages(x, r) ==
    LET Owes(flag(_), s) == {k \in Index : flag(x.chan[k]) /\ x.chan[k].o = s}
        Req(c) == c.req
        Ack(c) == c.ack
        Owed(s) == (IF Owes(Req, s) = {} THEN <<>>
                    ELSE <<Msg("req", x.chan[Lowest(Owes(Req, s))].label)>>)
                   \o (IF Owes(Ack, s) = {} THEN <<>> ELSE <<Msg("ack", None)>>)
    IN  [x EXCEPT
           !.wire = [s \in Stream |-> IF Sends(x, s, r) = "ok" THEN @[s] \o Owed(s) ELSE @[s]],
           !.chan = [k \in Index |->
                       IF Sends(x, @[k].o, r) = "ok" THEN [@[k] EXCEPT !.req = FALSE, !.ack = FALSE]
                                           ELSE @[k]]]

\* handle_notification ends a stream event with these three.
AfterStreamEvent(x, r) ==
    request_more_o_streams(send_outgoing_stream_reset(send_deferred_messages(x, r)))

----------------------------------------------------------------------------
\* The application's calls.

\* Mutant: a refused request keeps its outgoing stream.
OpenLeaksStream(x, p, l, r) ==
    LET k == find_free_channel(x)
        o == find_free_o_stream(x, p)
    IN  IF k = None \/ o = 0 THEN x
        ELSE [x EXCEPT !.chan[k] = [state |-> IF r = "ok" THEN "CONNECTING" ELSE "CLOSED",
                                    i |-> o, o |-> IF r = "ok" THEN o ELSE 0, label |-> l,
                                    req |-> FALSE, ack |-> FALSE],
                       !.istr[o] = k, !.ostr[o] = k, !.id[l] = o,
                       !.wire[o] = IF r = "ok" THEN Append(@, Msg("req", l)) ELSE @]

\* open_channel and the id that dce_open_chan keeps: the stream, not the index.
dce_open_chan(x, p, l, r) ==
    LET k == find_free_channel(x)
        o == find_free_o_stream(x, p)
        y == [x EXCEPT !.chan[k] = [state |-> "CONNECTING", i |-> o, o |-> o, label |-> l,
                                    req |-> Sends(x, o, r) = "again" /\ o # 0, ack |-> FALSE],
                       !.istr[o] = k]
    IN  CASE k = None -> x
          [] k # None /\ o = 0 -> [request_more_o_streams(y) EXCEPT !.id[l] = 0]
          [] k # None /\ o # 0 /\ Sends(x, o, r) = "ok" ->
               Put([y EXCEPT !.ostr[o] = k, !.id[l] = o], o, Msg("req", l))
          [] k # None /\ o # 0 /\ Sends(x, o, r) = "again" ->
               [y EXCEPT !.ostr[o] = k, !.id[l] = o]
          [] k # None /\ o # 0 /\ Sends(x, o, r) = "error" ->
               [y EXCEPT !.chan[k].state = "CLOSED", !.chan[k].o = 0]

\* Mutant: the channel is given up without resetting the stream.
CloseWithoutReset(x, k) ==
    IF x.chan[k].state = "OPEN"
    THEN [x EXCEPT !.chan[k].state = "CLOSED", !.chan[k].i = 0, !.chan[k].o = 0,
                   !.istr[x.chan[k].i] = None, !.ostr[x.chan[k].o] = None]
    ELSE x

close_channel(x, k) ==
    IF x.chan[k].state = "OPEN"
    THEN [send_outgoing_stream_reset(reset_outgoing_stream(x, x.chan[k].o))
            EXCEPT !.chan[k].state = "CLOSING"]
    ELSE x

dce_close_chan(x, l) == IF x.id[l] \in Index THEN close_channel(x, x.id[l]) ELSE x

send_user_message(x, k, r) ==
    IF x.chan[k].state \in {"OPEN", "CONNECTING"} /\ Sends(x, x.chan[k].o, r) = "ok"
    THEN Put(x, x.chan[k].o, Msg("data", None))
    ELSE x

dce_send(x, l, r) == IF x.id[l] \in Index THEN send_user_message(x, x.id[l], r) ELSE x

----------------------------------------------------------------------------
\* Messages from the peer.

\* get_dce_channel and openh.
Opened(x, k) ==
    [x EXCEPT !.id[x.chan[k].label] = k, !.up[x.chan[k].label] = TRUE]

\* Mutant: the request is accepted but never acknowledged.
OpenRequestUnanswered(x, s, l, r) ==
    LET k == find_free_channel(x)
    IN  IF k = None THEN x
        ELSE Opened([x EXCEPT !.chan[k] = [state |-> "OPEN", i |-> s, o |-> s, label |-> l,
                                           req |-> FALSE, ack |-> FALSE],
                              !.istr[s] = k, !.ostr[s] = k], k)

handle_open_request_message(x, s, l, r) ==
    LET k == find_free_channel(x)
        y == [x EXCEPT !.chan[k] = [state |-> "OPEN", i |-> s, o |-> s, label |-> l,
                                    req |-> FALSE, ack |-> Sends(x, s, r) = "again"],
                       !.istr[s] = k, !.ostr[s] = k]
    IN  IF \/ x.istr[s] # None \/ ~valid_o_stream(x, s)
           \/ x.ostr[s] # None \/ k = None
        THEN x
        ELSE CASE Sends(x, s, r) = "ok"    -> Opened(Put(y, s, Msg("ack", None)), k)
               [] Sends(x, s, r) = "again" -> Opened(y, k)
               [] Sends(x, s, r) = "error" -> [x EXCEPT !.chan[k] = [@ EXCEPT !.i = 0, !.o = 0, !.label = l]]

\* Mutant: the application is not told.
OpenAckSilent(x, s) ==
    IF x.istr[s] # None /\ x.chan[x.istr[s]].state = "CONNECTING"
    THEN [x EXCEPT !.chan[x.istr[s]].state = "OPEN"]
    ELSE x

handle_open_ack_message(x, s) ==
    IF x.istr[s] # None /\ x.chan[x.istr[s]].state = "CONNECTING"
    THEN Opened([x EXCEPT !.chan[x.istr[s]].state = "OPEN"], x.istr[s])
    ELSE x

\* Data on a channel still connecting stands for the ACK.
handle_data_message(x, s) ==
    LET k == x.istr[s]
    IN  IF k # None /\ x.chan[k].state \in {"CONNECTING", "OPEN"}
        THEN [x EXCEPT !.chan[k].state = "OPEN"]
        ELSE x

handle_message(x, s, m, r) ==
    CASE m.type = "req"  -> handle_open_request_message(x, s, m.label, r)
      [] m.type = "ack"  -> handle_open_ack_message(x, s)
      [] m.type = "data" -> handle_data_message(x, s)

----------------------------------------------------------------------------
\* Stream events.  The close callback runs for the channel of the last stream
\* of the event only.

\* Mutant: the close callback is not made.
ClosedSilently(x, last) == x

Closed(x, last) ==
    IF last # None /\ x.chan[last].state = "CLOSED"
    THEN [x EXCEPT !.up[x.chan[last].label] = FALSE]
    ELSE x

\* Mutant: the peer's reset is not answered with one of our own.
IncomingResetUnanswered(x, streams, last) ==
    LET hit == {x.istr[s] : s \in streams} \ {None}
    IN  [x EXCEPT
           !.istr = [t \in Stream |-> IF \E k \in hit : x.chan[k].i = t THEN None ELSE @[t]],
           !.chan = [k \in Index |-> IF k \in hit THEN [@[k] EXCEPT !.i = 0, !.state = "CLOSING"]
                                                 ELSE @[k]]]

IncomingReset(x, streams, last) ==
    LET hit == {x.istr[s] : s \in streams} \ {None}
        answer == {k \in hit : x.chan[k].o # 0 /\ x.chan[k].state = "OPEN"}
        y == [x EXCEPT
                !.istr = [t \in Stream |-> IF \E k \in hit : x.chan[k].i = t THEN None ELSE @[t]],
                !.buf = @ \cup {x.chan[k].o : k \in answer},
                !.chan = [k \in Index |->
                    IF k \notin hit THEN @[k]
                    ELSE IF @[k].o = 0
                    THEN [@[k] EXCEPT !.i = 0, !.state = "CLOSED", !.req = FALSE, !.ack = FALSE]
                    ELSE [@[k] EXCEPT !.i = 0,
                                      !.state = IF k \in answer THEN "CLOSING" ELSE @]]]
    IN  Closed(y, x.istr[last])

OutgoingReset(x, streams, last) ==
    LET hit == {x.ostr[s] : s \in streams} \ {None}
        y == [x EXCEPT
                !.ostr = [t \in Stream |-> IF \E k \in hit : x.chan[k].o = t THEN None ELSE @[t]],
                !.chan = [k \in Index |->
                    IF k \notin hit THEN @[k]
                    ELSE IF @[k].i = 0
                    THEN [@[k] EXCEPT !.o = 0, !.state = "CLOSED", !.req = FALSE, !.ack = FALSE]
                    ELSE [@[k] EXCEPT !.o = 0]]]
    IN  Closed(y, x.ostr[last])

\* The n-th channel without a stream gets the n-th free stream; i_stream is
\* left as it is.  Refused, they all close.
handle_stream_change_event(x, p, granted) ==
    LET wait == Unassigned(x)
        free == FreeStreams(x, p)
        Rank(S, a) == Cardinality({b \in S : b < a})
        Gets(k, s) == k \in wait /\ s \in free /\ Rank(wait, k) = Rank(free, s)
    IN  IF granted
        THEN [x EXCEPT
                !.ostr = [s \in Stream |-> IF \E k \in wait : Gets(k, s)
                                           THEN CHOOSE k \in wait : Gets(k, s) ELSE @[s]],
                !.chan = [k \in Index |-> IF \E s \in free : Gets(k, s)
                                          THEN [@[k] EXCEPT !.o = CHOOSE s \in free : Gets(k, s),
                                                            !.req = (@ \/ x.chan[k].i = 0)]
                                          ELSE @[k]]]
        ELSE [x EXCEPT
                !.istr = [t \in Stream |-> IF t # 0 /\ \E k \in wait : x.chan[k].i = t
                                           THEN None ELSE @[t]],
                !.chan = [k \in Index |-> IF k \in wait
                                          THEN [@[k] EXCEPT !.i = 0, !.state = "CLOSED",
                                                            !.req = FALSE, !.ack = FALSE]
                                          ELSE @[k]]]

----------------------------------------------------------------------------
Busy(p, l) == \E k \in Index : pc[p].chan[k].label = l /\ pc[p].chan[k].state # "CLOSED"

OpenChan(p, l) ==
    /\ p = Opener[l] /\ opened < MaxOpen /\ ~Busy(p, l)
    /\ opened' = opened + 1
    /\ \E r \in Result : pc' = [pc EXCEPT ![p] = dce_open_chan(@, p, l, r)]
    /\ UNCHANGED sent

CloseChan(p, l) ==
    /\ p \in Closers /\ pc[p].up[l]
    /\ pc' = [pc EXCEPT ![p] = dce_close_chan(@, l)]
    /\ UNCHANGED <<opened, sent>>

\* The application sends when dce_is_chan_open says so.
SendData(p, l) ==
    /\ pc[p].id[l] # -1
    /\ sent < MaxData
    /\ sent' = sent + 1
    /\ \E r \in Result : pc' = [pc EXCEPT ![p] = dce_send(@, l, r)]
    /\ UNCHANGED opened

Deliver(p, s) ==
    /\ pc[p].wire[s] # <<>>
    /\ LET q == Other(p)
           m == Head(pc[p].wire[s])
       IN  \E r \in Result :
             pc' = [pc EXCEPT ![p].wire[s] = Tail(@), ![q] = handle_message(@, s, m, r)]
    /\ UNCHANGED <<opened, sent>>

\* A reset takes effect at the peer once the streams are drained, and then here.
ResetArrives(p) ==
    /\ pc[p].rst.stage = "sent"
    /\ \A s \in pc[p].rst.streams : pc[p].wire[s] = <<>>
    /\ \E last \in pc[p].rst.streams, r \in Result :
         pc' = [pc EXCEPT ![p].rst.stage = "done",
                          ![Other(p)] = AfterStreamEvent(
                                          IncomingReset(@, pc[p].rst.streams, last), r)]
    /\ UNCHANGED <<opened, sent>>

ResetCompletes(p) ==
    /\ pc[p].rst.stage = "done"
    /\ \E last \in pc[p].rst.streams, r \in Result :
         pc' = [pc EXCEPT ![p] = AfterStreamEvent(
                  OutgoingReset([@ EXCEPT !.rst = NoReset], pc[p].rst.streams, last), r)]
    /\ UNCHANGED <<opened, sent>>

StreamChange(p) ==
    /\ pc[p].add > 0
    /\ \E granted \in BOOLEAN :
         LET x == [pc[p] EXCEPT !.add = 0, !.outs = IF granted THEN @ + pc[p].add ELSE @]
         IN  \E r \in Result :
               pc' = [pc EXCEPT ![p] =
                        AfterStreamEvent(handle_stream_change_event(x, p, granted), r)]
    /\ UNCHANGED <<opened, sent>>

Next ==
    \E p \in Peer :
        \/ \E l \in Label : OpenChan(p, l) \/ CloseChan(p, l) \/ SendData(p, l)
        \/ \E s \in Stream : Deliver(p, s)
        \/ ResetArrives(p)
        \/ ResetCompletes(p)
        \/ StreamChange(p)

Spec == Init /\ [][Next]_vars

\* The association delivers what it accepted and completes a reset.
FairSpec ==
    /\ Spec
    /\ \A p \in Peer :
         /\ WF_vars(\E s \in Stream : Deliver(p, s))
         /\ WF_vars(ResetArrives(p))
         /\ WF_vars(ResetCompletes(p))

----------------------------------------------------------------------------
\* Properties.

\* The peer connection, the dce_channels and the association are well-formed.
TypeOK == /\ pc \in [Peer -> PeerConnection]
          /\ opened \in 0 .. MaxOpen
          /\ sent \in 0 .. MaxData

Open(p, k) == pc[p].chan[k].state = "OPEN"

\* o_stream_channel names exactly the channels in use: no channel that is
\* closed, or that has moved to another stream, is found by find_channel_by_o_stream.
OStreamsAgree ==
    \A p \in Peer, s \in Stream \ {0} :
        pc[p].ostr[s] # None =>
            LET c == pc[p].chan[pc[p].ostr[s]] IN c.o = s /\ c.state # "CLOSED"

\* What the code relies on: no send is deferred (EAGAIN), and no end opens two
\* labels, so that a stream is never reused for another one.
NoDeferral   == "again" \notin Refusals
OneLabelEach == \A l, m \in Label : Opener[l] = Opener[m] => l = m

\* If no send is deferred (EAGAIN), two ends that have an open channel on one
\* stream have the same channel: a stream reused after a close never joins two
\* labels.  With deferral it can: send_deferred_messages does not look at the
\* state of the channel, so a closing one may still send its REQ or ACK.
EndsAgree ==
    NoDeferral => \A k, j \in Index :
        /\ Open(Active, k) /\ Open(Passive, j)
        /\ pc[Active].chan[k].o = pc[Passive].chan[j].o
        => pc[Active].chan[k].label = pc[Passive].chan[j].label

\* The two ends never claim one stream for two channels (open_even_sid): a
\* request never meets a stream its receiver has opened itself.
NoStreamGlare ==
    \A p \in Peer, s \in Stream :
        /\ pc[p].wire[s] # <<>> /\ Head(pc[p].wire[s]).type = "req"
        /\ pc[Other(p)].ostr[s] # None
        => pc[Other(p)].chan[pc[Other(p)].ostr[s]].state = "CLOSING"

\* Without deferral and reuse the application knows of every channel that is
\* open (openh), and can reach it: the dce_channel's id is the channel's index.
\* Otherwise handle_data_message may open a channel, by its implicit ACK, with
\* data that overtook the ACK or was meant for an older channel.
OpenIsReported ==
    NoDeferral /\ OneLabelEach => \A p \in Peer, k \in Index :
        Open(p, k) => /\ pc[p].up[pc[p].chan[k].label]
                      /\ pc[p].id[pc[p].chan[k].label] = k

\* With at most two channels in an association and no deferral, a channel the
\* application still believes in exists: closeh is not lost.  With three it can
\* be, since two streams may then share a reset event and
\* handle_stream_reset_event runs closeh for the last one only.
CloseIsReported ==
    NoDeferral /\ Cardinality(Label) <= 2 => \A p \in Peer, l \in Label :
        pc[p].up[l] => \E k \in Index : /\ pc[p].chan[k].label = l
                                        /\ pc[p].chan[k].state \in {"OPEN", "CLOSING"}

\* Does not hold when streams are reused.  The signalling assumes symmetric
\* stream ids (open_channel): a channel that was asked for
\* on a stream listens for the answer on the same stream.
SymmetricStreams ==
    \A p \in Peer, k \in Index :
        pc[p].chan[k].state = "CONNECTING" /\ pc[p].chan[k].o # 0
        => pc[p].chan[k].i = pc[p].chan[k].o

\* Does not hold.  Sending on a channel that is closed fails (test_dce.cpp): its dce_channel does not lead to
\* the channel that took its place.
ClosedSendFails ==
    \A p \in Peer, l \in Label :
        ~Busy(p, l) /\ pc[p].id[l] \in Index
        => pc[p].chan[pc[p].id[l]].state \in {"CLOSED", "CLOSING"}

\* A channel that one end closes is closed at both.
CloseCompletes ==
    \A p \in Peer, k \in Index : (pc[p].chan[k].state = "CLOSING") ~> (pc[p].chan[k].state = "CLOSED")

\* A channel that was asked for does not stay CONNECTING, if it is opened once
\* in the association; reopened before the peer has released its stream, it may.
OpenCompletes ==
    \A p \in Peer, k \in Index :
        (pc[p].chan[k].state = "CONNECTING" /\ pc[p].chan[k].o # 0)
        ~> (pc[p].chan[k].state # "CONNECTING")

=============================================================================
