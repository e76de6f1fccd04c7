# Formal models of Wire AVS calling

TLA+ models of the calling 3 stack of this repository, model-checked with TLC
and, for the central invariants, proved with TLAPS.

## The system and its parts

A call between two devices is carried by these layers, top to bottom:

| part | source | module | state |
|---|---|---|---|
| wcall, conversation API | `src/src/wcall` | (edges in `Calling`) | planned |
| ecall, one call | `src/src/ecall` | `Ecall`, `Calling` | partly modelled |
| econn, connection state machine | `src/src/econn` | `Econn` | modelled but for PROPSYNC |
| mediaflow, offer/answer and media | `src/src/media` | operators of `Ecall` | as ecall sees it |
| dce, data channels on SCTP | `src/src/dce` | `Dce` | channels and streams |
| mediamgr, turn, flowmgr, engine, rest, nevent, msystem, netprobe | `src/src/...` | none | planned |
| codecs, audio devices, formats, utilities | `src/src/...` | none | not modelled: signal processing, I/O, conversions |

`PROJECT.json` lists every part with its sources, and the hazards at their lines.

## Modules

* `Econn`: the connection as operators on a record. A handler returns the new
  connection, the messages it sends, the callback it makes and its error.
* `Ecall`: the call object (connection, mediaflow, gathering state). Callbacks
  run inside the action that causes them, as in the code.
* `Calling`: devices of several users, the backend (reordering, and repeating
  if `"duplicate"` is in `Inputs`) and the data channel; one action per event of
  `mqueue_handler`, timer, mediaflow event and message.
* `Dce`: both ends of one SCTP association, independent of `Calling`.
* `EconnProofs`, `EcallProofs`, `CallingProofs`: the proofs. `MCCalling`,
  `MCDce`: instances for TLC.

Abstractions. SDP is an offer or an answer of a flow. ICE and SCTP events of a
pair of flows happen while both exist. Every offer has a data channel, so the
paths without one are left out. Video flags, properties, missed calls and
statistics are not modelled. In `Dce` labels have equal length, a step meets one
outcome for all it sends, and the association (streams, resets, additions) is
modelled from how `dce.c` uses usrsctp. `~Busy` in `OpenChan` is the
application's: it does not open a label twice at once.

## Runs

| run | shows |
|---|---|
| restart | glare, restarts and repeated messages: waits and closings are timed, an ended connection stays ended, roles complement, one offerer, flows pair only within a call |
| twice | messages of a first call during a second one |
| devices | a callee with two devices |
| faults | failing transport, allocation, SDP and audio |
| live | hanging up removes the call (no restart) |
| stale_answer, update_after_end, end_in_restart, send_failure | four disagreements between comments or headers and the code, see `findings` |
| dce_two, dce_three, dce_live | data channels, see below |

Bounds: two or three devices; `MaxConn` connections and `MaxMf` flows per device,
two of each being what a second call or a restart needs. Deadlock is not
reported because a bounded system of finished calls may stop.
Beyond the listed bounds, `EndedIsOver`, `RolesComplement`, `OneOfferer` and
`PairedLinked` were also found to hold with all faults, with restarts in a
second call (`MaxMf = 3`) and with repeated messages across two calls. With
three devices and restarts the search was cut off near two million states
without a violation, which is not a result.

Fairness: `Calling` assumes that the connection timers fire (libre runs them in
the event loop). `Dce` assumes that SCTP delivers what it accepted and completes
resets. Neither assumes anything of users or the backend.

### Where the data channel properties stop

Each premise below is written in the property; without it TLC finds a violation.

* `OpenIsReported`: no send deferred by EAGAIN, and no end opens two labels. Data
  counts as the ACK and opens a channel without the open callback.
* `CloseIsReported`: at most two channels, no deferral. A reset of several
  streams reports only the last close.
* `EndsAgree`: no deferral. `send_deferred_messages` ignores the channel's state.
  The counterexample needs SCTP to accept a send on a stream under reset.
* `OpenCompletes`, `CloseCompletes`: one opening per association, which is what
  ecall does. A channel reopened too early can stay CONNECTING.
* `TypeOK`, `OStreamsAgree`, `NoStreamGlare` need no premise. The listed runs have
  failing sends; EAGAIN as well was checked separately with three channels.

Three properties are kept although they do not hold, and no run lists them:
`RingingStops`, `ClosedSendFails`, `SymmetricStreams` (see `hazards`).

## Proofs

`CallingProofs` proves, for any devices, bounds and faults, `TypeCorrect` and
`WaitsAreTimed`, and `ClosingsAreTimed` if the transport refuses nothing (the run
send_failure shows that the assumption is needed). Neither timer property is
inductive alone: a step starts from a record whose shape and owner must be known.
The invariant `IInv` adds types, ownership and the timer facts; `EconnProofs` and
`EcallProofs` show that each operator preserves its part, `CallingProofs` that
each action does. Assumptions are the named ASSUMEs on the constants.
The other properties are only model-checked; liveness is outside TLAPS's reach.

## Plan

1. `Wcall`: application thread, marshal queue, call list and lock.
2. `Mediaflow`: gathering, TURN fallback, DTLS, readiness, media start timer.
3. `Mediamgr`: call audio state, hold and resume.
4. PROPSYNC; an abstract call lifecycle that `Calling` refines; no ghost calls.
5. flowmgr, engine sync, rest, nevent, netprobe.
6. Proofs of `EndedIsOver`, `TerminatingIsFinal`, `OneOfferer`, `PairedLinked`,
   `RolesComplement` and of `Dce`'s `OStreamsAgree`.
