# A TLA+ model of osmo-sip-connector

osmo-sip-connector translates between the MNCC interface of a GSM MSC (a unix
`SOCK_SEQPACKET` socket) and SIP (the sofia-sip library). It is one process with
one event loop: handlers run to completion, one at a time. What is hard about it
is the *order* in which two independent parties speak. The MSC and the SIP peer
answer, hold, move their media and hang up while messages of the other one are
still on their way, the MSC may go away at any point, and a write that fails in
the middle of a handler tears down every call before the handler goes on.

This directory holds the model, the TLC runs and the TLAPS proofs. Definitions
that model a C function carry its name. `PROJECT.json` maps every definition to
its source lines and lists the hazards, the properties aimed at them, and the
findings. Paths below are relative to the repository.

## Inventory

| Part | Source | State | Operations | Talks to |
|------|--------|-------|------------|----------|
| Call table | `src/call.c`, `call.h` | `g_call_list`, per call `initial`, `remote`, `id`, GCR; per leg `in_release`, `cause`, RTP address, `rx_sdp`, `rx_sdp_changed` | create for MNCC or SIP, other leg, release of a leg (frees the call with its last leg), store SDP | called by both legs |
| SIP leg | `src/sip.c` | `state`, `dir`, `nua_handle`, `wanted_codec` | events of `nua_callback`; call-backs release, ring, connect, dtmf, hold, retrieve | sofia-sip; MNCC leg through its call-backs |
| MNCC leg | `src/mncc.c` | `state`, `dir`, `callref`, numbers, `cmd_timeout`, `rsp_wanted` | one `check_*` handler per message; call-backs release, ring, connect, update_rtp; 5 s supervision timer | MSC; SIP leg through its call-backs |
| MNCC connection | `src/mncc.c` | `conn.state`, socket, `reconnect` timer | connect, hello and version check, read, write, close and retry after 5 s | MSC; tells the application when the socket is lost |
| Application | `src/app.c` | - | route a new call to its other leg; release every call with an MNCC leg when the socket is lost | both legs |
| SDP | `src/sdp.c` | none | screen and extract the codec and address, create SDP, find the media mode | both legs |
| Cause mapping | `src/sip.c` | the table `cause_map` | status to cause, cause to status; first match, last row as default | both legs |
| Numbers and identities | `src/mncc.c` | - | screen SETUP_IND; numbers or IMSI to SIP users and back | both legs |
| VTY | `src/vty.c` | configuration in `g_app` | show calls, show mncc connection, configure, write | reads the call table |
| Event loop | `src/evpoll.c` | none | one `select` for osmocom and glib descriptors and timers | everything |
| Start-up, logging | `src/main.c`, `logging.h` | options | defaults, configuration file, start of the parts | - |

Hard behaviours, and what makes each part correct:

* **Legs in step.** Each leg has its own state machine; nothing in the code
  forces them to agree. Correct: called side answered first, hold on both legs or
  none, no leg left behind when the other one ends.
* **Crossing releases.** DISC_IND, REL_IND, REL_CNF, REJ_IND, a timeout, BYE,
  CANCEL, a final error and a lost socket can meet in any order. `check_rel_ind`
  and `check_rel_cnf` leave the other leg alone on the assumption that whoever set
  `in_release` has dealt with it. Correct: nobody is forgotten, and who is told is
  told the reason the other side gave.
* **One timer, several waits.** An MNCC leg has one timer and one `rsp_wanted`,
  overwritten by the latest wait. Correct: a late answer to an earlier wait never
  stops the timer of the current one.
* **A write that fails inside a handler** runs `close_connection`, and with it
  `app_mncc_disconnected`, which frees legs the handler still holds.
* **The connection** must be retried for ever, and no MNCC leg may outlive it.
* **Handles.** sofia-sip calls back with the leg as `hmagic`; a handle must not
  outlive its leg.
* **Media.** An SDP is stored and marked on one leg by one message and passed on by
  a later message of the other leg; its address is stored on a third path. Correct:
  what was not passed on stays marked, and the MSC has the address of the peer.
* **Two event loops in one.** glib polls with `evpoll`, which runs libosmocore's
  timers and descriptors inside. Correct: the process never sleeps past a timer
  of either, and neither starves the other.
* **Settings** are read at different times. Correct: write and restart brings all
  of them into effect.

There are no unit tests in the repository (`tests/` holds only a makefile).

## Modules

```
Call <- SipLeg <- MnccLeg <- Connector <- MCConnector                        TLC
                             Connector <- ConnectorProofs <- LifecycleProofs TLAPS
                             Connector -- INSTANCE CallLifecycle
                      Sdp, Connector <- Media  <- MCMedia                    TLC
                      ConnectorProofs, Media  <- MediaProofs                 TLAPS
                 CauseMap, Connector <- Causes <- MCCauses                   TLC
         ConnectorProofs, LeastNumber, Causes <- CausesProofs                TLAPS
             EvPoll (TLC)        LeastNumber, EvPoll    <- EvPollProofs      TLAPS
Settings  <- MCSettings  (TLC)   LeastNumber, Settings  <- SettingsProofs    TLAPS
Numbering <- MCNumbering (TLC)                Numbering <- NumberingProofs   TLAPS
```

* `Call`: a call as a record. `orig` says which leg is `call->initial`; the
  directions MO/MT follow from it. `mncc`, `rel`, `timer`, `want` are the MNCC
  leg's state, `in_release`, `cmd_timeout` and `rsp_wanted`; `sip` and `nh` the
  SIP leg's state and handle. Operators are the functions of `call.c`.
* `SipLeg`: the call-backs of the SIP leg as operators from record to record.
* `MnccLeg`: the call-backs of the MNCC leg, its timer, `app_mncc_disconnected`.
* `Connector`: the process. `conn`, `reconnect`, `calls` and the ghost `fault`;
  one action per event, being the whole handler with everything it calls.
* `CallLifecycle`: what a call promises, idle - set-up - answered - clearing.
* `Sdp`: the functions of `sdp.c` and `call_leg_rx_sdp`, on SDPs as records.
* `Media`: every action of `Connector` again, with the SDP its message carries. What
  `Connector` leaves open (usable audio, known address, moved address) is computed
  from it. `media` is the SDP, address and codec of the two legs, and as ghosts what
  the MSC and the peer were last told.
* `CauseMap`, `Causes`: the table and its searches; every action of `Connector` again,
  with the cause or status its message carries. `reason` is the `cause` of the legs
  and, as ghosts, what was given and what was told.
* `EvPoll`: `evpoll` between glib's prepare and dispatch, with the clock.
* `Settings`: defaults, configuration file, VTY commands, write, restart.
* `Numbering`: a subscriber calls, and the called party calls back by the identity it
  was shown: the number conversions of both directions, one after the other.

Definitions whose comment begins with `Mutant:` are not part of the model. Each is
a plausible mistake in the definition after it; `PROJECT.json` pairs it with the
property that has to notice.

### Abstractions

* **Failed writes.** Every action that writes to the MSC has, besides the disjunct
  where the write succeeds, one where it fails. `WriteFails` is for handlers that
  do not touch a leg afterwards; `WriteFailsLegUsed` for those that do. Using freed
  memory has no defined result, so the latter either goes on as if nothing happened
  or kills the process, and `fault` records it for that step. Where a handler
  writes several times, one failing disjunct stands for all: after
  `close_connection` the legs are gone whichever write it was, and a second
  `close_connection` returns early (`conn->fd.fd < 0`).
* **Process death.** `Restart`: everything is forgotten, as under the `Restart=always`
  of `contrib/systemd/osmo-sip-connector.service`.
* **sofia-sip** (external). `txn` holds the requests a handle has open. A response
  event comes only for an open request, and none for a destroyed handle. An INVITE
  stays open over provisional responses; a 2xx other than 200 ends it, and the code ignores
  it. A peer sends BYE only in a confirmed
  dialogue, and CANCEL only for an INVITE that has not been answered.
* **The MSC** (external). `msc` is the call as the MSC sees it and `req` the
  messages it has yet to answer. It is free in what it sends and when, within what
  the handlers take for granted: it speaks after its hello, about calls it knows;
  answers SETUP_REQ before it says more about the call; sends SETUP_CNF and
  ALERT_IND for mobile terminated and SETUP_COMPL_IND for mobile originated calls;
  asks for hold of an answered call only; sends REL_CNF after REL_REQ only. A
  response to a message written before a release may still arrive during it. It
  drops its calls when the socket is lost. REL_IND may come at any time.
* **Data in `Connector`.** Numbers, GCR, SDP and causes are left out. Decisions that
  depend on them are nondeterministic, so that each branch is explored. `malloc` is
  assumed to succeed, except where the code returns an error that the model covers
  anyway (`route_to_sip`).
* **SDP.** A record of what sofia-sip's parser delivers: address of the `c=` line, port,
  codecs and mode of the audio line. Payload types are left out (no decision depends on
  them), and so is the RTP address of the MNCC leg, which is passed through. Port 0 is
  no address: `mncc_call_leg_ring` does not send it.
* **Time in `EvPoll`** is counted down, in a timeval's microseconds; the factors between
  microseconds, milliseconds and seconds are constants, scaled down for TLC. Handlers
  may reschedule any timer. `revents` is what `evpoll` has reported to glib.
* **Numbers** are sequences that are cut where a buffer ends; the size of the number
  buffers is scaled down, that of the IMSI is real.
* **Slots.** `CallId` bounds the calls at a time. A slot is used again once both
  the connector and the MSC have forgotten its call.

## Runs

| Run | Instance | Shows |
|-----|----------|-------|
| `safety` (`MCSafety.cfg`) | 2 calls, symmetric | The type invariant, the seven safety invariants, `MscNotForgotten`, `SubscriberNotForgotten` and the refinement `FollowsLifecycle`, over every order of events, each write failing or not. 212,380 states. |
| `liveness` (`MCLiveness.cfg`) | 1 call, fair | `Reconnects`, `ReleaseEnds`, `OrphanSipEnds`. 745 states. |
| `media` (`MCMedia.cfg`) | 1 call, 6 SDPs of the peer, 2 of the MSC | `MediaTypeOK`, `NewsIsFlagged`, `MscHasPeerAddress`, `NotLeftOnHold`. 339,040 states. |
| `causes` (`MCCauses.cfg`) | 1 call, every cause and status of the table and one more | `CauseReachesCaller`, `StatusReachesMsc`. 131,137 states. |
| `event_loop` (`MCEvPoll.cfg`) | 2 timers, 4 microseconds to the second, delays up to 5 | `NeverOversleeps`, `NeverSpins`, `TimersFire`, `SocketServed`. 4,860 states. |
| `settings` (`MCSettings.cfg`) | 2 values of each setting, 3 handwritten files | `SettingsSurvive`. 4,128 states. |
| `numbering` (`MCNumbering.cfg`) | numbers of 1, n-1 and n characters, every type and plan, IMSIs of 14 and 15 digits | `ShownAsDialled`, `IdentityReachesCaller`. 1,370 states. |
| `use_after_free`, `stale_initial`, `leaked_call`, `half_call`, `mixed_address` | 1 call | Violations, see Findings. |

The safety properties of `Connector`:

* `NoLegWithoutConnection` - a lost socket takes every MNCC leg with it, and a
  mobile originated leg needs a completed hello. (A mobile terminated leg does
  not: `mncc_create_remote_leg` writes SETUP_REQ without looking at `conn->state`.)
* `ReconnectScheduled` - the reconnect timer runs exactly while disconnected.
* `WaitIsSupervised` - a leg in release, or with RTP_CREATE, SETUP_RSP or REL_REQ
  unanswered, has its timer running. The interesting cases are CALL_CONF_IND and
  a 200 OK restarting the timer of a leg in release for something else, and late
  RTP_CREATE and SETUP_COMPL_IND trying to stop it.
* `ClearedTogether` - a SIP leg alone has a CANCEL or BYE under way; with both legs
  present one is clearing exactly when the other is. It is about SIP legs with a handle
  and says nothing of an MNCC leg that is alone; `SubscriberNotForgotten` does.
* `HandleHasLeg` - a handle with open requests belongs to a leg.
* `AnswerOrder`, `HoldInStep` - the legs' states agree.
* `MscNotForgotten` - an MNCC leg whose call the MSC still has is dropped only in the
  step of `cmd_timeout` for that call, after REJ_REQ, or before the MSC's hello. That the
  timer happens to run is no excuse for any other handler.
* `SubscriberNotForgotten` - the one step that frees the SIP leg and leaves an MNCC leg
  that is not in release is the re-INVITE of finding 4: BYE, CANCEL, a failure response,
  the answers to our own BYE and CANCEL, and failing writes all see to the subscriber.
* `FollowsLifecycle` - `Connector` implements `CallLifecycle`: a call that is being
  cleared never comes up again. A call that lost one leg counts as clearing, also where
  nobody clears it (findings 3 and 4): the life cycle alone would not notice those.

Of the others:

* `NewsIsFlagged` - an SDP the MSC has not been told is marked `rx_sdp_changed`.
* `MscHasPeerAddress` - once the peer has answered, the MSC has the media address of
  the SIP leg, over re-INVITEs, late progress responses, hold and retrieve.
* `NotLeftOnHold` - a peer that was put on hold is told of the retrieve.
* `CauseReachesCaller` - a refused caller gets the status for the *first* cause the MSC
  gave, by the first matching row, the default if there was none; all orders of
  DISC_IND, REL_IND, REJ_IND, timeouts and lost connections.
* `StatusReachesMsc` - after a final error of the peer every message that clears the
  MNCC leg has the cause for it, also in a second DISC_REQ.
* `NeverOversleeps`, `NeverSpins` - the timeout given to `select` is right over carry and
  glib's special values. `TimersFire`, `SocketServed` - both libraries are served even
  when signals interrupt `select` and the other library is always busy.
* `SettingsSurvive` - the text that the `config_write` functions print is made of commands
  that are installed, and a process that starts has what was written last, bound to its
  address and at its log level. Text and syntax are two separate tables of the model
  (`config_write`, `Command` and `Assigns`), as they are in `vty.c`.
* `ShownAsDialled`, `IdentityReachesCaller` - the call-back is from the number that was
  dialled and for the number that called, or for its IMSI if that has at most 14 digits.

**Bounds.** The only bound of `Connector` is `CallId`. Calls interact in one way only: an
event of one call makes `close_connection` release all. Two calls show that in full; the
proofs cover any number. Nothing is counted, and one call already goes through all its
states. Liveness is about one call and the connection; with a second call the run takes
over four minutes and no new kind of step. `Media` and `Causes` add state per call that
no other call touches, so one call is enough; the SDPs of `MCMedia` differ in the port
alone, in address and port, in codec and in mode, and one has no usable address, which
are all the differences the code tests. `EvPoll`: two timers make nearest and other, and
5 microseconds are more than a (scaled) second, so that both carries happen. `Numbering`:
lengths at the limit and one below it, and IMSIs on both sides of theirs. The state of `Settings` is finite by itself.

**Fairness.** `Connector`: weak fairness of `CmdTimeout` (the event loop runs expired
timers, which is what `TimersFire` shows), of `nua_r_bye` and `nua_r_cancel` (sofia-sip
answers every request, if only with a local 408 or 481) and of `mncc_reconnect_ok` (the
MSC is back at one of the attempts). No fairness is assumed of the MSC or of the SIP
peer: releases end without them. `EvPoll`: weak fairness of the loop's own steps and of
the clock, and strong fairness of `SelectReturns`: not every `select` is interrupted by a
signal (`evpoll` returns at once when one is, and does nothing).

Deadlock is checked in all runs.

## Findings

Each is a run of one property that TLC violates.

1. `use_after_free`: `mncc_write`/`mncc_rtp_write` free the legs of all calls when the
   write fails, and eight handlers use their leg afterwards; `send_rtp_connect` even
   reads `leg->conn` to call `close_connection` a second time. `app.c:43-48` warns of
   exactly this for its own loop.
2. `stale_initial`: `show calls summary` reads `call->initial->type` (`vty.c:267`) while
   `initial` is NULL, and `show calls` prints `source` and `dest` (`vty.c:239`), which were
   freed with the launching leg. That lasts until the other leg's BYE, CANCEL or release
   is answered. `call.h:22-24` says the field "will always be used by the entity that has
   launched the call".
3. `leaked_call`: `new_call` returns after `call_sip_create` when the global call
   reference cannot be parsed or From/To has no user; the call stays listed, and
   nothing can release it (`call.h:81-84`).
4. `half_call`: a re-INVITE without usable audio frees the SIP leg but not the MNCC leg
   (`sip.c:255-260`); the subscriber stays in a call with nobody (`call.h:21`, "a call with
   two legs"). The shortest trace ends in PROCEEDING, with the timer for SETUP_COMPL_IND
   still running; one step later set-up is complete, no timer runs, and only the MSC can
   end the call.
5. `mixed_address`: `sdp_extract_sdp` writes the IP address before it knows whether a
   codec matches, and the port only if one does; after a progress response with another
   codec the MSC is told the IP of one SDP with the port of another (`sip.c:84`,
   "with matching codec").

### Other disagreements met while modelling

The model follows the code in these; no run is kept for them.

* `sdp.c:136` says the entire SDP is always sent via MNCC. A re-INVITE that holds the call
  (`sip.c:249`) or keeps the address (`sip.c:265`), and the 200 to a re-INVITE of ours
  (`sip.c:379`), store a new SDP and send nothing. It stays marked (`NewsIsFlagged`).
* `sip.c:230-231` says a re-INVITE without SDP is answered with the current session; the
  answer is `sendrecv` also while the subscriber holds the call.
* `sdp_get_sdp_mode` (`sdp.c:66`) takes `sdp_inactive`, which is 0, for no mode: a re-INVITE
  with `a=inactive` is answered with `sendrecv`.
* The first row of `cause_map` gives 200 for normal clearing, and `sip_release_call`
  (`sip.c:518`) uses the map to refuse an INVITE: a call that the MSC clears normally
  before it is answered is accepted and dropped. The row for 406 and SERV_OPT_UNIMPL is
  never reached by its status.
* `mncc_fill_header` (`mncc.c:129`) sends `cause` of the leg, which is set only by a final
  status of the peer; after BYE, CANCEL or DISC_IND the MSC gets the value 0.
* `make_sip_uri` (`sip.c:715-720`) maps 0.0.0.0 to `*` and then uses the address.
* `show mncc-connection` (`vty.c:290`) prints the configured path next to the state of a
  connection that may be to an earlier one.
* After `local` on the VTY, INVITEs name the new address (`sip.c:641`), which is bound only
  after a restart.
* The default log level (`main.c:141`) is stored and written but not given to sofia-sip.
* `snprintf(mncc.imsi, 15, ...)` (`mncc.c:971`) keeps 14 digits of an IMSI of 15, while
  `README.md:7` offers the IMSI as identity.

## Proofs

Every invariant and every action property that a run passes is also a theorem, for every
value of the constants, and so is the refinement `FollowsLifecycle`. None of the
invariants is inductive alone; each module has one inductive invariant, which TLC checked
on the instances of the runs before it was proved. `PROJECT.json` pairs theorems and
properties.

**`ConnectorProofs`** proves, for any set `CallId` and with no assumption on it, the type
invariant and all seven safety invariants (`TypeCorrect`, `ConnectionSafe`,
`ReconnectSafe`, `Supervision`, `Clearing`, `Handles`, `Answering`, `Holding`), from
`IInv` (`Invariance`). `IInv` says of each call:

* `Base` - listed exactly while it has a leg, handles belong to legs, both legs
  present implies a handle, an orphaned SIP leg is clearing. This part also holds
  *between* the steps of a handler, which is what makes a failing write harmless for
  the state: `DisconnectGood` needs only `Base` of the call that was being worked on.
* `Cleared` - with both legs, `in_release` exactly when CANCEL or BYE is under way.
  Needed since `check_rel_ind`/`check_rel_cnf` skip the other leg.
* `Synced` - answer order and hold, and that a call the MSC takes for answered is.
* `Waiting` - `WaitIsSupervised`, together with which messages the MSC may still
  answer in which state. Its last line is the heart of it: while a SETUP_COMPL_IND may
  still come for a leg in release, `rsp_wanted` is something else, so it cannot stop
  the timer. For RTP_CREATE the guard is `mncc_find_leg_not_released`.
* `OnConn` - the connection an MNCC leg needs.

The proof has a lemma per operator on the record (which fields it changes), lemmas on
how handlers end (`DoneGood`, `FailGood`, `ReleaseGood`), and one lemma per action.

**`LifecycleProofs`** proves what a step may do to a call: `MscRemembered`,
`SubscriberTold` and the refinement `ImplementsLifecycle`. They follow from one relation
`Legal` between the record of a call before and after a step, which every action keeps
but for two excuses (`LegalStep`): `cmd_timeout` may drop a call the MSC has, and the
re-INVITE without audio may leave the subscriber. Every way a handler can end other than normally
leaves all calls idle or clearing, so a lemma per action is about the normal end only.
The clauses of `IInv` on what the MSC takes the call for are there for this: they say in
which states of the leg the MSC can still send a message.

**`MediaProofs`**, **`CausesProofs`** prove first that `Media` and `Causes` implement
`Connector` (`MediaImplements`, `CausesImplements`): adding SDP and causes takes away
choices and adds no behaviour. Everything proved of `Connector` therefore holds with
them; `MediaClearing` states it for `ClearedTogether`. Then:

* `MInv` (`MediaInvariance`) adds `Told`, what the parties were told next to what the
  legs know, and `Clean`, that a leg that is not there has no media. `Quiet` says that
  no way to end a handler brings up legs or states that `Told` asks more of; each
  message with SDP then has a lemma on the record its handler ends with. From it follow
  `MediaTypeCorrect`, `NewsFlagged`, `AddressKnown` and `HoldRevoked`, for any SDPs.
* `CInv` (`CausesInvariance`) relates the reasons of a call to its legs. Its heart is
  that while a caller can still be refused nothing is stored in the SIP leg and no
  RTP_CONNECT is on its way, and that after the refusal the MSC can give no other cause.
  Most handlers keep it because calls only fade (`Fades`). From it follow `CallerToldCause` and
  `MscToldStatus`, for any causes and statuses.

**`EvPollProofs`**: the arithmetic of timevals (carry, comparison, rounding of
milliseconds) is exact for any scale; `PollInv` (`PollInvariance`) is that `select` does
not sleep past anything that is due and that something is due when it times out, which
gives `EvPollNeverOversleeps` and `EvPollNeverSpins` for any set of timers and delays.

**`SettingsProofs`**: `Configured` is what the commands of a file do in their order
(`ReadNothing`, `ReadLine`), and what `config_write` prints configures what it was
printed from, and is accepted (`WriteThenRead`); `SInv` and `RestartKeeps` follow.

**`NumberingProofs`**: a text that went through a buffer fits the next one of that size
(`CutFits`, `CutTwice`), and `mncc_create_remote_leg` undoes `continue_mo_call`
(`CallingOfDest`, `CalledOfSource`, `CalledOfImsi`);
`NInv`, `CallBackShown` and `CallBackReaches` follow, for numbers of any length.

**`LeastNumber`**: a nonempty set of naturals has a least element. The first matching row
of `cause_map`, the nearest timer and the last command for a setting are all found by it;
it stands in for induction, which the provers cannot instantiate.

Assumptions: of the constants, and evaluated by TLC on every run. `SdpAssumption`: the
mark for no SDP is none. `StatusAssumption`: a final error is 300 to 699, as the code
that handles it requires. `ScaleAssumption`: units of time are positive.
`SizeAssumption`: sizes are numbers. `DialledAssumption`, `SubscriberAssumption`:
numbers and IMSIs consist of the digits that a BCD number can have, so none begins
with `+`. `DefaultsAssumption`: the default of a setting is a value its command takes.
`FilesAssumption`: a configuration file that is read to its end consists of commands
(`main` exits otherwise).

Only model-checked: the liveness properties `Reconnects`, `ReleaseEnds`, `OrphanSipEnds`,
`TimersFire` and `SocketServed` (fairness is beyond the prover), and the violations.

## Not modelled

* `mncc_protocol.h`: struct layouts shared with the MSC, no behaviour.
* The 32 bit call id and the choice of call references: a slot stands for a call. The
  references the MSC chooses are not in the repository.
* The encoding of the global call reference; that it may fail to parse is modelled, in
  both directions.
* The text of the VTY's tables, `show mncc-connection`, logging, command line options and
  daemonizing: they leave no state that another part reads.
* Emergency calls beyond their number, and handover, are not supported by the program.

## Plan

Done: all modules above, and a theorem for every safety property. What could follow are
the safety parts of the liveness arguments, as theorems that need no fairness: that
whenever `ReleaseEnds` or `OrphanSipEnds` is still owed, an action with fairness is the one
that ends the wait, and that no other action takes the call back from it.
