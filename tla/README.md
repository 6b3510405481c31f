# constitute-cli in TLA+

`constitute-cli` is a terminal client (Rust, `src/src`, about 7 500 lines). It keeps a device key and a
profile, pairs the device with an account over relays, finds services that gateways announce on relays,
opens a session with a gateway's swarm edge, sends signed frames and reads projections back, and retains
what it has seen. The CLI is a short-lived process: most of what can go wrong lies in the order of messages
it does not control, in what it concludes when a socket, a clock or a relay fails it, and in the files that
other invocations of it read and write at the same time.

The modules are TLA+ specifications of that control. Data is kept to what the decisions look at. Gateways,
relays, the account's other devices, the parsers, the ciphers and the credential store are not part of the
program; they appear as actions or sets that allow whatever the code is written to cope with.

Throughout, `transport.rs:1462` means `src/src/transport.rs`, line 1462.

## 1. Inventory

### Edge session transport (`transport.rs` 244-330, 1244-1620) — modelled: `EdgeSession`, `FrameFate`
- *State.* `EdgeSessionState` (session id, last acked frame, last revision of each projection channel) behind
  a mutex for the life of the transport. Per call: a socket, a deadline, `accepted_ack`, an `EdgePublishReport`.
- *Operations.* `publish_frame`, `observe_projection`, directory requests: `edge_round_trip`, which connects,
  resumes or says hello (`open_edge_session`), sends the frame and reads until it has what it wants.
- *Interactions.* With the gateway by messages in both directions; with its own next call by the state; with
  the caller by one `EdgeRoundTripResult`.
- *Hard.* Records arrive in any order and unasked, answers overtake each other, the gateway closes or restarts,
  the deadline is looked at only between blocking reads, and neither a handshake nor a read over TLS has a timeout; an
  ack may come before or after the evidence.
- *Correct when.* What a caller is told is true of its own call; an ack once read is not lost; frames go out
  under the session granted on their socket; the resume cursor never runs ahead of the gateway, and goes back only if the
  gateway does; a refused session is forgotten; every call whose socket calls come back ends.

### Wire classification (`transport.rs` 1621-2135) — modelled: `EdgeWire`
- *State.* None; a function of a message and of whether the device's secret is at hand.
- *Operations.* `edge_outcome_from_value`, the frame and payload openers, extractors and reject readers.
- *Interactions.* Called by both read loops: without the secret while attaching, with it afterwards.
- *Hard.* The same message must mean the same in both loops; a body that does not open must not fail a call.

### Pairing (`pairing.rs`) — modelled: `Pairing`
- *State.* The waiting thread's deadline and `published_claims`; one observer thread per relay; an mpsc channel.
- *Operations.* `wait_for_pairing`: receive, answer a claim with a pair request, take an approval, give up.
- *Interactions.* With relays by websocket; threads with the waiting thread by the channel only.
- *Hard.* Every relay repeats every event; threads die one by one; reads from silent relays never return; a request is
  sent to one relay after another on the waiting thread, without a timeout; the pairing code may expire while the wait runs.
- *Correct when.* One request per claim, no approval lost, other devices' approvals ignored, the wait ends if each sending of a
  request does.

### Profiles and key store (`config.rs`, `keystore.rs`, `app.rs` 300-385) — modelled: `ProfileStore`
- *State.* `profiles/<p>.json`, `secrets/<p>.key.json`, the credential store. No lock.
- *Operations.* `auth login [--force] [--no-wait | --account]`, `auth wait`, `auth logout`.
- *Hard.* Two files and a foreign store are written one after the other; a wait writes back a record read
  minutes earlier; processes overlap and are killed; a write or a removal fails and ends the command where it is.
- *Correct when.* A profile's account belongs to the profile's device; a profile's key exists and is its own.

### Retained projections (`runtime.rs`) — modelled: `RuntimeStore`
- *State.* `state.json`: projections by service and channel, descriptors by the name of the service, relays. No lock.
  (The file has gateway hints and policies too; no command writes them.)
- *Operations.* `open`, `store_projection` (merge, semantic comparison, observer update), `remember_descriptor`,
  `remember_relays`, `save`.
- *Interactions.* Every service command and the doctor hold a copy of the whole file from their start to their save.
- *Hard.* Partial and complete projections in any order, an event again with fewer fields than before; whole-file read and write by overlapping commands; a write cut short.
- *Correct when.* An event is kept once, and it or a field of it is lost only to a projection that replaces the set or to a save
  of another command; the observer hears of changes and of nothing else, and of no more events than are new.

### Service lookup (`transport.rs` 1039-1242, `app.rs` 640-800) — modelled: `ServiceLookup`
- *State.* The discovery's channel, deadline and `BTreeMap` by service key; nothing survives it.
- *Operations.* `discover_descriptors` with a thread per relay; `resolve_service_path` on its outcome.
- *Hard.* What is heard in five seconds depends on relays; the first word of a path is read as a service or as a
  location depending on everything that was heard.
- *Correct when.* Discovery ends, drops nothing it was sent, and a path never silently means one of several.

### Service commands (`app.rs` 392-594) — modelled: `ServiceCommand`
- *State.* A command's copy of the state file, the surface it goes by, the projection it will show.
- *Operations.* The catalog; the detail of a service; read, watch and set of a node. Each opens the file, resolves the path,
  observes the surface, and, for a node, publishes or observes; then saves; a watch tells its observer after that.
- *Interactions.* With `RuntimeStore` by the file; with the session layer by the outcome of a publish or observation; with `ServiceLookup` by
  the service found.
- *Hard.* The surface is read back from the store it was merged into; the first projection on any allowed channel is the answer; the
  save comes after the publish and before the observer is told; other commands save meanwhile; any call may fail.
- *Correct when.* A set request goes where the surface answered in the same command says; the observer is told exactly of what
  the save changed.

### Doctor (`doctor.rs`) — modelled: `Doctor`
- *State.* A list of steps with a status each; once it has an events projection, a copy of the state file.
- *Operations.* Profile, descriptors, samples (frame, delta, repair, convergence, envelope), directory, logging surface, events
  observation, retention, watch, diagnostics, report.
- *Hard.* A chain of early ends, each in another place; the projection's step passes before the file is saved.
- *Correct when.* A report without a failure means that what was observed is retained.

### Swarm directory and deltas (`swarm_ops.rs`) — partly modelled: `SwarmDirectory`, `ProjectionDelta`
- *State.* None: functions of a directory a gateway answered with, a capability and the time; of a document and a delta.
- *Operations.* `capability_lookup`, `channel_list`, the choice of whom a channel is created for, the test for
  boundary references; `apply_projection_delta`. The frames and bodies that are built for the gateway are not modelled.
- *Correct when.* What a lookup gives only narrows as advertisements expire; a delta does each of its operations, by the
  indexes the items have at that moment, and nothing else.

### Authority proof, signed frames (`authority_ops.rs`, `protocol_ops.rs`) — not modelled
- They fill in records from the arguments and the clock and have the protocol library sign or verify them; nothing is kept and nothing is sent.

### Command line, output, interactive shell (`cli.rs`, `main.rs`, `output.rs`, `interactive.rs`) — not modelled
- Argument parsing, printing, and a loop that runs one command after another with nothing carried over.

### Fixtures (`transport.rs` FixtureTransport, `write_default_fixtures`) — not modelled
- Canned data for tests.

The line of every hazard, with the properties that watch it, is in `PROJECT.json` under `hazards`; those
without a property have a note that says why.

## 2. Modules and how they relate to the code

| module | what it is | used by |
|---|---|---|
| `EdgeWire` | classification of one message | `EdgeWireProofs` |
| `EdgeSession` | the session layer, its calls, the gateway around it | `EdgeSessionProofs` |
| `FrameFate` | abstract: one truthful answer per call | instanced by `EdgeSession` |
| `Pairing` | `auth wait` with threads, channel and relays | `PairingProofs` |
| `ProfileStore` | the files of a profile and the `auth` commands | `ProfileStoreProofs` |
| `RuntimeStore` | the state file and the merge | `RuntimeStoreProofs`, `MCRuntimeStore`; extended by `ServiceCommand`; instanced by `Doctor` |
| `ServiceLookup` | discovery and path resolution | `ServiceLookupProofs`, `MCServiceLookup` |
| `ServiceCommand` | the service commands over the state file | extended by `Doctor` |
| `Doctor` | the doctor beside the service commands | `DoctorProofs`, `MCDoctor` |
| `SwarmDirectory` | what is read out of a directory | instanced by `Doctor` |
| `ProjectionDelta` | a delta applied to a document | `ProjectionDeltaProofs`; extended by `Doctor` |

`map` in `PROJECT.json` gives the lines of each definition.

### EdgeSession
`sid`, `acked`, `revs` are the three fields of `EdgeSessionState`; `pc` is where the call stands (`dial`: connecting; `attach`,
`resume`, `greet`, `hello`: in `open_edge_session`; `attached`, `await`: in `edge_round_trip`; `idle`: between
calls). Each outcome a read loop handles is an action: `Accepted`, `ResumeRejected`, `ResumeUnanswered`,
`HelloRejected`, `HelloIgnores` for the attach; `AwaitAck`, `AwaitReject`, `AwaitProjection`, `AwaitDirectory`,
`AwaitRecord`, `AwaitSealed`, `AwaitIgnored` for the loop after the frame. `AfterOutcome` is what follows each
of them in that loop: the convergence test, then the deadline test, else the next read. `HelloRejected` and `AwaitReject` give the
caller the same result, as the code does: one `into_error` (353-361) words both.

`read_edge_outcome` tests the deadline and then blocks. `StartRead` and `ReadTooLate` are the two results of that
test; `blocked` says that it is behind, so that a deadline which passes during the read does not end it;
`ReadBroken` is a close, or the socket's own read timeout. Over plain TCP the code sets one (1573); over TLS it sets none
(1576), and `connect` (1562) does its handshakes before any is set. So `Connect`, the writes and `ReadBroken` need never happen: that
they do is an assumption of the liveness property alone, `SocketCallsReturn`. `SendFails` can happen with the socket up, too: the frame
and the records are built and validated on the way.

A frame is named by the number of its call. The gateway may accept or refuse anything it could, push any record
at any moment (`EarlyPush`: also before it answers the attach), refuse a frame after taking it in, close, or
restart and forget its sessions. An ack may name its frame, or only correlate with it (`AckNames`, 1516-1524). In an accept it echoes the progress
that the request claimed, as `accept_from_edge_record` in the tests does, or, if it `Rewinds`, any older one, and it may then
also send old revisions again. It grants each session once.

`EdgeWire` and `EdgeSession` meet in the outcome: the types of `GatewayMsg` are the outcomes of `EdgeWire`, and
`bad` is its `error`. They are checked apart because the session layer does not look behind the outcome.

### EdgeWire
A message is a record of what the extractors would find in it: whether a directory is there and is valid, whether
the frame parses and validates, whose the envelope is, and so on. `phase` is which loop reads, hence whether the
secret is used. A message of no known type that carries a frame (`carrier`) has that frame opened but not validated; the
model does as the code does.

### Pairing
One wait at a time; a second wait after a failed one is another process that remembers nothing (`published` and
the channel are new). `Concerns` is the filter of the observer threads. A thread that has failed is `stopped`; one whose
relay is silent stays `reading` for ever, and the code never joins it. An approval carries a body that may
open to an identity, to something else, or not at all. `publish_pair_request` goes from relay to relay on the waiting thread:
`RecvNewClaim` begins it (`pc = "publish"`), `RelayTakes` is a delivery, `PublishDelivered` and `PublishUndelivered` are its two
returns. Between them the deadline may pass and the channel fill; nothing but the assumption `RelaysLetGo` says that it returns.

### ProfileStore
A device, its key pair and its secret are one number, given by the login that made them. The credential store
is a set of secrets under `profile:public_key`; the key file is one slot whatever the device. `Killed` may
leave a file torn, because `fs::write` truncates first. `FileFails` is an I/O error at any of the writes and removals, which ends
the command there and may leave the file torn as well; `disturbed` remembers a kill, an overlap, and those failures that may cost a profile its key: one in a
logout, and one of a forced login that replaces a profile. Encryption is reduced to which secret a file holds; a wrong
passphrase is a failure of the unlock. A credential store that fails is `StoreKeyFile` (the fallback), a credential that cannot be deleted stays without a word
(`DropOsKey`, as `delete_secret` drops that error); a store that accepts a secret and forgets it is outside the model.

### RuntimeStore
`file` is `state.json` and `mine` each process's copy of it (`pc = "open"`). A projection is what `projection_semantic_shape` leaves of it:
freshness and cursor do not count, so a refresh that only moves them is no change. An event is a JSON object: an id and whichever of
the fields it has, its time among them. A known event is merged field by field (`Over`: `merge_json_objects`), so that it keeps a field the new
form does not repeat; a field that both have takes the new value. An event without any id has its whole text for one in the code: to the model that is an id like
another. Services are taken to send lists without duplicates. `rest` is all of
the projection but its events. `Sorted` says what the sort gives, not how: `NewestFirst` is a total order on the events of a list.
The first projection stored under a key is kept as it came, unsorted, and only a merge sorts: so the first
redelivery of an unsorted list may be taken for a change and tell the observer once. `RefreshIsSilentAndOnlyRefresh`
is therefore stated for lists that are in order.

The count of an observer update is the length after less the length before, down to nought. With a list that *replaces* the set it can be too low (one
event replaced by another counts for none), so `UpdateCountsNewEvents` says what is true of every pair of lists: never more than are new, and exactly those
where no event was dropped.

`Save`, `Fails` and `Tears` are the three ends of a command: written whole, not written, and cut short (`fs::write` truncates first). Two histories
say what a save cannot be blamed for: `replaced`, the keys whose events the process saw replaced, and `missed`, the keys another process
rewrote since it opened the file.

`Next` of this module has the steps that concern projections; `RememberDescriptor` and the relays are steps of the
commands that take them, in `ServiceCommand`.

### ServiceLookup
Words are tokens, that is, results of `normalize_lookup`: two spellings that it maps together are one token. A descriptor
is its key, its gateway, its names (service, key, label, aliases), its places (gateway, location label and id) and its nodes.
Of several descriptors of one service the last one received stands (no version is compared). Two things are
worth knowing about `resolve_service_path`:
- The test for a name known at several locations (it counts matches first) has the same outcome as the test for
  several matches that follows, so one operator, `OnlyMatch`, stands for both.
- A first word that is a *location* is not stable: if, before the deadline, one more service is heard whose
  name is that word and which has a node named like the second word, the same path means that service. A name alone, or a name with one of the service's
  own nodes, is stable in the sense of `HearingMoreNeverRedirects`: more knowledge can make it ambiguous but cannot redirect it.

### ServiceCommand
`at` is where the command of a process stands; each stage is one call of `run_service` or of the catalog. The steps on the file are those of
`RuntimeStore`, conjoined, so that "remembered and then saved" is the same copy of the same file. `ObservesSurface` takes the surface
out of the store (`SurfaceRead`), as `fetch_service_surface` does, not out of the answer; it takes any record that is on a channel of the surface's
name (`On`), of whatever service, with or without a list of events that is merged with what is retained. An answer without a projection
does not occur: every transport builds its answer around one (the last line of `request_service_projection`, 593, is not reached). `ObservesNode` takes the first
projection on any channel that is allowed: the node's, another node's of the surface, the surface's own; the record's service makes
the key, which may be another service that names a channel alike. `CommandFails` is every `?` on the way, `CommandTears` a kill or an error in the
middle of the save. `answered` and `news` are history.

### Doctor
`worst` is the gravest status so far. A check that touches nothing is one action with the statuses it can come out with; those with
several ends in the code (the profile, the descriptors, the samples, the events) are several actions that go to different stages. The
doctor opens the state file late, when it holds an events projection, and does not observe again after a failure. `DoctorKilled` may tear the file.
`ImplementsStore` is `RuntimeStore`'s own specification under the mapping `Bare`, which leaves the descriptors and relays out of every state.

### SwarmDirectory, ProjectionDelta
A directory is sets of definitions, advertisements, entries and channels. An advertisement loads if it does not expire at time 0 (`Loads`), whatever
the time is; activity is decided at the lookup. Without any active advertisement all entries with the capability are given, so
what was hidden comes back when the *last* advertisement expires; `Narrows` is stated up to then.

A document is a function from paths to "object", "array" or a leaf; an index is a number, a key a name. Values that a delta writes are leaves. The
nesting is in the domain of the function, so no operator is recursive but the fold over the operations. What the operations are *to do* is said apart from how
they do it, of values and not of paths (`Does`): the value at a path is set or gone and all else stands; of an array, an item is taken out of the sequence of its
items or put at the end. `DoneInTurn` says so of every operation of a delta and the document the one before it left, which is where a gap closed in
the wrong way would make a later index mean another item.

## 3. What is checked

Every property that a passing run checks has a mutant in `PROJECT.json`: a form the mapped definition could
take by a plausible mistake, under which TLC finds the property violated in the same run.

| run | question | bounds |
|---|---|---|
| `edge_pushes` | Are reports truthful, acks kept, frames under their session, is the session layer an implementation of `FrameFate`, when records come in any order, also before the attach is answered? Does the cursor only advance if the gateway never goes back? | 2 calls, revisions to 2, 2 pushes, 2 messages in flight, records `route`, `other`, `bad` and projections |
| `edge_answers` | Against a gateway that answers an attach first but may echo older cursors and repeat old revisions: is a refused session forgotten, does the cursor stay within the gateway, does every call whose socket calls come back return? | 2 calls, every kind of record, 1 message in flight, restarts and closes at any time |
| `edge_wire` | Is a message classified alike with and without the secret, and does a sealed one stay harmless? | every message there is |
| `pairing_wait` | One request per claim, nothing lost, others ignored, the wait ends? | 2 relays, 2 claims, 2 waits, 3 events in the channel; each relay takes a request or not, and whenever it likes |
| `profile_commands` | What survives any interleaving, kill and failing write of the `auth` commands? | 2 processes, 1 account, 2 key pairs |
| `runtime_commands` | Does the merge keep events and their fields, once, and is the count right as far as it can be; what can a save undo? | 2 processes, 1 key, 2 events, each with a time or without |
| `service_lookup` | Does discovery drop nothing and end, and what may a path mean? | 2 relays, 4 descriptors of 3 services at 2 gateways, 5 paths, 2 in the channel |
| `commands` | Commands and doctors side by side over one file: does a set follow its surface, does the observer hear the news, does a pass of the doctor mean retained, is what it looks up and applies sound? | 2 processes of any kind, 3 surfaces, of which the service answers one with a list and another service a second, 2 channels, 1 event; directories of up to 3 advertisements and 3 entries at 4 times; documents with up to 2 cameras, deltas of up to 2 operations |
| `edge_rejected`, `edge_observation`, `pairing_expiry`, `profile_replace` | Where the code and what is said of it differ (section 6). | the smallest that shows it |

Why the bounds are enough to meet the interesting cases:
- *Calls.* The second call is the first to find state left by another one, and the one whose resume can be refused; what the third would find
  is the state at the end of the second, which the invariants are about. `MaxRev = 2` lets a revision be followed by another one and by a repetition.
- *Messages in flight.* Two let a push overtake or follow an answer. One is enough in `edge_answers`: its gateway does not push before the attach is answered, what
  it sends next it still chooses freely, and the theorems hold for any number in flight.
- *Relays.* Two give one that fails before, and one that fails after, having sent something. Two claims tell
  "this claim" from "another one"; two waits show what a second process does not remember.
- *Processes.* Every hazard of the files is a matter of two commands, or of one and a kill. Two key pairs are the profile
  that is replaced and its replacement.
- *Events.* Two events, each with a time or without (which sorts as time 0), give every order, equal times included, every overlap of two lists, and an event that is
  known with more fields or with fewer than the answer has. A field has one value in this run, which would not end in its time with two:
  that a field which both forms have takes the new value is shown by a theorem only (`LastWordStands`). In `commands` one event is enough: the merge is the matter of `runtime_commands`, and what matters here is whether an event is there.
- *Surfaces.* One gives the node a channel and is the service's own; one gives it a blank one and comes from another service, so that both may be retained
  while a command goes by either; one, which only the doctor meets, does not describe it. A command ends on it as on a blank channel. That a surface follows another one under the same key is
  `runtime_commands`' matter (`SemanticallyEqual`, `Merge`): with three answers this run would not end in its time. There are no relays and one gateway because nothing reads them back.
- *Symmetry.* The processes in `commands` and `runtime_commands` (either may run any command, and no property names one); none elsewhere. `CHECK_DEADLOCK FALSE` stands in
  every configuration because the models do stop: after the last call, wait, login or lookup that the bound allows, or when a torn file lets no command start.

### Properties
- *EdgeSession.* `PublishMeansTaken`, `IntakeNotLost` say what a report means;
  `FrameUnderGrantedSession`, `RetiredSessionForgotten` are about the session; `CursorWithinGateway` and the action
  property `CursorNeverRegresses` are about the cursor; `ImplementsFate` is the refinement, `EndsWithAnAnswer` the same with its fairness.
  `RetiredSessionForgotten` holds of a gateway that pushes nothing before it has answered the attach (`~EarlyPush`), and
  `CursorNeverRegresses` of one that echoes the claims it is shown and sends revisions in order (`~Rewinds`); both say so in their statement, since the code has no guard
  of its own: a record ahead of a refusal sends the call on to a hello, and an accept or a projection overwrites what is held (1508, 1548). `CursorWithinGateway` holds
  of a gateway that rewinds, too. The rest hold with early pushes.
- *FrameFate* is the promise to callers: one call at a time; `Take` and `Refuse` are the gateway's decisions; `Tell` gives one answer,
  and an answer that claims a decision only after it has been made about that call. The mapping takes `current` from the call's number and
  `told` from its result; `taken` is the gateway's, and `refused` its `Denied`: a refused attach or a refused frame, which the code words alike (section 6).
- *EdgeWire.* `ControlNeedsNoSecret`, `SealedIsDiagnosed`, `ReasonSurvivesSeal`. (A sealed frame of the kind reject still ends the call, as the reject it is.)
- *Pairing.* `RequestOncePerClaim`, `StoppedMeansNoneHeard`, `WaitIgnoresOthers`, and `WaitEnds`.
- *ProfileStore.* `AccountApproved`, `OsKeyOutlivesProfile` hold under every kill and overlap; `UndisturbedProfileHasItsKey`
  says that the rest holds as long as commands run one after the other and are not killed: files that cannot be written or removed do not change
  that, but for a forced login that cannot write one and a logout that cannot remove one.
- *RuntimeStore.* `OneEntryPerEvent`, `PartialKeepsEvents`, `RefreshIsSilentAndOnlyRefresh`, `UpdateCountsNewEvents` are about the merge and what the observer
  is told of it (`PartialKeepsEvents` is about fields as well as events); `SaveUndoesOnlyWhatItMissed` says exactly how far the missing lock is to blame for a lost event.
- *ServiceCommand.* `SetFollowsAnsweredSurface`, `ObserverHearsTheNews`.
- *Doctor.* `DoctorPassMeansRetained`; `DirectoryNarrows` and `DeltaDoneInTurn` are about the functions its checks call. `CommandsTypeOK` also says that a copy of the file is held
  exactly between opening and the end.
- *ServiceLookup.* `DrainedKnowsAll`, `NeverGuesses`, `HearingMoreNeverRedirects`, `LookupEnds`.

### Fairness
What the CLI itself does is fair (`ProgramGoesOn`); of a peer one thing is assumed, under a name of its own, wherever the code waits for it without a timeout.
- `EdgeSession`: `ProgramGoesOn` is `WF(ReadsOn)`, because the thread runs on, and `WF(DeadlinePasses)`, because the clock advances. `SocketCallsReturn` is the
  assumption: each handshake (`Dials`), each write (`Opens`) and each read that gives nothing (`ReadBroken`) comes to an end. The code does not see to it: `connect` has no timeout
  (1562), TLS gets none (1576), and a message that trickles in keeps a read from returning. A gateway that sends
  for ever is stopped by the deadline, which is looked at after each outcome and before each read. `ReadNonText` (pings) is not fair
  and cannot starve the call either: it returns to the deadline test.
- `Pairing`: `ProgramGoesOn` is `WF(Loop)` and `WF(DeadlinePasses)`; `RelaysLetGo`, the assumption, is that each `publish_pair_request` returns, although it connects to every
  relay without a timeout (pairing.rs:348). Of the observer threads, which connect and read for themselves, nothing is assumed.
- `ServiceLookup`: `WF(Loop)` and `WF(DeadlinePasses)`. Nothing is assumed of the observer threads, and the waiting thread itself calls no relay.

## 4. What is proved

The proof modules hold for every value of the constants that the named assumptions allow (`EdgeAssumption`, `PairingAssumption`,
`ProfileAssumption`, `LookupAssumption`, `RuntimeAssumption`, `ServiceAssumption`, `DeltaAssumption`, `DoctorAssumption`: bounds are naturals, `NoAccount` is not an account,
descriptors are finitely many and of one shape, ids of events are finitely many naturals and values of their fields are naturals, what a service answers is a projection, a leaf of a document is no container, directories have loaded, documents are documents). TLC has checked each inductive
invariant behind a property of the runs, conjunct by conjunct, on the instances above before it was proved.

- **EdgeSessionProofs**: `TypeCorrect`, `PublishSound`, `SessionSound`, `CursorSound`. None of the three safety properties is inductive.
  That a report is true depends on what is still in the socket: an ack that is in flight must be about this call's frame and of one
  that was taken in (`RepliesSound`), and so must the ack noted already (`AckSound`); an accept in flight carries the cursor
  that a request claimed, so requests in flight must be sound as well (`RequestsSound`); and no reply may outlive the call it answers, or
  the next call would take it for its own (`IdleQuiet`). `EdgeInv` is these with the properties and the types. The gateway's sets only grow, which is why what is in flight stays true.
  Its second part goes on from `EdgeInv`. `IntakeKept`: a call between attach and return has no answer and, before it awaits, no ack (`CallInv`).
  `FateImplemented`: every step of the session layer is a step of `FrameFate` or a stutter, for any gateway the model allows; what it needs of the messages in flight is in `EdgeInv`
  (a reject in flight has a refusal of this call behind it). `RetiredForgotten` needs `Orderly`, for `~EarlyPush`: a request is on the wire only while the socket is up (`Wired`), nothing is on it before an
  attach is sent (`Silent`), there is never more than one request or answer of an attach (`OneAnswer`), and a reject read after the frame was sent is the frame's
  (`FrameOnly`); and that an accept in flight names the session that
  was asked for, or one issued and not refused since (`Numbered`). `CursorAdvances` is for `~Rewinds`, with early pushes: whatever an accept in flight will set the
  cursor to is what it is now, because nothing but the accept moves the cursor while attaching, and projections carry revisions in order (`Advancing`).
  `EveryFrameAnswered` is the liveness of the session layer; see below. `AnswersInherited` reads off the refinement what it is for: from `FrameFate` alone, with
  nothing said of sockets and sessions, an answer that claims a decision of the gateway has that decision behind it and is never taken back.
  `AckHiddenByFailedRead` is about a finding of section 6. `ResumeKept` is about the test `live_edge_resumes_existing_session_when_possible` (transport.rs:2431): of a gateway that pushes nothing before it has answered,
  no hello follows a resume that was accepted. (Of another one a superfluous hello may, and a second attach; the session granted by the resume is kept.)
- **PairingProofs**: `TypeCorrect`, `RequestOnce`, `StoppedSound`, `OthersIgnored`, from `PairInv`. A request is counted only
  for a claim remembered before (`RequestsRemembered`); an approval that was heard is in the channel as long as the wait goes on (`HeardQueued`), so a
  drained channel means that none was heard, and what is in the channel concerns this device (`QueueHeard`). While a request is on its way its claim is remembered already and has been counted at most once
  (`RequestsRemembered`, `SendingInPublish`). `LateByExpiryInWait` is about the finding of `pairing_expiry`.
- **ProfileStoreProofs**: `TypeCorrect`, `AccountSound`, `OsKeySound`, from `ProfileInv`. What a process holds in memory and may write much later has to be as
  sound as what is written already (`HeldApproved`, `HeldHasOsKey`), and keys disappear only by a logout (`DroppingLoggedOut`). `KeySound`
  is by `OneByOne`: as long as nothing was disturbed, failing writes apart, one command runs at a time, the profile has its own key but between the first key touched and the profile written or
  dropped, and a record about to be written has its own key already. `CredentialGoneForGood` holds under every kill and overlap: a secret is stored once, by the login that made it, and until
  then no record but that login's names its device (`StoredOnce`). So a credential that a logout has taken away does not come back, not even when a wait that was under way writes the profile back.
- **EdgeWireProofs**: `TypeCorrect`, `ControlSound`, `SealedSound`, `ReasonSound`, from `Classified`: the secret in use when a message is taken is
  the one it was read with, and the properties then follow from the definition of `Outcome`.
- **ServiceLookupProofs**: `TypeCorrect`, `DrainedSound`, `GuessFree`, `NamesStable`, for any finite set of descriptors (`LookupAssumption`). `LookupInv` adds
  that whatever was sent is known or still in the channel (`SentKnownOrQueued`), so a drained channel leaves nothing out, and that the answer is that of
  `Resolve` on what was known at the end (`AnsweredAtTheEnd`). The rest is about the pure `Resolve`: a match that is found is the only one (`OnlyMatchSound`), one more match
  makes it ambiguous (`OneMoreIsAmbiguous`), and hearing more never turns a name into a location (`ResolveStable`).
  `NamesStable` is about one service more; `MeaningStands` is about the whole of a lookup: a name that means a service at some moment is answered with it or as ambiguous at
  the end, whatever is heard in between, provided that no service is announced a second time in another form (the later one would stand, and may have other names).

- **RuntimeStoreProofs**: `StoreTypeCorrect`, `EventsOnce`, `PartialSound`, `CountSound`, `RefreshSound`, `SaveSound`, for any processes and keys and any finite set of
events. A finite set of events can be sorted in one way (by counting how many come before each), so `Sorted` is a list of exactly that set, each once. `StoreInv` says that every
  retained list is distinct, in the file and in every copy; `CopyCovers` that a copy has all events of the file under the keys neither `replaced` nor `missed`.
  Three more are about what the network does to answers. `MergeAgain`: merged a second time an answer changes nothing, with the one exception described above (the
  first answer of all, if it came unsorted); `RedeliverySound` says so of the steps: the observer hears nothing of a redelivery. `MergesCommute`: two
  answers that are parts of one set leave the same events in either order, provided they agree on the fields they share; if they do not, the later one stands.
  Because a merge goes field by field, all three are about *facts*, what a list says of one field of one event (`FactsOf`): a join says what the new list says and, of
  what that does not speak of, what the old one said (`FactsJoined`), and lists that have each event once and say the same have the same events (`FactsTell`).
- **ProjectionDeltaProofs**: `OperationDoes` and `DeltaDoes`, for any names, leaves, finite documents and deltas of any length. An operation does what `Does` says of it and leaves a
  document, which is what the next one needs (`OperationKeepsShape`). Each operation has a lemma of either kind, `SetDoes`, `AppendDoes` (the new index is the number of items), `RemoveDoes`, and
  `WriteKeepsShape`, `AppendKeepsShape`, `RemoveKeepsShape`. The removal of an item is the hard one: closing the gap
  renames every path below the items after it, and that no two paths become one, that parents move with their children, that the indexes stay `0..n-1` and that the value of
  each item is that of the one a place after it, is `MovedApart`, `MovedFront`, `RemoveItemKeepsShape`, `MovedItem`, `RemoveItemDoes`. The length of a delta is an induction over data. The library's rule for it takes an operator as a
  parameter and is out of reach, so `SetInduction` states it for a *set* of numbers, from the well-foundedness of the naturals; `FoldUnfolds` turns `FoldLeft` into "the last
  operation applied to what the others left" (`FoldOfPrefix`), and the set is that of the prefixes after which the document is one.
- **DoctorProofs**: `CommandsTypeCorrect`, `SetSound`, `ObserverSound`, `DoctorReportSound`, `DirectorySound`, `DeltaSound`, and of the store under the commands `CommandSaveSound`,
  `CommandEventsOnce`, `CommandPartial`, `CommandRefresh`, `CommandCounts`, `CommandRedelivery`. Every step of a command or a doctor is a step that the
  store allows (`StoreMove`, `CommandsUseStore`) or leaves it alone, so what `RuntimeStoreProofs` shows of the store holds under the commands; `LocalsOK` ties the
  stage of each command to what it holds. That the observer hears the news rests on the file being, under a key not missed, what the copy was when it was opened.
  `CommandsImplementStore` is the same as a refinement: with the descriptors and relays hidden (`Bare`) the commands implement `RuntimeStore`'s `Spec`, their
  own steps being stutters of it. `AloneLosesNothing`: if no two commands have the file open at once, no save undoes anything, so the missing lock is all that
  `SaveUndoesOnlyWhatItMissed` makes room for. TLC finds `ImplementsStore` true of the instance of `commands`; it is no property of that run, whose time it would double.
  Two results are about any number of answers under one key, where the runs look at pairs. `LastWordStands`: what is retained after them is exactly the last word spoken of each
  field of each event, back to the last answer that replaced the set; a field that only an older answer had stands beside the newer ones. `AnswersConverge`: two deliveries whose answers are partial, agree on the fields they share and together say the
  same leave the same list, however events and fields are split into answers and in whatever order, and however often, the answers come (a lone first answer is not sorted, so with nothing retained before there must be two). `MergesCommute` and `MergeAgain` are its smallest
  cases. The induction is over the number of answers, by the well-foundedness of the naturals as in `SetInduction`. One `StoreProjection` is one such merge.

Liveness is proved up to the point the prover reaches. ENABLED is opaque to it: it cannot show that an action can be taken. What it can show is that, *if* the fair actions are
taken wherever they must be, they bring the end about, for every value of the constants.
- `WaitEndsInTime`: `Spec /\ WaitSteps /\ PublishSteps => WaitEnds`. The two hypotheses are `ProgramGoesOn` and `RelaysLetGo` with what ENABLED says in them written out: the loop is
  taken again and again or is left, and each publishing comes back. The deadline comes, and at most two rounds of the loop, and one publishing, after it
  the wait is done, however much the relays have put into the channel.
- `EveryFrameAnswered`: `Spec /\ CallsGoOn => EndsWithAnAnswer`, with `CallsGoOn` the same of `ProgramGoesOn` (`ProgramSteps`) and `SocketCallsReturn` (`SocketSteps`).
  Each stage of a call is left by what can be read or sent, or by the deadline, and the stages go one way, so `pc` comes to be `idle`, where the frame has its answer.
- `LookupEndsInTime`: `FairSpec /\ []NeverStuck => LookupEnds`. `NeverStuck`, that the loop can go on while a lookup runs, is about ENABLED; TLC finds it true of the instance of `service_lookup` when
  it is added to that run.

`SocketSteps` and `PublishSteps` are assumptions about the world, which the code does not enforce: without them both theorems are false, and so are the two properties of the runs.

Only model-checked: `EndsWithAnAnswer`, `WaitEnds` and `LookupEnds` under the weak fairness of `FairSpec` as it stands, with its ENABLED. Every other property of a passing run has its theorem.

## 5. What is not modelled, and why

- *TLS and non-blocking details of the socket*: tungstenite's; a read gives a message, a non-text message or an error.
- *Cryptography and signatures*: an envelope opens or it does not; an approval opens with the secret it was made for.
- *Parsing and validation of protocol records*: done by `constitute_protocol`, an external crate. A record is valid or not.
- *Printing, wording, argument parsing, the interactive loop.*
- *Frames and bodies of `swarm_ops.rs`, authority proofs, signed frames*: records filled in from arguments, without state.
- *Coverage figures of the observer update*: numbers copied from the payload for display.
- *What the doctor's samples and diagnostics look at*: canned records, verified by the protocol library; each comes out either way.
- *Steps within a file operation*: a write that is not cut short is one step, and so is the test
  for a file with the removal after it.
- *Fixtures*: canned data.
- *Two threads on one transport*: the state is behind a mutex, but the CLI makes its calls one after the other.

## 6. Where the code and what is said of it differ

Each is a run that checks one statement of the repository and finds it violated.
- `edge_rejected`: `swarm edge rejected frame: ... retryable: ...` (transport.rs:356). The reject of a hello goes through the same `into_error` (1496) as that of a frame (268, 284), so a caller whose
  attach was refused is told of a rejected frame, although none was sent, and of the session's code and retryability as the frame's. `ImplementsFate` says what remains true: a call
  that is told so was refused, its frame or its attach.
- `edge_observation`: an observation whose ack was read but which got no snapshot is reported as "accepted ... but no projection snapshot arrived" (270).
  If the deadline or a close is met inside `read_edge_outcome` (1587, 1590), the error is returned (1352) and the ack is not mentioned.
- `pairing_expiry`: the code's expiry is compared with the clock once, before the loop (pairing.rs:103); a claim read later is answered
  with the expired code (144), although the refusal (104) says "pairing code expired".
- `profile_replace`: "profile already exists; pass --force to replace" (app.rs:310). The replacement writes the key file (325) before the
  profile (355); killed in between, or if the second write fails, the old profile remains without its key.

A counterexample shows one way to the disagreement. For three of the four a theorem says, for every instance, that there is no other:
`AckHiddenByFailedRead` (a read must fail after the frame has gone out; the test of the deadline after an outcome does tell
of the ack), `LateByExpiryInWait` (the code must expire during the wait) and `KeySound` (a process must be killed, two overlap, or a write or removal fail in a forced login or a logout). Each is thus also what a change of
the code would have to deal with, and that it need not deal with more. Of `edge_rejected`, `FateImplemented` says that a refused attach is the only other thing such a message can mean.

Noted while modelling, without a run: a record pushed ahead of the answer to a resume is taken for it (`_ => {}`, 1462), and the call says a superfluous hello; if the resume is then refused, the hello loop reads that
refusal as its own (1488), ends the call and leaves the refused session set; and a silent gateway or relay can hold a call or a wait past its deadline, as said under Fairness. `service ... watch` announces "retained projection not available" whatever the store holds (app.rs:631);
two checks of the doctor cannot come out but one way, the quarantine of relay hints (doctor.rs:136-141) and the operator's boundary (152); the body of a new
channel is sealed only to those issuer and member keys that parse (swarm_ops.rs:452).

## 7. Plan

Done, in the order of importance: the session layer, its abstract promise and the proof that it keeps it; pairing; the profile files; the state file; the
lookup; the classification; the service commands over the state file; the doctor with the directory and the delta it checks. Left:

1. Whom the body of a channel or an announcement is sealed to (swarm_ops.rs 300-476), as a function of the keys that parse.
2. The coverage figures of an observer update.
3. Two processes with an edge session each to one gateway, if a command is ever made to keep its transport across calls.
