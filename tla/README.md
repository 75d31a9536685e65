# Endpoint Protocol: specifications, checks and proofs

TLA+ modules of the Endpoint Protocol implementation (`endpoint/`), TLC
configurations that check them on small instances, and TLAPS proofs of what
matters most for every value of the constants.

    tlc  -config Mailbox.cfg MCMailbox.tla      # a run
    tlapm MailboxProofs.tla                          # the proofs

## 1. The system

Clients hold keys and talk to one *home server*. A server keeps a mailbox for
each client it hosts, stores encrypted content objects, and passes deliveries
on to other servers.

| component | state it keeps | operations | used by / uses |
|---|---|---|---|
| mailbox: `ServerState.accept_envelope_for_local`, `MessageQueue`, `ReplayStore`, `websocket_inbox` | SQLite tables `queue_messages`, `replay_messages`; per connection a position in its loop | accept, deliverable, lease, ack, reject, count | posts from clients and peers; frames to and from receiving clients; asks the content store |
| content store: `ContentStore` | table `content_objects`, one file per object | put, get, is_expired, prune_expired | uploads of clients and peers; pruned by health checks, acks, rejects and start-up |
| federation proxy: `client_messages`, `federation_*`, `client_discover` | `_content_transfers`, a lock | route locally or to a peer, transfer content once, ask a peer for an identity | home server to peer server, over HTTPS |
| sending client: `EndpointClient._send_content_reference`, `retry_outbox`, `ClientOutbox` | `outbox.json` | save, mark, pending_batch, send, retry | posts content, then envelopes, to the home server |
| receiving client: `EndpointClient.receive_messages` | `processed_messages.json`; per call the deferred frames and the messages so far | read a frame, fetch content, process, ack or reject, await the result | the WebSocket inbox and the content GET of the home server |
| envelope processing: `process_envelope` | `routes.json`, `identities.json` | decrypt, verify, compare outer and inner fields | called by the receiving client |
| contacts, routes, pins: `ClientState`, `discover`, CLI contact commands | `contact_pins.json`, `routes.json`, contact files and their index | import with rollback, discover, warn of changed keys | the CLI; the federation proxy |
| enrollment: `setup host-init, invite, join, enroll` | workspaces, pending invites, server configuration | four steps on two machines | the CLI; the server reads the result at start-up |
| key store: `OpenPgpContext` | three files | generate, export, sign, encrypt, decrypt | every client operation; the Rust backend |
| credentials, protocol validation, transport policy, configuration, command line, diagnostics, log | none of their own that others depend on | pure checks, parsing, printing | |

What is hard here, and where it bites, is listed with its lines in
`PROJECT.json` under `hazards`. In short:

* A server is one asyncio process: handlers interleave at awaits only, but
  every store call is a transaction of its own, and the process may die between
  two of them.
* Leases, acknowledgements and retries race: two connections of one client, a
  client slower than its lease, an ack whose result is late, a sender that
  repeats what was accepted.
* The client's files are read, changed and written without a lock.
* An outbox promises that what was saved is delivered in the end, although
  responses are lost and some deliveries can never succeed.

What makes each component correct:

* *mailbox*: an accepted message stays until a client takes it off, is never
  accepted a second time, nor replaced under its message_id, is handed to one
  connection at a time, and does get handed out;
* *content store*: atomic from the outside; every row has its file; what was
  accepted stays until a deadline;
* *receiving client*: a message reaches the user at most once, only when its
  ack was accepted, and does not get lost in between;
* *sending client*: a saved delivery is accepted or still waits;
* *federation*: content arrives before the envelopes that refer to it;
* *envelope processing*: whatever part of a message was exchanged is noticed;
* *contacts*: a route that is pinned is never used with another key;
* *enrollment*, *key store*: a crash or a re-run ends in a usable state, and no
  invite is lost or comes back on the way.

## 2. Plan

Modules, in this order.

1. `Mailbox` with `MailboxProofs`: the server's core.
2. `ContentStore`, which refines `ContentSpec`, with `ContentStoreProofs`.
3. `Inbox` with `InboxProofs`: `Mailbox` composed with the receiving client.
4. `Outbox` with `OutboxProofs`: the sending client.
5. `Federation` with `FederationProofs`: two servers, `_content_transfers` and
   its lock, the order of content and envelope.
6. `Sealing` with `SealingProofs`: what `process_envelope` compares, over parts
   of messages mixed at will; its verdict goes into `Inbox`.
7. `Contacts` with `ContactsProofs`: pins, discovery, import with its rollback.
8. `Enrollment` with `EnrollmentProofs`: set-up and key stores, files written one
   after the other, crashes, re-runs.
9. `Delivery`: the channel from the answer "queued" to the user, which
   mailbox and receiving client together implement; the refinement is stated in
   `Inbox` and proved in `InboxProofs`.
10. Open: to extend that channel back to the sender's `send`, through outbox and
    federation. `mailbox_lost_retry` and `outbox_reseal` are the reasons why it
    cannot say *at least once* there as the code stands; the parts of it that do
    hold are `NothingIsLost` and, but for a death of the peer, `ProxiedIsQueued`,
    each where one module hands to the next.

No safety property that a passing run checks is without its theorem.

## 3. The modules and the code

### Mailbox (`server_core.py`, `storage.py`)

One action is the code between two awaits. `accept_envelope_for_local` has no
await but two transactions, so it is two actions, `Remember` and `Enqueue`, and
`accepting` keeps every other handler out in between; only `Crash` (and the
clock) can come there. `RefuseUnready`, `RefuseDuplicate` and
`AnswerAlreadyQueued` are its early ends. Whether the content a reference names
is there is for the content store to say, so `RefuseUnready` may always happen
to a reference.

A connection's handler runs `Deliver` (requeue expired leases, snapshot, lease
the first row), then, after each awaited send, `DeliverNext` with what is left
of the snapshot, then awaits a frame: `Ack`, `Reject`, or the 0.2 s timeout,
which is `Deliver` again. `Connect` and `Disconnect` open and close it. A row is
`[env, state, lease, attempt, created]`; times are whole seconds as `now_iso`
cuts them, while `now` itself counts finer ticks (`TicksPerSecond`), which is
what makes the lease truncation visible.

Left out: `delivery_attempts`, `reject_reason`, `updated_at` (written, never
read), and log lines. A clock that is set back is not modelled, nor is a power
failure that loses committed WAL transactions (`synchronous = NORMAL`).

### ContentStore (`storage.py`), ContentSpec, Content

`put` is `PutExpired`, `PutKnown` or the three steps `PutBegin`,
`PutPlaceFile`, `PutCommit`, in the order of the code: the file is moved into
place before the row is committed. `_delete` commits first (`DeleteRow`) and
unlinks afterwards (`Unlink`); `get` and `prune_expired` use it. `Crash` may come after any
step; the restart prunes. `ContentSpec` is the promise: an atomic map with
deadlines. The refinement maps its `store` to the committed rows.
The temporary file of `put` is left out: its name is random, nothing reads it,
and one that a crash leaves behind is never removed.

### Inbox (`client_core.py`, `server_core.py`)

Extends Mailbox: `ServerDeliver` and `ServerSettle` are Mailbox's handler
actions together with the frames they send and read. Each connection slot is one
call of `receive_messages`, whose position is `at`: `reading` (main loop),
`fetching` (content GET and `process_envelope`), `ack` or `reject` (in
`_wait_for_wss_result`), `out`. `Defer` puts other frames aside, `TakeResult`
takes the result, `Return` ends the call at its limit or deadline (also while a
result is awaited), `Fail` is a lost connection or a dead client. The verdict of
`process_envelope` is `Accepts`: not processed before, and not in `Poison`, the
envelopes whose `Parts` are turned down by `Sealing`; the content GET of a
reference may fail at any time (`MayFailToFetch`). `Sender` is Mailbox's side of
the senders, who submit and repeat what they like. All mail is for one client,
whose calls share its state directory; `processed_messages.json` is a set that
grows, as `mark_processed` makes it for the calls of one process (two processes
could lose an entry to each other).

`Delivery` is what the two promise together, in four variables: `promised` (whose
senders were told "queued"), `waiting`, `granted`, `given`. `Post` is `Enqueue`;
`Grant` and `Drop` are `ServerSettle` for an ack and a reject that find their
row; `Give` is `Return`. `granted` maps to the acknowledged messages that a call
holds or has an accepting `ack_result` under way for; a lost connection, a
deadline or a deferred result may `Lose` one (`inbox_lost_ack`), but nothing else
can happen to a message: one that the client has no cause to refuse is never
dropped, one that was dropped or given never comes back.

### Outbox (`storage.py`, `client_core.py`)

A call of send or retry loads, changes and writes `outbox.json` in `save` and
`mark`: `StartSend`/`Save` and `Answered`/`Mark` (or `FailNext`/`Mark` for the
loop that marks a fan-out whose upload failed). With `Shared = FALSE` the calls
are tasks of one process and `Turn` keeps them out of each other's load and
write; with `TRUE` they are processes, and nothing does. `UploadSucceeds`,
`UploadFails` and `Submit` are the requests: answered, refused, or lost before or
after the server acted. The server is what its answers depend on: `stored`,
`expired`, `accepted`, which is what it admitted or took for admitted: a server that dies
between its two transactions answers the retry `already_queued` and has nothing
queued (`mailbox_lost_retry`), and the outbox cannot know. Message ids are taken to be unique, as the README asks of
callers; an object is identified by its content_id and the send that sealed it.

### Federation (`server_core.py`)

`client_messages` for an envelope to another server, cut at its awaits. `Submit`
is everything before the transfer lock; `line` is the lock with those who wait
for it, in the order `asyncio.Lock` serves them. Its holder finds the content
among `transfers` (`SkipTransfer`), gone (`ContentGone`), or posts it
(`PostContent`) and goes on when the peer has answered (`ContentDelivered`,
`ContentRefused`, `EnvelopeAnswered`) or the five seconds are over (`GiveUp`). A
free lock is taken without an await; the model lets other steps come between
`Submit` and the holder's step then too, which adds interleavings and takes none
away. `posts` are on their way to the peer. One that its sender gave up is no
longer `live`, but may still be handled.

At the peer `PeerStores` is `federation_content`. `federation_messages` is what
it is in `Mailbox`, two transactions: `PeerRefuses` and `PeerRepeats` are its
early ends, `PeerRemembers` writes the replay row and `PeerQueues` the queue row;
in between the post is of kind `remembered` and keeps every other handler of the
peer out (`PeerFree`). `PeerCrash` may come there: the posts that have reached the
peer die with it, and `cut` notes the envelopes that are remembered and on no
queue. `HomeCrash` empties `transfers`. Each server has its own clock: `lapsed`
says what is over by it.

An envelope has at most one request under way; a repetition starts when the one
before has ended. Nothing is assumed of content_ids: a client may submit an
envelope whose content was never uploaded, or whose content_id holds something
else here (`Upload`) or at the peer (`ForeignUpload`). Then the wrong content is
sent under the envelope's hash, the key of that transfer is noted, and the
envelope is refused by the peer, again and again.

### Sealing (`client_core.py`, `protocol.py`)

A message travels in three parts: the content object, the claim sealed for one
recipient, the outer envelope. `SignedContent`, `ClaimFor`, `EnvelopeFor` and
`ObjectFor` are what `build_*` put into them; `Accepts` is the conjunction of what
`process_envelope` compares, grouped as *fetched* (the object is the one that was
asked for), *from one sender* (both signatures and both fingerprints), *belongs*
(outer against claim against content) and *role is shown*. There is no state: the
module is a decision over all combinations of parts, those that no client built
included. A hash stands for what it hashes, a signature for the key that verifies
it. The parts are well formed; sizes, timestamps and protocol versions are left
out.

### Contacts (`cli.py`, `client_core.py`, `contact.py`)

Every command is a process of its own (`cmd[p]`, its position `at`). A file that
is written in place is first emptied and then filled (`Half`), so others may read
it empty (`Torn`), and a command that dies leaves it so. `send` looks up the index
(`LookUp`), the contact file (`ReadContact`), asks the servers (`Discovered`, which
may come back with any key in `KeysAt`, or fail) and uses the key (`SendMessage`).
`contact import` and a matched `discover` run `_remember_contact`: `PutContact`,
`LoadIndex`, `SaveIndex`, `ImportPin`, and if the last raises, `RestoreContact`
and `RestoreIndex`. `vouched` is what the user has said of a route: the key of the
last import, and that of one under way.

### Enrollment (`cli.py`, `crypto.py`, `config.py`)

`host-init` is `StartInit`, `InitCert`, `InitCa`, `InitKeys` three times,
`InitProfile`, `InitConfig`, `InitDoc`; `invite` is `StartInvite`,
`InvitePending`, `InviteZip`; `enroll` is `StartEnroll`, `EnrollConfig`,
`EnrollUnlink`; `join` is `StartJoin`, `JoinCa`, `JoinKeys`, `JoinProfile`,
`JoinBundle`; `run` is `Restart`. Each writes one file. `HostCrash` and `JoinCrash`
end a command anywhere and may leave the file it was writing unreadable (`Null`).
Keys, tokens and certificates are numbered as they are made. A key store is three
file contents: what `ensure_identity` does with it is `EnsureIdentity`. A command
is run when something is missing that it provides (`InitDue`, `InviteDue`,
`JoinDue`), and up to `MaxAgain` times besides.

Abstracted: certificate and key of TLS are one file; a key file cut short is as if
the crash had come before the next one; `identity.json` and `hosted-identities`
are written and not read again by these commands; a zip cut short is not handed
out. A guest joins in one workspace; joining the same invite in two is excluded.
The host runs one command at a time.

## 4. Runs

| run | question | bounds |
|---|---|---|
| `mailbox` | admission, memory and custody with a crash anywhere, for two mailboxes that use one message_id | 4 envelopes (one a conflicting twin, one to another server), 2 clients, 2 connections, 1 crash, leases of 1 s, 1 s, `quarantine` |
| `mailbox_lease` | how long a lease holds, are waiting messages handed out, is "already_queued" true | 2 messages, 2 connections, 2 ticks a second, leases of 2 s, 4 ticks, no crash, `drop` |
| `content_store` | crash consistency, atomicity, and what an accepted upload is worth | 2 objects for one id with different deadlines, 1 of them also with a later one, 1 object without; 2 crashes |
| `inbox` | at most once, only what was acknowledged, only what belongs together; is it the channel `Delivery` | 2 calls, a sound reference, a message with another one's content under the same id, a sound inline message, sent and repeated at will, leases of 1 s, 1 s, 1 server crash |
| `inbox_live` | does a patient call empty the mailbox | a sound reference and a message with another one's content, 1 call, leases of 1 s, 2 s |
| `outbox` | custody of saved deliveries in one process, and do they arrive | 2 overlapping calls, a fan-out of two whose content is sent again to a third, 1 fault, 1 crash, expiry, batches of 1 |
| `federation` | does content precede its envelopes and stay with them, is the cache of transfers true, does every request end | a fan-out of two and an inline envelope, content that may expire and whose id may be used for something else on either server, 1 fault: a post lost, an answer late, a restart, or a death of the peer between two transactions |
| `enrollment` | do interrupted, repeated and crossed set-up commands end well, and is no invite lost or taken back on the way | owner and 1 guest, 1 crash at any file, 1 command more than needed |
| `contacts` | does a pin hold, do contact file and index agree, does an import succeed in the end | 2 routes, one with two possible keys, 1 send and 1 writing command at once, 1 failed pin, 1 death |

The bounds cover the interesting cases: two connections are enough for a row to
be leased, lapse and be settled by the other; two envelopes under one id for
every replay answer; one crash for each gap between two transactions, since a
second one meets the same database again; a batch limit below the size of the
fan-out. One crash of an enrollment meets every gap between two files, and the
repetition that follows meets what it left; runs with two crashes or two
repetitions (240 000 states each) say the same. What depends on the sizes in no
way is proved (section 6).

`inbox` takes the two calls for interchangeable (`SYMMETRY Calls`: they are
slots that nothing tells apart) and does not tell states apart by the answers
other than "queued" that senders got (`VIEW ButRefusals`: no action and no
property of that run reads those). Both are used with safety properties only.

Three more runs find a disagreement between the code and what is written about it:

* `mailbox_lost_retry`: a crash between the two transactions of
  `accept_envelope_for_local` leaves a message_id remembered and nothing queued;
  the retry is answered `already_queued`.
* `inbox_lost_ack`: an ack is accepted and the message returned by no call.
* `outbox_reseal`: signed content that is sent a second time is refused for good.

More limits of the code show in the modules, and the properties above are stated
within them:

* a lease is shorter than `lease_seconds` by up to a second, and one of a single
  second may be over at once (`LeaseDeadline`): hence `LeaseHoldsAlmost`;
* a GET that fails for a moment makes the client reject a sound message, which
  the default policy drops (`MayFailToFetch`): hence `Delivery` lets any reference
  be dropped, and keeps the sound inline messages alone;
* two processes on one state directory lose each other's saved deliveries
  (`Outbox` with `Shared = TRUE`): hence `NothingIsLost` is about one process
  (`QueuedIsAccepted` is proved for several);
* `_content_transfers` names content by id and hash, not by copy: once a copy has
  expired everywhere, another copy of the same signed content is never sent to
  that peer until the home server restarts (`Key`): hence `ReachesPeer` excepts
  content one of whose copies is over its deadline (`Over`);
* the hash in that name is the envelope's, and nobody compares it with the
  content that is sent (`PostContent`): hence `TransferredIsThere` is about
  content_ids, and `ReachesPeer` excepts an id that is used twice (`Taken`);
* a peer that dies between its two transactions makes the home server call
  `proxied` what is on no queue, as `mailbox_lost_retry` shows of one server:
  hence `ProxiedIsQueued` and `ReachesPeer` except the references in `cut` (an
  inline envelope is refused after such a death, and its sender knows);
* a delivery that is refused for good (its recipient unknown, its content expired
  or sealed anew) stays first in the outbox, and with as many of them as a batch
  holds, no retry gets past them: hence the exception `HeldUp` of
  `ArrivesUnlessHeldUp`;
* `put` compares hashes and not deadlines, and "existing" leaves the deadline of
  the first copy: hence `AcceptedIsHeld` promises no copy more than the earliest
  deadline among those accepted;
* a key store that misses a file is used, replaced and removed by no command:
  hence the exception `Broken` of `EveryoneGetsIn`;
* `host-init` run again replaces the CA and writes a configuration without the
  clients enrolled before, who have to be invited again: hence `TokensMoveOn` is
  about a guest while it stays hosted, and `EveryoneGetsIn` needs the invite;
* `server.json` is written in place: after a crash only `host-init` helps;
* a contact `index.json` that a dead command left empty stops every import and
  every send to a route for good: hence the exception in `PinnedInTheEnd`;
* two imports at once can lose an entry of the index, and the route of that entry
  is then as if it had never been pinned: hence the run and the theorems of
  `Contacts` are about one writer;
* pins count only for `send` and `discover` by route: a send with
  `recipient_identity=` uses the identity it is given, and the `route_warning` of
  a discovery is printed by `discover` and dropped by `send`.

Each property of a passing run has a mutant: a definition of the code replaced by
a plausible bug (the operators commented "Variation"), under which TLC finds the
property violated.

## 5. Fairness

* `Mailbox!Fairness`: the event loop runs a handler that is ready
  (`Deliver`, `DeliverNext`: the 0.2 s timeout guarantees a next turn) and the
  second transaction follows the first. Nothing is assumed of clients;
  `DeliveryProgress` only speaks of a connection that stays open.
* `Inbox!PatientSpec`: the connection holds and the call has time; each end
  handles what it has received, the server puts on the queue what it has
  remembered. Senders may stop, and time need not advance.
* `Enrollment!Fairness`: a command that is running goes on; whoever misses
  something runs the command that provides it, again and again if it is
  interrupted (crashes are bounded), and the host restarts a server whose files
  have changed (`enroll` prints `restart_required`).
* `Contacts!Fairness`: a command goes on, and the user imports each contact again
  and again.
* `Outbox!Fairness`: somebody keeps running `endpoint retry` (nothing in the code
  does it by itself) and a started call goes on; faults and crashes are bounded.

* `Federation!Fairness`: both event loops run what is ready, a request whose
  post or answer is lost ends after httpx's five seconds, and a client repeats a
  reference until it is answered `proxied` (`endpoint retry`; an inline envelope
  is not repeated, as it would be refused). A peer that has written a replay row
  goes on to the queue row unless it dies. Posts that nobody awaits need not be
  handled.

## 6. Proofs

`MailboxProofs`. The inductive invariant `IInv` joins the properties with two
facts that TLC shows and the properties need: queue rows are unique by
(client_ref, message_id) (`RowsUnique`), and an envelope between its two
transactions has a replay row but neither a queue row nor a past
(`AcceptingIsFresh`). The argument: a replay row is written before anything
else and never deleted (`AdmittedIsRemembered`), so `Remember` is only enabled for
an id with no past, from which follow that no other envelope gets in under the
id, that `add` never collides, and that what is done stays done. `LeaseInv`
relates the deadline of a leased row to the tick of the lease; `LeaseHolds`
follows from the arithmetic of whole seconds, for every resolution.

`AlreadyQueuedIsKept` is false once a process dies (`mailbox_lost_retry`); for
`MaxCrashes = 0` it follows from `RememberedIsInCustody`: what a replay row
remembers is on the queue, done, or in hand.

`InboxProofs`. Every step of `Inbox` is one of `Mailbox` or leaves it alone
(`MailboxStep`), so `IInv` carries over. The rest is said of each envelope
(`Sound`): an ack that finds its row takes it off the queue and grants the message
once, in a frame on one connection; the call that takes that frame holds it, and
returns it; nothing else grants it, as no step puts it back on the queue
(`OffTheQueue`). `Single` says that of returned, held and granted there is at most
one, at one place. Frames name a message_id only, so what they say is tied to
messages by `OneEnvelopePerMessageId` (`OneMail`): a frame that is late is about a
message that was handed out (`SoundFrame`), an accepting result about one that
was acknowledged, a request to settle about one that its client accepted or had
cause to refuse (`SoundAsk`). That makes `WhatSurfacedIsGenuine` a corollary of
Sealing's `AcceptedIsGenuine`, and `InboxIsDelivery` the refinement, one lemma per
kind of step: `EnqueuePosts`, `SettleRefines` (a `Grant` or a `Drop`, of the one
row with that id: `SettlingOne`), `ReturnRefines` (a `Give`, of what no other call
holds), and `NextRefines` for the rest, which can only lose grants
(`LosingIsAllowed`). For any number of calls, frames, leases and losses, and any
parts of messages put together.

`ContentStoreProofs`. The invariant adds to `RowHasItsFile` what holds between
two steps of a call: a file is placed for the object that is being put, and no
row is there for the id that is being unlinked or put. The refinement maps every
step to one of `ContentSpec` or a stutter, `Crash` to a stutter. `NoFileIsOrphaned`
follows from the files still in work (`OrphansAreInWork`). `AcceptedStays` is
inductive with the rows being among what was accepted (`RowsAreAccepted`): a row
only goes when its deadline, which an accepted copy stated, has passed.

`OutboxProofs`. An outcome "queued" is only ever recorded for an accepted envelope
(`OutcomesAreTrue`), and a copy of the file, however old, says "queued" only of
such (`ViewsAreTrue`): `Sane` is inductive for calls in one process and in several,
so a lost update may drop a delivery or have it submitted again but never passes it
for delivered (`QueuedWasAccepted`). Each write is whole in the model, which the
temporary name that `save_json` gives all processes does not ensure. For
`Shared = FALSE` a call's copy is the file (`ViewIsFile`) because one call at a time is
between load and write (`OneAtATime`), and nothing is lost. `SavedFacts` and
`MarkedFacts` say what save and mark do to a file.

`FederationProofs`. What is at the peer, counted until its deadline (`AtPeer`),
only grows (`PeerGrows`). The invariant ties a request's position to the rest:
who uploads holds the lock (`UploaderHasLock`), an awaited post is the only one of
its request (`LivePosts`) and carries what our clients put under the content_id
its envelope names (`PostsMatch`), a post between the peer's transactions has its
replay row and its content (`HalfAdmitted`), a replay row leads to a queue row
unless the peer died over it (`RememberedIsAdmitted`), and an answer "ok" means
what the request takes it for (`AnswersAreTrue`). From these follow the truth of the cache and of `proxied`;
`OneUploadPerKey` follows from the lock, for any two contents.

`SealingProofs`. `AcceptedIsGenuine`: if the signature on the claim is authentic
(made by a client for a claim it built, `Authentic`) then what a recipient accepts
is the very envelope one sender built for it, from the very content it comes
with. `FanoutIsAccepted` is the converse: no check turns down what a client built.

`EnrollmentProofs`. `HostedKeyIsHeld` needs that the key files of a store are
written in one direction only, that a bundle names a complete store's key, and that
a command past its key files has a complete store; the latter two carry the key
from the guest's disk through the bundle to the server. `TokensMoveOn` needs that
the host runs one command at a time: what an enroll has read from the pending
invite is still there when it is written (`EnrollingIsPending`) and when it is
removed (`UnlinkingIsHosted`), and tokens are drawn in order (`TokensAreDrawn`,
`PendingIsNotOlder`). For any number of guests, crashes and repetitions.

`ContactsProofs`. With one writer (`OneWriter`) and any number of senders: what
the files hold is torn, empty or a vouched key, according to the position of the
writer, and a send's own snapshot `known` is within what was vouched when it
looked. For `ContactsAgree`: between its writes a command still knows what the
index held (`base`) and the file (`was`), and off its own route the files agree
with that (`RestAgrees`); so completing, undoing and dying all leave agreement.

The proofs assume what the modules' ASSUMEs say of the constants, nothing else
(`SavedIsNotLost` also `Shared = FALSE`, `ContactsProofs` `OneWriter`, without which
the claims are false; `AlreadyQueuedKept` `MaxCrashes = 0`). `PartsAssumption` of `Inbox` is that signatures are
not forged. Only model-checked: the liveness properties; liveness and ENABLED are
out of the prover's reach.

## 7. Not modelled

The channel from one user to another as a whole (plan, item 10). Cryptography (a verdict in `Sealing`), JSON
canonicalisation, field validation, the TLS handshake, URL and address checks,
the checks of the configuration's fields, printing, diagnostics and the log: they
keep no state that others depend on, and the models take what has passed them.
Of the client's files: `routes.json`, `identities.json`, `contact_pins.json` and
`trust.json`, which no command decides by.
