# InverterCommunicationAgent in TLA+

Specifications, model-checking configurations and proofs for the coil service
of an inverter: a trusted application (TA) in OP-TEE that stores the coils and
signs them, a host and an agent library around it, and a Modbus client and
server that write and read the inverter status coil under its signatures.
Paths below are relative to the repository; file names without a directory are
unique in it.

## The system

| Component | Source | State it keeps | Operations | What makes it correct |
|---|---|---|---|---|
| Trusted application | `src/ta/inv_ctrl_ta.c`, `src/ta/include/*.h` | the persistent object `coil` (one byte), per session its locals and handles | seed, get all, get one coil (signed), set one coil (verified), verify, sign | the status turns on only through a signed "on"; concurrent sessions neither corrupt the image nor keep the object; a command takes effect once or not at all |
| Coil image arithmetic | `ta_getBitNumberForCoil`, `ta_getCoilValue`, `ta_updateCoilData`, `SET_BIT`, `CLEAR_BIT` | - | read and write one bit | bits are independent; an address without a coil reads 0 and writes nothing |
| Crypto pipeline | `ta_signAndVerify` and the TEE wrappers below it | operation and key handles, in memory all sessions share | digest, key import, sign or verify | handles are never mixed up between its modes, and all it leaves behind goes with the session |
| Host library | `src/host/inv_ctrl_host.c` | one TEE context and session per call | one function per command | contexts and sessions are given back; a failure is not taken for a verdict |
| Agent library | `src/agent/invCtrl.c` | - | builds the signed parts of Modbus frames, tampers on request | what is sent is what the TA answered |
| `reseed` | `src/agent/reseed.c` | - | seed, get all | it returns whatever fails |
| Modbus server | `src/ModbusServerClient/server.c` | one listening and one accepted socket | listen, accept once, receive and reply until the peer is gone | whole replies, in order, to every request but a broadcast; it ends when its peer does |
| Modbus client | `client.c`, `main` up to line 173 | two results and an assertion state | connect, write ON, read, assert, close | what it accepts is true; tampering is refused |
| Unreachable tests | `client.c` lines 174-702, `test_server`, `send_crafted_request` | | | not modelled: line 173 jumps over them |
| Build and start scripts | `build.sh`, `src/run.sh`, Makefiles | | | not modelled; `run.sh` fixes the start order |

OP-TEE, libteec and the libmodbus fork are not in the repository. They are
modelled from how this code uses them; the assumptions are listed below.

How they interact. The client's `modbus_write_bit` calls the agent
(`invCtrl_signCoilValue`), which has the TA sign value and transaction id; the
server's `modbus_reply` calls `invCtrl_setCoilData`, whose TA call verifies
that signature and stores the coil. On a read the server's
`invCtrl_getDataByCoilAddress` returns the value with a TA signature that the
client's `invCtrl_verifyCoilData` checks. Each agent call opens a context and a
TA session of its own, so the programs share nothing but the TCP connection, the
memory of the TEE and the object `coil`.

Hard behaviours, each listed with its line under "hazards" in `PROJECT.json`:
a set is a read and a create with the object closed in between; every TEE
result is overwritten unread, so a refused open continues with an uninitialised
handle and a refused allocation with the handle of another operation; panics
leave the host's own zeros as results; a failed read leaves zeros that are signed,
and a failed create is answered like one that succeeded; error codes and verdicts share one `int`;
a context stays behind when its session is refused; a timed-out request is still
applied, its answer still arrives; the server accepts exactly one connection and
ignores whether it listens; C's truncating division gives an unmapped address a
bit outside the byte.

## The modules

| Module | Models | State and actions |
|---|---|---|
| `CoilBits` | the image, its arithmetic and the signed bytes | operators with the C names, at `uint8_t` width |
| `MCCoilBits` | the image beside an array of eight coils | one action, `ta_updateCoilData` with any bit number and value |
| `CoilTA` | the TA's commands | `object`, and per session `pc` (the TEE call it is about to make), `req`, `allCoilData`, `handle`, `reply`; one action per command (`ta_seedCoil` ... `ta_signCoilData`) that enters its handler, then one per TEE API call: `Verify`, `Sign`, `OpenObject`, `ReadObject`, `CloseObject` (with the update that follows it), `CreateObject`, `CloseCreated`, and the panics. `asked` and `issued` are history: what programs asked to sign, and what was signed |
| `MCCoilTA` | | sessions and commands for TLC |
| `TACrypto` | `ta_signAndVerify`, the one step `Verify` or `Sign` of `CoilTA`, call by call | `live` is what is allocated in the memory the sessions share, `handle` the three handle variables, `key` the key copied into the operation; one action per TEE call, each with its panic |
| `HostSession` | host and agent library in the programs that use them | `pc` is the TEEC call a program is about to make, `contexts` and `free` the contexts and TA instances left, `told` what the agent says of a signature; `Return` is each early return with the `int` it returns. What the TA does with the command is reduced to the verdict, the signature and whether it can die |
| `MCHostSession` | | which functions each program calls |
| `SignedCoil` | what the service promises to one storage user | one atomic effect per call: `Seed`, `Write`, `Read`, `Judge`; a call may die before its effect. What is left of it when storage fails is stated too: `ReadFails`, `WriteAfterFailedRead` and `CreateFails` are answered as if nothing had happened |
| `CoilTARefinement` | | the mapping from `CoilTA` to `SignedCoil`: a seed or set takes effect at the create, a get at the read |
| `MCCoilTARefinement` | | its instance for TLC |
| `ModbusServer` | `main` of `server.c` with a peer that sends anything it handles | `server` is the place in `main`; `inbox` the requests pipelined to it, `replies` the whole frames sent, `broadcasts` (history) the requests that ask for no reply; one action per branch of the receive loop and per byte of the reply that is sent byte by byte, one for a mapping that cannot be allocated, and one for `modbus_receive` giving up on a socket of -1 |
| `ModbusExchange` | client and server programs, the connection, and the agent between them and the TA | `client` and `server` are the places in the two `main`s; the TA is an instance of `SignedCoil`, and its steps are conjoined with the agent's. `SessionRefused` is a context or session that could not be opened (`inv_ctrl_host.c:221-239`), `Dies` a command that died (its results stay zeros), `Faults` a storage call that failed unnoticed; a server without a mapping is `done`, one without the port `deaf`. `seen`, `faulted` and `refused` are history |
| `MCModbusExchange` | | the set of modes |
| `CoilBitsProofs`, `MCCoilBitsProofs`, `CoilTAProofs`, `CoilTARefinementProofs`, `TACryptoProofs`, `HostSessionProofs`, `ModbusServerProofs`, `ModbusExchangeProofs` | | lemmas and theorems about the module they are named after |

How they compose. `TACrypto` opens up one step of `CoilTA`; its promise there is
a verdict, a signature or a dead instance, and `CallsReturn` of both justifies
that a command always comes back to `HostSession` and `ModbusExchange`.
`CoilTA` implements `SignedCoil`, and `ModbusExchange` runs on `SignedCoil`.
`HostSession` gives what a failed call leaves its caller, which
`ModbusExchange` uses in its results (`NoSession`, `signatureVerified`). `ModbusServer` and `ModbusExchange` are two
views of `server.c`: the first has any requests and the special registers, the
second the coil requests with what the agent makes of them.

A definition named after a C function is that function. A few definitions are
mutants: their comment says so, nothing uses them, and each is a plausible bug
that one of the properties detects when it takes the place of the real one.

Abstractions. A signature is the bytes it signs and `<<>>` if it signs none of
them; RSA and SHA-256 are assumed to be right. In `ModbusExchange` the coil is
only on or off and the transaction ids are the two that the client uses. In
`TACrypto` a key is which key it is.

The TA never compares the value it stores (`params[0]`) with the bytes whose
signature it verifies (`params[1]`, `inv_ctrl_ta.c:195-208`). That they agree is the
work of the host library, which lays out the bytes from the value
(`inv_ctrl_host.c:240-253`), and `CoilTA` has no other caller: what is said of its
commands is said of commands that come through the host library.

External assumptions.
- OP-TEE: the TA is not single-instance (`user_ta_header_defines.h:45`), so each
  session has its own memory. An object opened without SHARE flags is held
  exclusively and a conflicting call returns an error. A create with OVERWRITE
  is atomic also against a restart. Reading with a handle that was never
  assigned panics; closing one is harmless (null) or panics. A read that fails
  with a good handle leaves the buffer as it was, and a create that fails leaves
  the object as it was. An operation or key
  handle that is null, freed or of the wrong kind panics; a failed allocation
  leaves its variable alone. A panic gives `TEE_ERROR_TARGET_DEAD`, frees what
  the instance held and leaves the caller's parameters as they were. A process's
  contexts are closed when it exits.
- libmodbus fork: it answers a write that was not verified by an exception
  (`client.c:149` relies on it); whether a verdict of 0 counts as verified is not
  known, nor is it for the error code of a refused session (one `TEEC_ERROR` stands
  for all), hence the constant `AcceptedVerdicts`. It numbers requests and refuses
  an answer with another number. With link recovery a response timeout flushes
  what has arrived. Accepting on a socket of -1 fails; receiving on one fails or
  waits for ever, and the models leave both open. A broadcast gets no reply from
  `modbus_reply` and the call returns 0, which does not end the loop
  (`client.c:526-532` expects no reply); the special branches of `server.c` reply
  without looking at the unit id. A raw request gets the transaction id 0.
- TCP delivers in order; a closed connection may lose what is still on its way.

## The runs

| Run | Question | Bounds and why they are enough |
|---|---|---|
| `coil_bits` | do updates stay in their bit? | complete: all 256 images, bit numbers -1..7, values 0, 1, 255 |
| `crypto_memory` | are handles and keys ever mixed up, and what is left behind? | two sessions, each in either mode, room for five handles, so that one session at its peak of four starves the other at any of its calls, and allocations that also fail by themselves |
| `host_signatures` | can a program be told something false of a signature? | client and server; transaction ids 1 and 257, which differ in the high byte only; one context per process, so that the second call after a leak fails; one TA instance for both; every TEE failure |
| `host_contexts` | what do refused sessions leave behind, and does every call return? | server and reseed compete for one instance; two contexts per process, so that a process leaks one and still works, then none is left |
| `ta_concurrent` | do sessions disturb each other, what turns the status on, and does every command come back? | three sessions (server, client, reseed), the commands of each, the mapped and one unmapped address, one transaction (no property counts them), storage that fails by itself; three sessions give every pair of conflicts with a bystander |
| `ta_refinement` | is the TA an atomic service for its only storage user? | one storage session with all its commands and one signing, two transactions, so that a signature can be presented in the wrong one; `StorageFaults`, so that every read and create may also fail (473,152 states) |
| `server_requests` | does every request but a broadcast get a whole reply, in order, and does the server end? | three requests of every kind the loop tells apart, as broadcasts too, sent without waiting, so that two wait while one is served; the port free or taken, the mapping allocated or not; a peer that may leave at any moment (615,601 states) |
| `server_copy_tid` | does "Copy TID" hold from id 255 on? | violated, see findings |
| `exchange_faults` | what can the client be made to believe, and do the programs end? | all four modes, object absent, off or on; timeouts, a server that does not get to listen, and at every call into the TA a refused session, a death, a failed read or a failed create (2,712 states). The programs make one write and one read, so there is nothing to bound |
| `exchange_nominal` | do the client's assertions hold? | modes 0, 2 and 3 without faults, over a stored off and on, with a fork that accepts a verdict of 0 (164 states; without faults none is given). The theorem has the other readings |
| `exchange_client_tamper` | and in mode 1? | violated, see findings |
| `exchange_tamper_message` | is "Tamper detected by the server" true when printed? | violated, see findings |

Deadlock checking is off for `ModbusExchange` and `ModbusServer`: their programs
end.

Fairness. `CoilTA!FairSpec` and `TACrypto!FairSpec` are weakly fair for the
steps of a session inside the TA: OP-TEE schedules every runnable instance and no
call of the TA waits for another session (a conflict or a lack of memory is an
error, not a wait); closing the session is the straight-line code of the host.
`HostSession!FairSpec` is weakly fair for the steps of a call, whose only long one
is the command, and for nothing a program decides. Nothing is fair about sending
commands or restarting. `ModbusServer!FairSpec` is weakly fair for the server
alone; its peer may fall silent at any time. `ModbusExchange!FairSpec` is weakly
fair for the client, for the server and for each TA call; timeouts are never
forced. Neither is a socket of -1: `ReceiveWithoutSocket` is outside the fair
steps, and a `deaf` server of `ModbusExchange` never moves, so no property of a
server rests on what libmodbus does there. In a start where the client comes first the server waits in `accept` for
ever; `ServerQuits` is therefore about a client that got in.

### What the runs show

- An image gets into the store only as the seed's or through a set whose value and
  transaction id were signed, whatever runs between its verification and its create.
- The status is on only if some program asked to sign an "on". Get replies and
  write orders are signed in one format, a failed read yields zeros, a set may
  race a reseed: none of these adds up to an "on" of its own.
- A session holds the object only between open or create and close, and while it
  does its image is what is stored, or the zeros a failed read left. Between the
  close of a set's read and its create it need not be: with two storage users a
  set can undo a seed or set of the other one. That is why `SignedCoil` is
  promised to a single storage user, which is the deployment (`run.sh` runs
  `reseed` to its end first).
- For that user every command is atomic: a panic, a restart or a conflict leaves
  the old or the new image, and an answer of 1 means that it is stored - unless a
  storage call failed. No result of one is looked at, so then a write may be
  answered 1 and not be stored, a write of an off, or of an address without a coil,
  may overwrite what the failed read should have kept, and a read may answer a
  signed off. What the failures cannot do is turn the status on or attest an on
  that is not stored.
- `ta_signAndVerify` leaks the digest operation and the key it does not use in
  every command; the leak ends with the session, which the host opens anew for
  each command. A command dies only for lack of memory.
- A call that fails in the TEE never looks like a verdict to the agent. A refused
  session costs its process one context for good.
- The server answers pipelined requests one by one, whole and in order, leaves out
  none but broadcasts, and ends when its peer is gone. With the port taken nothing
  is claimed: it ends only if `modbus_receive` fails on a socket of -1.
- A tampered write is never stored, not even after its timeout; a tampered
  answer is never accepted. A write the client saw succeed is stored unless its
  create failed in the storage; an accepted value was stored during the read, or is
  the off of a read that failed there.

### Findings

1. `exchange_client_tamper`: in mode 1 the client asserts `tab_rp_bits[0] == ON`
   (`client.c:169`) right after asserting that its write was refused
   (`client.c:149`). After a reseed the coil is off and the assertion fails. It
   fits the seed described in `ta_function.h:12-13` (1 1 1 1 0 0 0 0); the seeded
   byte is 0x00.
2. `exchange_tamper_message`: `client.c:144-145` reports every failure of the
   tampered write as a tamper detected by the server. After a response timeout
   the server may not have looked at the signature yet.
3. `server_copy_tid`: the reply sent byte by byte copies the low byte of the
   transaction id only ("Copy TID", `server.c:176-177`); from request 256 on it
   carries another id.

Observations that no run states, because no text of the repository promises the
contrary or a run would only repeat one branch:
- `reseed` prints "Done..." also when both its calls failed (`invCtrl.c:16-18`,
  `reseed.c:28-30`).
- A read of two registers at the special address 0x170 gets values, not the
  exception announced in `server-client.h:48`: the test for two registers comes
  first (`server.c:137-143`).
- `client.c` never sets `success` on its reachable path and always exits with -1.

## The proofs

`tlapm` checks these for every value of the constants, under the assumption named
in each module (`CoilTAAssumption` and so on: sets of numbers are sets of numbers,
`CommandsOf` and `Uses` are functions, sessions or programs are finite where they
are counted).

| Module | Theorem | Statement |
|---|---|---|
| `MCCoilBitsProofs` | `ImageKeepsCoils` | `Spec => []ImageIsCoils`, for any sequence of updates |
| `CoilTAProofs` | `TypeCorrect` | `Spec => []TypeOK` |
| | `OnlyAskedFor` | `Spec => []OnOnlyIfAsked`, with failing storage, conflicts and restarts |
| | `ObjectReleased` | `Spec => []ObjectIsReleased` |
| | `NoWriteUnderAnOpenHandle` | `Spec => []HeldImageIsCurrent`, failing storage included |
| | `WritesAreSigned` | `Spec => OnlySignedWrites`: what is written is a seed or was signed |
| `CoilTARefinementProofs` | `Implements` | `Spec => ServiceSpec` under `OneStorageUser`, with storage that fails or does not |
| `TACryptoProofs` | `TypeCorrect` | `Spec => []TypeOK` |
| | `NeverDangling` | `Spec => []NoDanglingHandle` |
| | `DeathMeansNoMemory` | `Spec => []DeadOnlyWithoutMemory` |
| | `LeakIsReclaimed` | `Spec => []LeakEndsWithItsSession` |
| | `PoolIsEnough` | four handles per session keep every command alive |
| `HostSessionProofs` | `TypeCorrect` | `Spec => []TypeOK` |
| | `LeaksAreFailedOpens` | `Spec => []OnlyFailedOpensLeak` |
| | `NoSessionIsKept` | `Spec => []SessionsComeBack` |
| | `RoomIsEnough` | with an instance per program no session is refused |
| | `VerifiedOnlyIfSigned` | `Spec => []VerifiedWasSigned`, for all 16-bit ids |
| | `TamperedOnlyIfForged` | `Spec => []TamperedWasForged` |
| `ModbusServerProofs` | `TypeCorrect` | `Spec => []TypeOK` |
| | `RepliesAreInOrder` | `Spec => []OneReplyInOrder`, for any number of requests, broadcasts among them |
| | `FramesAreWhole` | `Spec => []WholeFrames` |
| | `RepliesNameTheirs` | `Spec => []RepliesNameTheirRequest` if `FirstTid + MaxRequests <= 256` |
| | `Naming` | without that bound: every reply but the intended invalid one names its request, a value that may have gone out byte by byte at least the low byte of its id |
| `ModbusExchangeProofs` | `TamperedNeverStored` | `Spec => TamperedWriteIsNotStored`, whatever libmodbus makes of a verdict |
| | `AcknowledgedIsStored` | `Spec => []AcknowledgedWriteIsStored` if `AcceptedVerdicts = {1}`, with every fault |
| | `AcceptedIsCurrent` | `Spec => []AcceptedReadIsCurrent`, likewise |
| | `TamperedNeverAccepted` | `Spec => []TamperedReadIsRejected`, likewise |
| | `TypeCorrect` | `Spec => []TypeOK`, late frames included |
| | `NominalAssertionsHold` | `Spec => []AssertionsHold` without faults (TEE or storage) and timeouts over seeded coils, except for mode 1 over a stored off |
| | `TamperMessageWithoutTimeouts` | `Spec => []TamperMessageIsTrue` without timeouts (`Heard`), if no session is refused and no call dies, or the fork acknowledges the error code of the one and the 0 of the other |

The arguments.
- `CoilTA`. `TypeOK` is not inductive: a read yields an image only because the
  object held open exists; `TypeInv` adds `HeldObjectExists`. `OnOnlyIfAsked` needs
  `OnInv`: as long as no "on" was asked for (`AllOff`) the object, every session's
  image and every signature issued are off, and a set that got past `ta_verify`
  writes an off; because it presents an issued signature
  (`PresentsWhatWasIssued`) over its own bytes, and because the TA signs for a
  program only what that program asked for (`SignsWhatWasAsked`). `OffStaysOff`
  says that reading and writing offs at any address keeps the seeded image; it
  rests on `UpdatedImage` and `CoilValueOf` of `CoilBitsProofs`.
  `HeldImageIsCurrent` is inductive with `ObjectIsReleased` and `ZerosBeforeRead`:
  the object changes only in a create, which needs that nobody holds it.
  `OnlySignedWrites` needs to know at which call which command can be
  (`PlaceInv`) and carries a set from its verification to its create
  (`WriteInv`): the signature it presented is issued and over its own bytes, and
  the image it updated shows its value, whatever it read before.
- `MCCoilBits`. Two masks of the byte are different powers of two, so setting or
  clearing one changes the quotient by that mask by one and leaves the bit under
  every other (`AddedBit`, a matter of `div` and `%` over eight masks); bit
  number -1 has the mask 256, which is no bit of a byte (`NoBit`).
- The refinement. `SeqInv` adds to these that the seven other bits stay 0, that
  what was read is what is stored, or zeros if the read failed (`MayHaveRead`), and
  that what a set will create is one of these with its coil written (`ImageInv`; it
  is here that the one storage user is
  needed). Each action is then one lemma (`VerifyMaps`, `ReadMaps`, ...): it is the
  service's step or leaves phase and outcome of its session as they were
  (`Stutters`).
- `TACrypto`. `MemoryInv` says of each place in the function which of the four
  kinds the session holds, what its variables name, and whether an allocation has
  just failed. `PoolIsEnough` counts: a session about to allocate holds at most
  three of its four kinds.
- `HostSession`. `CountInv` accounts for contexts by the place of the program,
  `SessionInv` for instances by the set of programs in a session, `CallInv` binds
  what was told to the call; `VerifiedOnlyIfSigned` then needs that the three
  signed bytes determine value and id (`SignedDataInjective`). Its `TypeOK` needs
  `AnswerInv`: the `int` of every return is a verdict or one of two TEEC codes.
- `ModbusServer`. `Inv` numbers the requests: those received and those waiting are
  all that were sent, the one being served is the last received, and on an open
  connection every request received but the one in service has its frame or is a
  broadcast; the frames sent name growing numbers (`RepliesAreNumbered`).
  `NamesInv` adds that a request waiting or in service carries the id of its
  number, which its reply takes over or cuts to a byte.
- `ModbusExchange`. `Inv` follows a frame: what is on its way to the server is
  signed only if the client does not tamper; what is on its way to the client
  acknowledges a write only if "on" is stored or a create has failed, and is signed
  only if the server does not tamper and its value was stored since the read was
  sent, or is an off and a read has failed. The two sessions
  hand these facts on. The reading of verdicts is a hypothesis where it matters: if
  libmodbus took the 0 of a dead session or an error code for "verified", it would acknowledge
  writes that are not stored.
  For the types, `TypeInv` counts the requests under way: queued, in service or
  answered, they are at most those the client has sent, so two frames are the
  most a direction holds. A nominal run is determined: at most one request is
  under way and it is the one awaited (`TurnInv`), every session decides as its
  request deserves (`Decided`), and so every frame is what the mode lets expect
  (`ExpectedRequest`, `ExpectedReply`). None of the hypotheses of `Nominal` can
  go: an absent coil, a refused session, a dead call, a failed
  storage call or a late reply makes an assertion fail, and so
  does mode 1 over an off (finding 1). `RefusalInv` follows one verdict instead:
  that of a tampered write, through the exception to the client. A late reply
  breaks it (finding 2), and so does a refused session or a
  dead call whose error code or 0 libmodbus refuses: hence `Heard`.

Every invariant and every action property a passing run checks is also stated by a
theorem, and so is the refinement. These hypotheses go beyond the assumptions on the
constants:

| Hypothesis | Says | Used by | Why |
|---|---|---|---|
| `FirstTid + MaxRequests <= 256` | ids of one byte | `RepliesNameTheirs` | finding 3 refutes it without |
| `Nominal` | nothing fails or is late, coils seeded, no mode 1 over an off | `NominalAssertionsHold` | finding 1 refutes it without |
| `Heard` | nothing is late; no session is refused and no call dies, or the fork acknowledges what they leave | `TamperMessageWithoutTimeouts` | finding 2 refutes it without |
| `StrictVerdicts` | libmodbus takes only 1 for verified | `AcknowledgedIsStored`, `AcceptedIsCurrent`, `TamperedNeverAccepted` | the fork is not in the repository |
| `OneStorageUser` | one session uses the stored coils | `Implements` | with two a lost update is real; `run.sh` has one |

None of them but `Nominal` says anything about storage: failing reads and creates
are in every theorem about `CoilTA`, in the refinement and in the exchange.

Only model-checked: the liveness properties `CallsReturn` (of three modules),
`RequestsAnswered`, `ServerEnds`, `ServerQuits` and `ClientExits`, because the
prover does not do liveness under fairness.

## Not modelled

- `client.c` lines 174-702, `test_server` and `send_crafted_request`: line 173
  jumps over the first, and nothing else calls the others.
- The RTU and TCP_PI backends of `server.c` and with them filtered requests, bad
  checksums and serial slaves: `main` sets `use_backend` to TCP (`server.c:63`).
- Frame bytes, buffer sizes and the exact bytes a buffer holds after a dead
  command; a frame is its fields.
- RSA, SHA-256 and key material.
- Build and start scripts. The order `run.sh` starts the programs in is the initial
  state of `ModbusExchange`; that the client can still be first is a behaviour of
  it.
- Commands of two storage users at once as a service: a lost update is real there,
  so no atomic service is promised. `CoilTA` has several storage users, and its safety
  properties hold for them, but none of these says that an update is not lost.
- Broadcasts beyond their missing reply: no request of `client.c` that `main` reaches
  is one, so `ModbusExchange` has none.
