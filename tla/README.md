# tonutils-rs: a TLA+ verification project

tonutils-rs is a Rust library for the TON blockchain: an ADNL transport over
TCP, a LiteAPI client on top of it, a balancer over several clients, and the
data formats (TL, TL-B, cells, bags of cells, dictionaries, addresses, wallet
messages) that travel through them. This project models the parts that run —
transport, client, rate limiter, balancer, the life of a wallet's transfer — and
the formats: cells and bags of cells, dictionaries, TL-B types, TVM stacks, ABI
calls, addresses, account states. TLC checks them; what the parts that run
promise — every safety property and both refinements — is proved with TLAPS.

## Inventory

| Component | State | Operations | Hard behaviour |
|---|---|---|---|
| `liteclient/rate_limit.rs` | token bucket behind a mutex, shared by clones | `acquire`, `refill`, `wait_duration` | tasks that sleep for the same token, rounding, a wait used after the unlock |
| `liteclient/balancer/` | alive set, peer states, statistics, archival set, checker handle | `start_up`, `close_all`, every LiteAPI call, `send_message` | several locks, retries, dropped futures, repeated `start_up`, stale seqnos |
| `liteclient/client/query.rs`, `layers.rs`, `peer.rs` | pending `wait_masterchain_seqno` prefix, multiplexer, tags | `query_raw`, `send_request` | late and reordered answers, timeouts racing answers, a lost connection |
| `liteclient/server.rs` | one multiplexed service per connection | `serve` | answers in any order, end of the connection |
| `adnl/` | two keystreams per end, a read buffer, a half-read header | handshake, `encode`, `decode` | splitting of the stream, damage, truncation, handshake timeout |
| `tvm/cell`, `tvm/builder.rs`, `tvm/slice.rs`, `tvm/boc` | none (values) | build, hash, serialise, parse, inspect | limits of a cell, widths of indices, shared and exotic cells, damaged bags |
| `tvm/dict` | entries of a dictionary | insert, remove, write, read | labels, forks, augmentation |
| `tlb/`, `jetton/`, `nft/`, `metadata.rs` | none (values) | `store_tlb`, `load_tlb` | writer and reader are separate code; tags of different lengths; what does not fit a cell |
| `tvm/stack.rs`, `abi/` | none (values) | encode and decode calls and results | chains of nodes, nested optional values, maps |
| `tvm/address.rs` | none (values) | parse, print | checksum, alphabets, flags |
| `liteclient/boc.rs`, `contracts/provider.rs` | none (values) | decode and verify an account's state | an answer about another account, a proof and a state that differ |
| `wallet/`, `cli/` commands `wallet ...` | none of their own; the chain's seqno | read the seqno, build, sign, submit | the seqno is stale when used, runs overlap and are repeated, messages are lost or late |
| `tl/`, `network_config/`, `crc/`, rest of `cli/`, macros | none | declarations, parsing and printing | — |

How they interact: a `LiteBalancer` owns its `LiteClient`s and calls one at a
time (`&mut self`); a `LiteClient` acquires from its `RateLimiter`, then hands
the request to the multiplexing worker of tokio-tower, a task of its own that
owns the `LitePeer`; the `LitePeer` encodes messages onto an `AdnlPeer`, which
is a tokio-util `Framed` around the `AdnlCodec`. The worker outlives a query
that timed out or was dropped.

What makes each part correct: the limiter keeps its quota, never oversleeps and
never spins; the balancer's maps agree, its counters count, its loops try as
often as they should and return what they found; a query is executed at most
once and gets its own answer; a connection is a FIFO channel that says nothing
after an error; what is written is read back, what is read is what would be
written; an account that is returned as verified is the one asked for; a message
for a seqno that was read is executed only if nothing was executed since, and no
payment stays open. That a run which a user repeats does not pay again is *not* among
these: see "Seen while modelling".

## Modules

| Module | Models | Kind |
|---|---|---|
| `RateLimiter` | `rate_limit.rs` | component |
| `RateLimiterProofs` | — | theorems |
| `LiteBalancer` | `balancer.rs`, `balancer/*.rs` | component |
| `LiteBalancerProofs` | — | theorems about the peers |
| `LiteBalancerCallProofs` | — | theorems about calls, selection and eviction |
| `RemoteCall` | what a query promises | abstract specification |
| `LiteSession` | `query.rs`, `layers.rs`, `peer.rs`, `server.rs` | component, refines `RemoteCall` |
| `LiteSessionProofs` | — | theorems, refinement |
| `FifoChannel` | what a connection promises | abstract specification |
| `AdnlChannel` | `adnl/primitives`, `adnl/wrappers` | component, refines `FifoChannel` |
| `AdnlChannelProofs` | — | theorems, refinement |
| `Hashmap` | `tvm/dict/hashmap.rs`, `tvm/dict/labels.rs` | component |
| `HashmapProofs` | — | theorems |
| `TlbCodec` | `tlb/core.rs`, `tvm/builder.rs`, `tvm/slice.rs` | operators, recursive |
| `TlbMessages`, `TlbTransactions`, `TlbBlocks`, `TlbWallets` | the types of `tlb/`, `jetton/`, `nft/`, `wallet/`, and `metadata.rs` | operators |
| `TvmStack` | `tvm/stack.rs` | operators, recursive |
| `Abi` | `abi/model.rs`, `abi/codec.rs`, `abi/map.rs` | operators, recursive |
| `BagOfCells` | `tvm/cell`, `tvm/boc` | operators, recursive |
| `AddressText` | `tvm/address.rs` and its CRC-16 | operators |
| `AddressTextProofs` | — | theorems |
| `AccountReads` | `liteclient/boc.rs`, `contracts/provider.rs`, the CLI's account view | operators |
| `Serialization` | a value on its way through these formats | composition |
| `Wallet` | `wallet/`, `cli/` commands that send | component |
| `WalletProofs` | — | theorems |
| `MCRateLimiter`, `MCLiteBalancer`, `MCHashmap` | symmetry sets and bounds for TLC | instance |

**RateLimiter.** `tokens` and `last_refill_ns` are the fields of `TokenBucket`;
the clock is read under the lock, so a locked section of `acquire` is one step
(`AcquireGranted`, `AcquireMustWait`). `pc`, `wake` and `seen` describe the
tasks, `grants` the history. A task oversleeps as long as it likes and may be
dropped at either await.

**LiteBalancer.** One action per step between two awaits: choose a peer, wait
for the global limiter, dispatch, complete. The guards on equal scores follow
the code's hash sets: any of the best may be chosen. `call` is the running call
(kind, attempts made so far), `last` the one that returned, `leaked` counts
attempts dropped in flight, `link` is the transport under each client.
Statistics that no decision reads are left out; the module header lists them.

**LiteSession.** The client's `pc` follows the awaits of `query_raw`. The
worker's actions are external: they follow `tokio_tower::multiplex::Client` as
used through `LitePeer`'s `Sink`, `Stream` and `TagStore`. The random 256-bit
tag is taken to be unique.

**AdnlChannel.** A byte remembers its packet, its offset and the set of
keystream bytes XORed into it, so decrypting twice, or at the wrong position,
is visible. Hash collisions are excluded: a packet passes the check when all
its bytes read as written. A length read from bytes that do not is any length.
The server's selector may know the dialled key, another one, or return a wrong
one. `Framed` (external) is modelled with its three flags, including the poll
after an error that ends the stream and the polls a stubborn reader makes
afterwards.

**Hashmap.** The state is a dictionary as the caller sees it, a function from
keys to values, changed by `insert_bit_key`, `remove_bit_key` and the integer
keys of `Dict`, and replaced by what is read back when it is written to cells
(`Reload`). That function is the reference; the operators `build_edge`,
`parse_edge`, `canonical_label` and `load_label` are the code's recursion over a
tree of cells, written as recursive functions of the key bits that remain (or, for
`store_aug_node`, of the height of the tree), so that they can be proved about. A cell
is its bits and its references; the callbacks that store and load values and extras
move one bit. Sorted entries are a set of keys, split at a fork by their next bit.
`HashmapAug` trees are built from the same entries. A cell's limit of 1023 bits is not
reached and left to the model of cells.

**TlbCodec** and the modules of layouts. A TL-B type is a layout: a record built by
`Struct`, `Sum` (constructors with their tags), `Maybe`, `Either`, `Ref`,
`HashmapE`, integers, `VarUInteger`s, bit strings. `store` appends a value to a
builder, `load` takes it from a slice, tags tried in the code's order;
`to_cell` adds the limits of a cell and `from_cell` the check that nothing is
left over. Every type whose `store_tlb` and `load_tlb` are written by hand has two
layouts, one for what the one writes and one for what the other reads
(`Type(writes, reads)`, `Struct(written, read)`, `Tagged`), each translated from its
own function: `store` walks the first, `load` the second, and nothing makes them agree. Contents are real bits, but
a wide field keeps two of its bits and a byte of an amount one: the builder
counts the real width separately, so the limits of 1023 bits and 4 references
are those of the code. Where a type's reader and writer check a range, the
layout has it (`Ranged`, `Bits`).

**BagOfCells.** Levels, depths and hashes of ordinary and exotic cells, the
order in which a bag lists its cells, the header with its widths, the records, and
both readers: `deserialize_boc`, which builds cells, and `inspect_boc`, which hashes
records. A hash is the tuple of what is hashed, so equal hashes are equal
contents; the checksum is kept as the bytes it was computed over.

**TvmStack, Abi.** A stack is a sequence of entries; the chain of nodes with its
remaining length and the two's complement integers are those of the code. An ABI call is a
declaration and its values, either as the stack of a get-method or as the body of a
message with inline, referenced, optional and map-valued fields.

**AddressText.** Bytes are their bits. The friendly form is a sequence of base64
characters, each its six bits and the alphabet it is of, with a real CRC-16
(polynomial 0x1021); the raw form is its two parts. The code's reader accepts either
alphabet and any text whose bits fill whole bytes. The length of the hash is a constant.
A text as a user may type it has one character wrong or left out (`Mistyped`).

**AccountReads.** A `liteServer.accountState` is two bags, the proof and the
state. `from_raw` decodes what it can, `from_raw_verified` compares the proof with
the address and the state, `simple` and `active_state_init` read the result; the CLI's
view, which computes its summary with code of its own, is `account_summary` and
`best_effort_account_state_view`.

**Serialization** ties these together: a value is written (`ToCell`), the cell may
travel in a bag (`Serialize`, `Deserialize`), either may be changed on the way
(`DamageBag`, `FromDamagedCell`, `FromMistypedText`, `FromOtherAnswer`), and what
arrives is read. The value written is the reference for the value read.

**Wallet.** A run is `tonutils wallet send` or the library's calls in the same
order: `GetMasterchainInfo` (a block some server takes for the latest), `ReadSeqno`
at that block, `Build` with its limits, `Submit` once. `history` is the wallet's
state after every block that changed it, `pool` the messages that reached the
network and `log` those the contract executed; contract, servers and clock are
external. A library caller chooses `valid_until` itself and is modelled with the
CLI's computation; `wallet prepare-transfer` is a run with `--seqno` that
submits late.

## Runs

| Run | Bounds | Checks |
|---|---|---|
| `rate_limiter` | 2 tasks, burst 2, 10 ticks/s at 3 rps (cost 3.33: rounding matters), clock to 14 | `TypeOK`, `WindowBound`, `NoOversleep`, `WakeFindsToken` |
| `balancer` | 3 peers, 2 retries, one request per peer, 2 seqnos, `get_masterchain_info` and `send_message`, attempts of 0 and 2 ms under a timeout of 1 ms, one `start_up`, one drop | `TypeOK`, `InFlightAccounting`, `SendFanout`, `FreshnessFirst` |
| `balancer_restart` | 2 peers, every kind of call, two `start_up`s, one drop, fair | `PeerStatesAgree`, `RetryDiscipline`, `CallReturns` |
| `balancer_sync` | 4 peers, the fewest for which the sync filter can evict a known peer | `OnlyLaggardsEvicted` |
| `session` | 3 queries answered, refused, garbled or echoed, one prefix, one stray message, one connection loss, fair | `AnswerMatchesQuery`, `PrefixConserved`, `TagsAccountedFor`, `ImplementsRemoteCall`, `QueryReturns` |
| `adnl_channel` | header 2, nonce 1, hash 1, longest packet 3; payloads of 1 and 2 bytes, and 0 in the handshake's answer; two packets each way, one fault, fair | `KeystreamsInStep`, `ErrorsNeedFaults`, `EstablishedAgree`, `ImplementsFifoChannel`, `PacketArrives` |
| `hashmap` | keys of 0 to 5 bits; up to 4 entries for widths up to 2, 3 for width 3, 2 for widths 4 and 5 | `TypeOK`, `RoundTrip`, `ShortestLabels`, `AugRoundTrip` |
| `serialization` | 50 TL-B types, stacks, ABI calls, wallet ids, addresses, account states; the least and the greatest value of each and these changed in one place | `RoundTrip`, `Canonical`, `RefusedForAReason`, `BagRoundTrip`, `TypoIsHarmless`, `VerifiedIsAsked`, `ViewsAgree` |
| `wallet` | two runs, with or without `--seqno` (0 or 1) and deployment, timeout 2 on a clock of 0 to 4, fair | `TypeOK`, `NothingCameBetween`, `ValidForTimeout`, `RunsSettle` |

Why the bounds are enough. The limiter: three grants use up the burst and need
refills with both roundings. The balancer: three peers give an alive, a
suspect and a dead one, and `send_message` a peer it has not asked; one slot per
peer makes the "all busy" path of the selection happen after one drop; 2 ms are the two
timeouts from which on a fresh peer may be passed over, and averages lie below it. The
session: one query can be abandoned, one can be current and one can come
after. The channel: header and body are longer than one byte together, so every
call of `decode` can stop before, in and after a header and in a body; the
largest payload is refused by `encode` and the next smaller one is not. The
dictionary: width 2 has every map, width 3 every tree of up to three leaves,
and from width 3 on each of the three label forms is the shortest for some label;
`ShortestLabels` compares with every shorter bit string. Width 4 is the first where a
fork's label has a length field whose width changes with one bit more or less.
Serialization: `MaxCellBits` and `MaxCellRefs` are the code's; every constructor of
every type occurs, alone in an otherwise least and otherwise greatest value. Writer and
reader are modelled apart, so a tag, an order or a width in which the code's two
functions differ shows at these values; one that the translation of both got wrong
in the same way does not. What a caller keeps as raw cells (`Kept`) is any of the
constructors there are, or none, and lists are as long as their limit and one more.
Amounts of 8 bytes (`AmountBytes`) are what a u64 needs; one at a time takes its full
length. `IndexBase` 4 in place of 256 makes bags with one- and two-byte indices
and offsets from a handful of cells. `HashBytes`, `AddressHashBytes` and the
narrowed fields shorten what is only copied. Stacks are longer than a node's three
entries. `MaxOutListActions` 2 in place of 255 is exceeded. Damage is one place at a
time: a byte of a bag, a bit or a reference of a cell at any depth, a
character of an address. The wallet: two runs suffice for one to come between
another's reading and its message, the clock comes to the end of its range while a run builds, and
`MaxActions` 1 is exceeded by the library's runs.

Three runs are expected to fail. Each checks what the repository says of the
code, and TLC shows a behaviour of the code that contradicts it:

| Run | The repository says | The code |
|---|---|---|
| `UnaskedPeersStay` | `execute.rs:53` "Don't delete peers on startup - they haven't made any requests yet" | the first `get_masterchain_info` that answers evicts every peer without statistics |
| `TransportErrorsAreRetried` | `dev-docs/liteclient/balancer.md` "Retry on: connection reset, ... end of stream" | a lost connection arrives as `UnknownError`, which is not retried |
| `NoCheckerAfterClose` | `docs/balancer.md` "`close_all` aborts the health-check task" | after `start_up` twice the first task's handle is gone and the task goes on |

Seen while modelling, without a run of their own: `docs/balancer.md` says
failed peers are marked dead, but the first failure makes a peer `Suspect` and
keeps it alive; `balanced_call!` does not exclude the peer that just failed,
so a retry may ask it again; the health checker only sleeps, nothing but a new
`start_up` revives a dead peer (the documentation lists this as incomplete); a second `start_up` keeps
`failure_count`, so one failure then takes a healthy peer to dead; no call asks
for archival peers; `current_requests` of a dropped call is never taken off;
`close_all` does not close the clients; a stream that ends right after a header
is reported as a clean end; the texts of `TooShortPacket` ("32 bytes min") and
`TooLongPacket` ("4 MiB max") differ from the limits 64 and 2^24; a bucket that
was full keeps the fraction of a token, the `CeilCost` in `WindowBound`;
`Dict::get_int_key` finds nothing in a dictionary that was read from a cell, or
under a key set through its bits, where `Dict::get` does; `HashmapAug::from_entries`
lists forks in pre-order and a parsed dictionary in post-order, so the two are
not equal as `fork_extras` though their trees are.

Of the formats:

- `Address` equality includes the flags, so `validate_account_address`
  (`liteclient/boc.rs`) refuses the right account, as "wrong account hash", when it was
  asked for by a non-bounceable or test-only address, and the CLI's view then loses
  `last_transaction_hash` without a word. `CanBeRead` states this.
  TL-B addresses drop the flags, `RoundTrip` expects an address without them. An address with a workchain below -1 is printed and
  cannot be parsed.
- An anycast prefix of a shard account's address is not compared: `VerifiedIsAsked`
  says that workchain, hash and flags are those asked for, and the run has answers with
  an anycast prefix that are accepted. And
  `get_account_state_typed` compares no address. A proof of several roots is
  refused by `from_raw_verified`, a list of several transactions by the readers of one root.
- `ValueFlow`, `ShardState` and `ShardStateUnsplit` write the cell they keep as it is;
  only their readers look at its tag (`block.rs:272-295`, `319-378`). A value built from
  a cell without one is written without complaint, then refused or read as another one:
  `Mislabelled` names these values, and `RoundTrip` demands that they are not read as
  themselves. `WalletV5R1ExtendedActionList` refuses more than 255 actions in `new` and
  when it is read, but writes any number of them (its field is public), and
  the reader then refuses what was written.
- `wallet send` keeps no record of what it submitted, and a submission that is
  reported as failed may have reached the network. A user who repeats the run after
  the first message was executed pays twice, since the second run reads the new seqno;
  with the same `--seqno` the contract refuses the second message.
- `run_get_method` is called with mode 0, which asks for no stack; a server that
  follows it leaves the seqno out, and the run fails (or, deploying, takes 0).
  `seqno_from_stack` does not look at the exit code, `run_v5r1_get_method` does.
- `Builder::store_address` stores the byte `0b10` as two bits, that is 00, where its
  comment says `addr_std$10`; dictionary keys and values of addresses go through it.
- `Builder::store_var_int` refuses positive values that fill their highest byte.
- `ConfigParams::config_entries` reads `Hashmap 32 ^Cell`, as it documents its type, as a
  `HashmapE`.
- Leaves of a `HashmapE` and entries of a stack may be followed by data, which is
  dropped. `store_cell` of a TL-B value loses the exotic flag.
- `Optional(Some(None))` of an ABI value is `None` after a stack; entries of an
  ABI map come back in the order of their key bits.
- The snake readers accept cells before the last that are not full. A
  `WalletMessage`'s body is always inline, so a long comment is refused.

## Fairness

`LiteBalancer`: weak fairness of the steps of a running call. The runtime polls
the task, the limiter serves only this balancer, and `execute_request` sets a
timeout on every client. `LiteSession`: weak fairness of the client's own
steps, of its timers and of the worker's send; nothing is assumed of the server
or of the network. `AdnlChannel`: each role (reading, decoding, polling after an
error) of both ends is weakly fair, since both ends keep polling, and TCP delivers.
`Wallet`: the steps of a run, because every query returns (`QueryReturns` of
`LiteSession`), and the clock; neither delivery nor execution of a message is
assumed. Starting a call, failing, dropping and closing are never fair.
`Serialization` states no liveness.

## Proofs

`RateLimiterProofs` proves `TypeOK`, `WindowBound`, `NoOversleep` and
`WakeFindsToken` for every number of ticks per second, rate, burst and set of
tasks, from `LimitAssumption` (all positive, burst fits `u32`: what `with_burst`
accepts). The inductive invariant adds to the four properties

- `Quota`: for every past grant, the tokens now in the bucket and the grants
  since are paid for by the burst and by the time up to `last_refill_ns`,
  at the rounded-down cost. `WindowBound` alone is not inductive: it does not say
  what may still be granted;
- `Sleepers`: the deadline of a sleeper is one rounded-up cost after the
  `last_refill_ns` it saw, as long as nobody was granted a token since.

The arithmetic (`DivMod`, `DivLower`, `DivUpper`, `RefillStep`, `FirstToken`,
`WaitIsExact`) is in lemmas, since the rounding of division is where the
argument lies.

`LiteBalancerProofs` proves `TypeOK`, `InFlightAccounting` and `PeerStatesAgree`
for every set of peers and every limit, from `BalancerAssumption`. The
inductive invariant adds `UnknownIsIdle`: a peer without an entry in the
statistics has nothing in flight, since `decrement_current_requests` skips it.

`LiteBalancerCallProofs` builds on it, with two further invariants.

- `CInv`, for `RetryDiscipline` and `SendFanout`: a call that holds a peer has an
  attempt left for it; `send_message` has asked as many different peers as it made
  attempts, and the peer it holds is not one of them; a result is looked at only
  while no call runs. The last point is what keeps "nobody is left to ask" true: the
  alive set does not change between the end of a call and the next one.
- `ChosenNow`, for `FreshnessFirst`: while a call waits at the limiter nothing changes
  that its choice depended on. The rest is arithmetic (`BlocksOutweigh`): the penalty of
  two timeouts per block outweighs a latency below it. The property compares with the
  latency of the fresh peer, because nothing bounds it: a client with a rate limit of its
  own (`with_rate_limit_per_peer`) waits for it after the balancer's stopwatch started and
  outside the timeouts, and an attempt may make two queries with two timeouts each
  (`get_account_state_typed`). A peer that is that slow loses against a stale one.

`OnlyLaggardsEvicted` rests on `ConsensusExists`: the value at index 2n/3 of the sorted
seqnos, as `find_consensus_block` is modelled, exists for every nonempty finite set
of peers. `NatMin`, `Lowest` and `Highest` replace the induction over finite sets,
by the well-foundedness of the naturals: the highest peer is the one with the fewest
above it.

`LiteSessionProofs` proves `TypeOK`, `AnswerMatchesQuery`, `PrefixConserved`,
`TagsAccountedFor` and the refinement of `RemoteCall`, for any number of queries and
prefixes, from `SessionAssumption`. The inductive invariant follows a tag through its
places — handed over, sent, at the service, answered — and says that it is at each of
them once and only moves on (`TagsMoveOn`), that a prefix is handed on with one query
only (`PrefixMoves`), and that the result of a query that has ended is its own
(`ResultsTell`). The refinement maps a query's result to an outcome; its proof showed
that the arms of that mapping overlapped, and `Outcome` now tells them apart.

`AdnlChannelProofs` proves `TypeOK`, `KeystreamsInStep`, `EstablishedAgree`,
`ErrorsNeedFaults` and the refinement of `FifoChannel`, for any sizes of header,
nonce, hash and payloads and any number of packets and faults, from
`ChannelAssumption`. `KeystreamsInStep` is not inductive: what a reader will do with
the bytes before it depends on where they come from. The invariant says it of each
direction (`Stream`): the bytes not yet decoded are those of the packets sent, each in
one piece and in order, beginning with the packet to deliver next; they end with the
last byte sent unless the connection is down; without faults every packet is whole;
and after an error the keystream is past every byte, so nothing that arrives can be
decrypted again. `KeysAgree` covers the handshake. The proof needs at least one packet
(`MaxPackets`), the empty one the server answers the handshake with.

`WalletProofs` proves `TypeOK`, `NothingCameBetween`, `ValidForTimeout` and that no
message is executed twice, for any number of runs, from `WalletAssumption`. The inductive invariant says that the contract's seqno is the number
of messages it executed and never falls (`ChainCounts`), that it executed them in the
order of their seqnos (`LogInOrder`), where a run has its seqno from (`RunsSettled`), and
that a message in the network is that of a run whose fields no longer change
(`MessagesOfRuns`).

`HashmapProofs` proves `TypeOK`, `RoundTrip`, `ShortestLabels` and `AugRoundTrip` for
every key width and every bound on the entries, from `HashmapAssumption` alone (both are
natural numbers). The argument has four layers.

- *Recursion.* A recursive function is, to the provers, some solution of its equation.
  `ShiftExists`, `ValueExists`, `TreeExists`, `EdgeExists` and the others show that there
  is one, bit by bit, from the fact that the right-hand side only looks at smaller
  arguments (`EdgeCongruent`, ...); `EdgeRec`, ... then give the equation itself. The
  induction is `Induction`, the least counterexample in a set of naturals: the claim to
  prove becomes the set of the numbers it holds for.
- *Labels.* `PushLoad`: a number written in `label_len_width(max)` bits is read back, for
  every number up to `max`. `LoadShort`, `LoadLong`, `LoadSame`: each form of a label is
  read as itself whatever follows it, so `CanonicalRead` holds for the form chosen.
  `LoadBound`: what is read as a label is at least as long as one of the forms of that
  label, so `CanonicalShortest`.
- *Trees.* `CommonPrefix`, `BranchFacts`, `LeafKey` and `ForkKeys` say how keys split: both
  sides of a fork are nonempty, disjoint and agree on one more bit. `EdgeReadBack` is the
  induction over the key bits that remain. For augmented trees, `TotalBits` shows that the
  width `store_aug_node` recomputes along the left sides is the one the node was built
  with; `AugTreeReadBack` is the induction.
- *States.* The inductive invariant `HashmapInv` adds to `TypeOK` that a `HashmapE` has no
  index of integer keys: `TypeOK` alone allows a removal to leave a key in it. `RoundTrip` is
  used in the proof: `Reload` preserves the invariant because what is read is what was there.

`AddressTextProofs` proves two theorems about `from_str` after `to_string`, for every
address (also of a workchain texts do not have), both alphabets, all flags and any
length of the hash that `AddressAssumption` allows: the bytes of a text, four more than
the hash's, are a multiple of three, as 36 is, so that there is no padding.

- `FriendlyRoundTrip`: a text is read as the address and the flags it was written with,
  or refused if its workchain is below -1.
- `TypoIsHarmlessAlways`, of which `TypoIsHarmless` checks an instance: with one
  character wrong or left out it is never read as anything else.

The heart of the second is `Burst`: two texts with valid checksums that differ within
the bits of one character at most are equal. The six bits lie in one byte, or in the
second half of one and the first half of the next (`SextetBytes`). A step of the
checksum is injective (`ShiftInjective`), so a difference in one byte never goes away
(`OneByte`, from `SameBefore` and `SameAfter`). In two bytes it could be undone by the
second one, but only if the first left it in the upper half of the checksum;
`LowerByte` follows the bits through eight shifts and shows that a difference in the
second half of a byte always reaches the lower half. The same lemma covers the
characters that hold the end of the data and the beginning of the checksum.

Fairness and ENABLED are outside the provers, and so are recursive operators. Model-checked
only, therefore: the liveness properties (`CallReturns`, `QueryReturns` and the others); and
`Serialization` with the formats under it, whose values are trees of any shape (of its
properties only what `AddressTextProofs` says of addresses is proved).

## Not modelled, and the plan

Not modelled: cryptographic arithmetic and the key derivation of mnemonics; the
TL types, which are declarations expanded by derive macros; the macros
themselves; `abi/json.rs` and network configuration, which parse JSON into the
types modelled here; the CLI's arguments and printing; CRC-32C, which is an
equation between bytes here; the conversions of `contracts/stack.rs` and of the
Jetton and NFT get-methods, one accessor per field; `MerkleProof` and
`MerkleUpdate` as TL-B values (their cells are in `BagOfCells`). Snake data and metadata
are modelled in units of a byte: their refusal of bits that are no multiple of 8 is not.

Left for later: the other formats under `Serialization` as recursive functions, the way `Hashmap`
is written, to prove their round trips as well; and the composition of a session with
the connection under it.
