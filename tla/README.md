# A verification of bangumi-proxy

bangumi-proxy is a local HTTP proxy. It carries requests for a few target sites
to Cloudflare over TLS with Encrypted Client Hello (ECH), decrypting HTTPS
tunnels to them with a certificate authority of its own, and tunnels everything
else. This directory holds TLA+ modules that model it, TLC configurations that
check them on small instances, and proofs that TLAPS checks for every instance.

Paths are those of the repository: `src/ech.rs` is the Rust file. (In
`PROJECT.json` they carry one more `src/`, the directory the repository is
mounted in.)

## The system

| Part | State | Operations | Where | Modelled by |
|---|---|---|---|---|
| `EchCache` | three mutexes: the ECH config, host -> target addresses, the DoH servers' addresses; the hosts file | `get_ech`, `get_target_ips`, `cloudflare_doh_ips`, `resolve_via_ech_multi`, `invalidate`, `invalidate_ips` | `ech.rs` | `EchCache`, `EchRecovery` |
| `open_backend` | none of its own | strict ECH connect for targets, direct TLS for others | `backend.rs` | `EchCache`; promise: `StrictEch` |
| The network it talks to | ECH key of the edge, who answers | bootstrap DNS, GREASE, DoH query, ECH connect | `ech.rs`, `dns.rs`, `ech_helper.c` | `Edge` |
| Connection thread | request line, headers, body, a `BufReader` over the client socket | `handle_client` and the CONNECT, MITM, tunnel and HTTP handlers | `proxy.rs:11-206` | `Connection` |
| Tunnel relay | one buffer | `relay_plain` | `proxy.rs:238-259` | `Relay` |
| TLS relay | one buffer, two TLS sessions | `relay_tls` | `proxy.rs:261-290` | `TlsRelay` |
| Local CA | `ca.pem`, `ca-key.pem`, the key in memory | `load_or_generate` | `ca.rs:25-52` | `CaStore` |
| CA trust | certificate directory and trust store of the system | `trust_ca` (Linux branch) | `ca.rs:137-248` | `CaStore`, `Startup` |
| Leaf certificates | none | `server_config` | `ca.rs:54-74` | no |
| DNS answers, choice of server | position in a packet | `resolve_multi_no_fallback`, `resolve_plain_dns`, `skip_name`, `parse_a_records` | `dns.rs`, `ech.rs:139-163` | `Dns` |
| Targets, Cloudflare ranges | constants | `is_target`, `is_cloudflare_ip` | `targets.rs` | `Targets`, `Cidr` |
| Hosts file | a constant table | `parse_hosts` | `hosts.rs` | as a constant of `EchCache` |
| Browser discovery and launch | profile directories, `user.js`, the browsers that run | probes and a spawned process | `browser.rs` | `Startup` (Linux) |
| Start-up | the listening port | CA, trust, hosts, bind, browser, accept loop | `main.rs` | `Startup` (Linux) |

How they interact. `main` loads the CA, asks `trust_ca`, creates one `EchCache`
and starts a thread for each connection (`main.rs:107-112`). A thread reads a
request, calls `open_backend`, and relays until either side ends. Threads share
the `EchCache` and nothing else that changes; processes started in one directory
share the CA's files, and all proxies of one user share the browser profile.

What is hard to test:

- The caches. Every mutex is held for a single statement. Between a probe and a
  store lie network calls of many seconds, in which another thread may store,
  use or invalidate the same entry; a failure invalidates whatever is cached
  *now*, not what was used.
- Recovery. Keys rotate, addresses move. What a cache keeps of an earlier
  network must not break a later one for ever.
- The relays. Sockets are non-blocking and errors of `write_all` are ignored;
  under TLS, a write that blocked has left a record in the session all the same.
- DNS packets: lengths and pointers that a packet gives, in a packet that may be
  cut anywhere.
- The switch in a connection from a `BufReader` to the bare socket, clients that
  leave at any point of it, heads that break off at a byte that is not UTF-8, and
  writes to the backend whose errors are ignored.
- The CA's two files: written one after the other, by any process that finds one
  of them missing, each of which may be killed or find that a write fails.
- Browsers outlive the proxy that launched them and keep the flags it gave them.

What makes each part correct: the cache never serves an entry that cannot be
used and a target is reached by the strict ECH path only; a settled network
makes the proxy work again; the relay keeps bytes in order and ends when it
should; the connection forwards what the client sent; the CA the proxy signs
with is the one on disk, and stays it, and is the one the browsers were told to
trust; a bootstrap lookup ends, with addresses of Cloudflare.

`PROJECT.json` lists every hazard at its line, with the properties about it.

## The modules

**`Edge`** is the network. While not `calm`, every call may end in every way its
caller can observe and the edge may rotate its ECH key (`RotateKey`). `Settle`
makes it calm for good: each address then behaves in one way, fixed by the
constants (`DohServers`, `Zone`, `Serving`, `BlackHoles`, `Silent`).
`BootstrapAnswers` stands for `resolve_multi_no_fallback`, `GreaseSucceeds` and
its siblings for `grease_ech`, `QueryAnswers` for the closure `doh_query`,
`ConnectOutcomes` for `connect_ech`.

**`EchCache`** is `EchCache` and `open_backend`. A worker is a connection thread.
`pc` names where it is; each statement that takes a lock is one action, each
network call is another:

| Code | Actions |
|---|---|
| `open_backend` | `OpenBackend`, `ConnectDirect`, `Connect`, `ConnectExhausted`, `NoEch` |
| `get_target_ips` | `LookupIps`, `Retain`, `IpsStore` |
| `get_ech` | `GetEch`, `GreaseOk`, `GreaseFail`, `GreaseHang`, `GreaseExhausted`, `ConfigStore` |
| `cloudflare_doh_ips` | `CfLookup`, `Bootstrap`, `CfStore` |
| `resolve_via_ech_multi` | `QueryOk`, `QueryFail`, `QueryExhausted` |
| `invalidate`, `invalidate_ips` | `DropConfig` (also in `NoEch`, `QueryExhausted`), `DropIps` |

`get_ech` and `cloudflare_doh_ips` have two callers each. The worker's locals
tell which: `addrs = None` says `get_ech` was called while resolving, `ecl = None`
that the DoH addresses are for GREASE. Vectors of addresses are sets, tried in
any order; `issued` and `answered` are history (the keys handed out, the answers
of DoH) that only properties read.

**`StrictEch`** is the promise of `open_backend` to its callers: a stream to a
target goes to a Cloudflare address that DoH over ECH gave for this very host,
with a key the edge handed out; other hosts are connected directly. It knows
no cache and no loop. `EchCache` implements it (`ImplementsStrictEch`): busy
stages map to "opening", the other variables to themselves. `RequestAdvances` is
the other half of what a caller relies on: a request never goes round.

**`EchRecovery`** adds to `EchCache` a count of the requests that were made after
the network settled and failed all the same. `RIInv` says why they are few.

**`Relay`** is `relay_plain`. A byte is its position in its stream. `ReadBytes`,
`ReadEof`, `ReadNothing` and `ReadError` are the four arms of a `read`; a
`write_all` is a run of `WriteByte` that ends in `WriteDone`, `WriteWouldBlock`
or `WriteError`. The peers send, close, reset and take bytes as they like.

**`Connection`** is `handle_client` for one connection. The client's stream is cut
into units (the lines of the head, the last of them blank, and pieces of body or
tunnel), and a unit is its position in the stream. `fetched` counts the units off
the socket and `used` those the code has seen; the difference is in the
`BufReader`. `request` is what the code has gathered of head and body:
`ReadHeaders` ends the head at the blank line, at a line that is not UTF-8
(`script.bad`), or where the stream ends, and whatever follows is what `ReadBody`
takes for the body. `WriteRequest` writes one unit at a time, and one that fails
is `lost` without the code noticing. `open_backend` is what `StrictEch` promises:
a stream over the right route or an error. The relay carries whole units, or
loses them: when it does is the matter of `Relay` and `TlsRelay`.

| Code | Actions |
|---|---|
| `handle_client` | `Fill`, `ReadLine`, `ReadHeaders` (it also chooses the handler) |
| `handle_http_request` | `ReadBody`, `HttpOpen`, `WriteRequest`, `RequestWritten`; `OpenFails` |
| `handle_mitm`, `handle_tunnel` | `MitmOpen`, `Accept`, `TunnelOpen`; `OpenFails` |
| the relays | `RelayUp`, `RelayDown`, `RelayEnds`, `BackendCloses` |

**`TlsRelay`** extends `Relay` to `relay_tls`. "remote" is the backend, an OpenSSL
session; the client is the browser's rustls session or, for plain HTTP, its
socket. The loop is the same; what differs is what a library does with a write
that cannot go out. OpenSSL keeps the record, reports `WouldBlock`, and takes
the next write for a repetition of this one: `SslWriteAgain` if it is as long or
longer, `SslWriteShort`, which breaks the session, otherwise. rustls takes the
chunk, keeps the output, and refuses the next chunk until that is out
(`WriteRefused`); until then, and while its handshake is unfinished, it reads
nothing from the browser either (`ReadClientBlocked`). A record reaches the peer
whole or not at all.

**`Cidr`** is the range test on 32-bit words: a word is a function from bits to
BOOLEAN and the shift has the width of the code. **`Targets`** is the two tables
of `targets.rs` on top of it, a host name being the sequence of its labels;
`EchCache` and `Connection` take the hosts that are targets as a constant, which
`MCConnection` computes with `is_target`.

**`Dns`** is the bootstrap lookup that `Edge` gives to `EchCache` as an outcome
(`BootstrapAnswers`): `cloudflare_doh_ips` over `resolve_multi_no_fallback`. A
server is a record of its kind (a URL, an address, a string with a port,
a name) and what it will answer. `Receive`, `SkipName`, `NextAnswer` and
`Record` go through a packet byte by byte; `touched` is history, the last byte
the code indexes. The text of a DoH answer is a sequence of the tokens that
`parse_a_records` tells apart; vectors of addresses are sets. What a packet says
is defined beside the parser, as a grammar (`LaidOut`): a server carries where
the parts of the names in its packet begin, which the lookup does not use, and
`FirstAddress` is the address of the first complete address record so laid out.
`MCDns` builds the packets, whole or cut, and says a third time, from the records
and not from the bytes, what each server answers; that this is what the grammar
reads is an `ASSUME` that TLC evaluates for every server of the instance.

**`CaStore`** is `load_or_generate` and `trust_ca` in the order of `main`. A key
pair is a number and its certificate the same number (`self_signed` derives the
one from the other). `fs::write` is a truncation and a fill. `Kill` may hit a
process anywhere before it serves; `End` is its normal exit. Every operation on
the two files may fail, whose `unwrap` panics (`FailsUnwrap`), a write that fails
leaving what was there or an empty file; so may the reads of `trust_ca`, its copy
of the certificate, halfway too, and the rebuild of the trust store, whose status
the code discards (`Update`). `installed` is the copy, `bundle` the certificate in
the trust store. `faults` counts kills and failures.

**`Startup`** extends `CaStore` to the whole of `main`, as compiled on Linux:

| Code | Actions |
|---|---|
| `load_or_generate`, `trust_ca` | `CaStep`, the actions of `CaStore` |
| `--trust-ca` | `TrustOnly` |
| `TcpListener::bind` | `Bind`, `BindFails` |
| choice of browser | `Request`, `Exe`, `find_browser`, `auto_detect_browser`; `SkipBrowser`, `NoBrowserFound` |
| `launch_browser` | `LaunchChromium`; `WriteUserJs` then `LaunchFirefox` |
| profile directory | `SnapName`, `Profile` (also where `HOME` is not set) |

The browsers are external: a Chromium started on a profile in use hands its
window to the one that runs there, with that one's flags; a Firefox started on
a profile in use opens nothing. Browsers outlive proxies and are closed by the
user (`CloseBrowser`). `overlap` is history: it says whether a proxy was started
beside another one before the directory had a complete CA. Every step of
`Startup` is one of `CaStore` or leaves the CA alone, which is proved.

`MCEchCache`, `MCEchRecovery`, `MCConnection`, `MCDns` and `MCStartup` hold the
constants of TLC's instances; the modules named `...Proofs` the proofs.
Definitions marked *Mutant* are wrong versions of the definition that follows.
They are not part of the specifications: `PROJECT.json` pairs each property with
one that violates it.

## What is checked

| Run | Instance | Shows |
|---|---|---|
| `EchCacheSafety` | 2 workers, 2 targets, 1 other host, 3 addresses (one not Cloudflare's), 2 keys | `CachedIpsUsable`: a cached list is never empty and holds only Cloudflare addresses DoH gave for that host. `ImplementsStrictEch`. `RequestAdvances`: no step takes a request back to an earlier stage unless it has gained the addresses or the config it lacked. `IInv`, the invariant of the proofs, of which the types are a part |
| `EchRecoveryOne` | 1 worker, a reachable and a broken target | `RIInv`, the invariant of the proofs, says among other things that at most one late request for the reachable target fails. `Recovery`: it is served for ever after. `GreaseFindsServer` |
| `EchRecoveryTwo` | 2 workers, 1 target | `FewFailures` (at most two), `Recovery`, `RequestsEnd` |
| `Relay` | 3 bytes each way, buffer of 2, send buffer of 1 | `InOrder`, `LossHasCause`, `EndsAtEndOfStream`, `EofEndsTunnel`, `NoHeadOfLineBlocking`; `IInv`, the invariant of the proofs |
| `TlsRelay` | 5 bytes in both directions together, buffer and send buffer of 2 | `InOrder`, and `TLossHasCause`: what was read is passed, held by a session, or lost for a cause. `HeldComesNext`: a held record is newer than all that was sent. `TEndsAtEndOfStream`, `BackendEndsRelay`, `BackendIsRead`, `BrowserIsServed`; `TIInv`, the invariant of the proofs |
| `Dns` | every packet of 0 to 2 records of 4 kinds, cut at every byte or with a wrong count; every list of up to 3 servers of 9 kinds; both ends of every Cloudflare range and their neighbours | `InBounds`: no byte outside the packet is read. `FirstServerWins`: the lookup returns what the first server with an answer says. `BootstrapUsable`: EchCache is given those found that are Cloudflare's, by a test without masks, or the four built-in ones, here by name. `LookupAdvances`: no length or pointer leads the parser back. `LookupEnds`; `LookupInv`, the invariant of the proofs, of which the types are a part |
| `Startup` | 2 proxies, 2 keys, 1 fault, 2 ports, 5 command lines | `SettledForGood`: a settled CA is never replaced. Unless two first starts overlap: `ProxySignsForCert`, `ProxyTrustedIsInstalled`, `ProxyPanicsOnlyAfterFault`, and `StrictBrowserAccepts`: for a Chromium launched without `--ignore-certificate-errors`, the CA of every proxy that listens on its port is the installed one, and in the trust store as long as nothing failed and no rebuild is under way. `SIInv`, the invariant of the proofs, of which the types are a part, and `WindowInv`: what a window is shown with |
| `Connection` | tunnels of 3 units, two HTTP requests with bodies, a request line of one word, 4 heads with a line that is not UTF-8; to a target and to another host; every write may fail | `ForwardsPrefix`: nothing is repeated or reordered, whatever happens; of a head of UTF-8, with no write failed, the backend was sent a prefix of what the client sent. `NothingStuck`, `CloseEndsThread`; `IInv`, the invariant of the proofs |

Why the bounds are enough. Two workers give every race there is between a store
and an invalidation; two keys give a stale one; one address outside Cloudflare
makes both `retain` filters bite, alone and mixed. The relay's buffer is smaller
than the stream and the send buffer smaller than the buffer, so partial reads,
partial writes and full buffers all occur, more than once. In `TlsRelay` five
bytes are two full buffers and one byte, which is what it takes to hold a
record, repeat it and then write a shorter one. Of the packets, two records let
one be skipped before the one that counts, by its name in full or by a pointer;
76 is the length of the longest. The five command lines take every way through
`main`; two proxies are enough for a port to be taken, a CA to be used by one
while another is killed, and a window to be handed over. One kill or failed write
tears the pair of files once; the proofs are for any number of them. The heads
with a line that is not UTF-8 break off at the request line, before the
`Content-Length` and after it, where the blank line is then taken for body. What
no bound can show is proved, see below.

`FewFailures` depends on the number of requests at a time. With one it is one,
which is proved (`AtMostOneFails`); two at a time can make two fail (a stale
config stored after the first invalidation), three can make four fail. No bound
is claimed for more than two; `Recovery` says that failures end.

Deadlock is not checked: a process that has used up its bounded keys, a
connection that is over and a peer with nothing more to send all stop.

### Fairness

- `EchCache`, `EchRecovery`: weak fairness of each worker's step. Threads are
  scheduled, and network calls end: `connect_ech` sets its timeouts. The call
  that has none is the GREASE handshake; it may hang only at an address in
  `Silent`, and the recovery runs have none. Nothing makes a user ask, a key
  rotate or the network settle: `Recovery` says "if the network is calm and the
  host is asked for again and again".
- `Relay`, `TlsRelay`: weak fairness of the loop, none of the peers. Neither loop
  ever blocks: every socket is non-blocking.
- `Dns`: weak fairness of the lookup. Its reads have a timeout of five seconds.
- `Connection`: weak fairness of the thread; the client and the backend owe
  nothing. Reads and writes of the backend have timeouts (`backend.rs:76`,
  `ech.rs:259`), and `open_backend` returns as `RequestsEnd` says, where no address
  is mute.
- `CaStore` and `Startup` have no liveness property: a start may wait for its user
  for ever.

### Where the code and its documents disagree

Four runs are expected to be violated; each states what a document or a comment
says, and TLC finds a run of the program that does otherwise.

| Run | Property | What happens |
|---|---|---|
| `StaleTargetIps` | `Recovery` | cached addresses that all time out are never invalidated (`backend.rs:49`); `README.md:137`: caches are "invalidated after connection failures" |
| `HandshakeTimeout` | `TimeoutsTryEveryIp` | a timeout in the TLS handshake becomes `ErrorKind::Other` (`ech.rs:261`) and ends the request; `README.md:187`: "ECH timeouts try the next target IP" |
| `RelayLoss` | `Unmodified` | `write_all` on a full non-blocking socket drops the rest of the buffer (`proxy.rs:244`, `252`); `README.md:120-122`: tunnels are "not decrypted or modified" |
| `SharedProfile` | `WindowUsesItsProxy` | a second proxy, on another port, launches its browser on the same profile (`browser.rs:157`, or `129` where the browser is not a snap); the window opens in the first one's browser and goes through the first one's proxy; `README.md:176-177`: "the proxy uses an isolated temporary profile" |

### Limits of the passing runs

The passing runs leave out, by their constants or in the wording of a property,
cases in which more could not be said. They are facts of the code, stated here
once:

- `Silent = {}` in the recovery runs. A DoH server that accepts and stays mute
  holds its thread for ever (`ech_helper.c:38` has no timeout), so neither
  `RequestsEnd` nor `GreaseFindsServer` holds with one.
- `LiveResolved`: one cached DoH server keeps answering. `cf_ips` is never
  invalidated (`ech.rs:162`); if all its addresses go away, `Recovery` fails
  until the process is restarted.
- `StaleAnswers`: an old A record refuses connections rather than ignoring
  them; the other case is the run `StaleTargetIps`. With `LiveResolved` this is
  the hypothesis `Survivable` of `AtMostOneFails`.
- `AnnouncesLength`: bodies announce their length, the hypothesis of the proofs
  about `Connection`. Of a body without Content-Length, what the `BufReader` took
  with the head is lost.
- `script.bad` in the properties of `Connection`. A header that is not UTF-8 is an
  error of `read_line`, which the loop takes for the end of the head
  (`proxy.rs:26`): a request of the headers before it is forwarded, while the rest
  of head and body stays in the `BufReader`, or is taken for the body if the
  `Content-Length` came before. This is not the "rebuild the request, and forward
  it" of `README.md:106`. What holds of such heads, and is checked with four of
  them, is that nothing is repeated or reordered, and that the thread ends when
  the client leaves.
- `lost` in the same properties: errors of the writes of head and body, timeouts
  included, are ignored (`proxy.rs:188-200`), and the relay goes on after the gap.
  Nothing but order is claimed after one; what the relays lose is said of them.
- A line that the end of the stream cuts off counts as the whole line, except that
  a request line so cut may lack its second word and a `Content-Length` some of its
  digits. A client that resets its connection counts as one that sent what was read
  and left.
- `handle_client` parses one request for each connection. A second request on a
  kept-alive connection is relayed to the first one's backend (`proxy.rs:204`),
  whatever its host is; `Connection` says nothing of it.
- `full` in the properties of the relays: a write that finds no room may lose what
  it was given. In `TlsRelay` that takes three forms: a chunk refused by rustls or
  OpenSSL; the first bytes of a chunk that OpenSSL takes for a repetition; and a
  session broken by a write shorter than the one it repeats, which `broken`
  records and which ends the relay.
- `WindowUsesItsProxy` holds if all commands that launch a browser on one profile
  name one port (`OnePortPerProfile`), which is proved; `SharedProfile` is what
  happens when they do not.
- `~overlap` in the properties of `Startup`. When two first starts overlap, each
  writes its own certificate and key over the other's, and a proxy may sign with
  a key whose certificate is gone although `trust_ca` told it true.
- `CopyFailed` and `faults = 0` in the properties about trust. A `cp` that fails
  halfway leaves no certificate where one was, also under a proxy that was told
  true before. The exit status of the rebuild is discarded (`ca.rs:240`): where it
  fails, `trust_ca` says true, now and at every later start, which finds the copied
  file, while the trust store is as old as it was; this is not the "already
  trusted" of `ca.rs:137`. That the target of the copy is a readable file, and that
  `exists` tells whether a file is there, is assumed.
- A server that yields an address ends the lookup (`dns.rs:102`): if none of its
  addresses is Cloudflare's, the built-in ones are used and the next server is
  not asked. A `--dns` of the form `ip:port` gets `:53` appended and never
  answers.
- A prefix of 0 would shift by the whole width: one address instead of all in a
  release build, a panic in a debug build. No entry of the table has one;
  `ZeroPrefixIsOneAddress` states it.
- `is_target` compares case-sensitively, so `BGM.TV` is not a target.
- `trust_ca` says true both after it installed the certificate and when it found
  it installed; `TrustedIsInstalled` is about the copied file, `StrictBrowserAccepts`
  about the trust store.

One limit is inside a passing run: a kill inside `fs::write` of the key, or a write
of it that fails, leaves an empty file, on which every later start panics
(`ca.rs:32`). `PanicsOnlyAfterFault` says that nothing makes a start panic but a
failure of one of its own operations or a kill or failure of an earlier one (in
`Startup`, `ProxyPanicsOnlyAfterFault`).

## What is proved

For every value of the constants, from the assumptions in `Edge`, `EchCache`,
`Relay`, `CaStore`, `Startup`, `Dns` and `Connection`. Some theorems have further
hypotheses on the constants, each a named definition for which there is a
behaviour of the code that breaks it and the theorem: `OneAtATime`, `Survivable`,
`AnnouncesLength`, `OnePortPerProfile`. The last three are `ASSUME`d, with the
constants of the passing runs, in the `MC` modules, so that TLC evaluates them
there. `AllLaidOut`, the hypothesis of `FirstAnswerWins`, is of another kind: it
says that the labels on the packets are true, not what the packets are, and
`EveryPacketIsLaidOut` proves that every packet has such labels.

**`EchCacheProofs`**. `Invariance`: `IInv` is an invariant. `CachedIpsUsable` is
not inductive alone: what `IpsStore` stores was filtered steps earlier, and the
host it is stored for must still be the one it was asked for. `WorkerKnows` adds
what each stage knows: a worker past `Retain` holds addresses that were answered
for its host and are Cloudflare's; one that queries or connects holds a config
that was issued; one that asks for a config has none. An action moves one worker;
the lemma `Bystander` shows that the others lose nothing, because the history
only grows. `CacheSafe` and `TypeCorrect` follow. `Refinement`: `EchCache`
implements `StrictEch`; most actions are stutters (`Quiet`), the ends of a
request are `Succeed` or `Refuse`, `GreaseOk` is `Issue` and `QueryOk` is
`Answer`. `Advancing` (`RequestAdvances`): `get_ech` and `cloudflare_doh_ips` are
called from several places, so a stage alone does not say how far a request is;
what it still `Lacks`, then its stage, then the addresses left to try do, and
each step of its worker lowers one of them. That the stages after `get_ech` have
the config, and those after `get_target_ips` the addresses, is `WorkerKnows`.
It is the safety half of `RequestsEnd`.

**`EchRecoveryProofs`**. `RecoveryIsEchCache`: every behaviour of `EchRecovery` is
one of `EchCache`, so `IInv`, the refinement and `RequestAdvances` hold of it.
`RInvariance` and `AtMostOneFails`: of a user who makes one request at a time
(`OneAtATime`), at most one late request for a reachable target fails. The
argument is `RIInv`. A late request fails only in a connect or a query that used
something old, and the failure itself drops the config, the addresses or both.
From then on what the caches hold is current or absent (`Recovered`), and a late
request that has seen only that cannot fail (`RequestKnows`). The hypothesis `Survivable` says that no
old answer can leave a list of DoH servers without a working one, or a list of
addresses that all time out: the run `StaleTargetIps` shows that without it every
late request may fail. `OneAtATime` is needed for the bound of one, as
`EchRecoveryTwo` shows. (`MaxFailures`, the bound of the counter, is assumed to be
at least 2, so that it hides no second failure.)

**`RelayProofs`**. `OrderKept`, `LossExplained` and `EndExplained`, from an invariant
that says the relay holds unwritten bytes of one peer at most, and only between
a read and the end of its write (`Counted`); `TypeCorrect` from the same.

**`TlsRelayProofs`**. `TInvariance`: `TIInv`, for any buffer sizes and any number
of bytes. To the relay's own bytes it adds those that a session holds: they were
read before, lie after all that was passed (`HeldComesNext`) and before what is
being written (`TCounted`). The backend's session holds a record only after a
write to it found no room, so a held record of the browser's bytes goes with
`full`; the browser's session, if it is one, may hold bytes at any time. From it `TOrderKept`, `TLossExplained`,
`HeldInOrder`, `TEndExplained` and `TTypeCorrect`.

**`ConnectionProofs`**. `Invariance` and `BackendSeesTheStream` (`ForwardsPrefix`),
for any scripts in which bodies announce their length (`AnnouncesLength`),
whatever lines of their heads are not UTF-8 and whatever writes fail. `IInv` has
two halves. `StageKnows` is about every head: what was gathered is in order and
was read, and what is still to be written comes after what was written; that is
the order in `ForwardsPrefix`. `StreamKnown` is about heads of UTF-8: where each
unit is at each stage. The request is the stream up to `used`, filled up with what
the proxy makes up where a client left; as long as no write failed, what was
forwarded is a prefix of it; and once the handlers use the socket directly the
`BufReader` is empty. That it is, is what the hypothesis is for: without an
announced length, what the `BufReader` took along stays there, as it does after a
line that is not UTF-8. `Finite` does without the hypothesis: every step lowers a
part of `Left`, which counts the stages to go, the units not yet sent, read or
used, those still to be written, and the responses, and no step raises one. No
handler can loop, then; that the thread reaches the end at all is
`CloseEndsThread`, which needs fairness.

**`CaStoreProofs`**. `TypeCorrect` and `SettledStays` for any number of processes:
only a process that found a file missing writes, and a settled CA misses none.
`IInv` says, for any number of processes of which no two run together until the
CA is settled (`Alone`), that a key on disk belongs to the certificate on disk,
because the certificate is written first and a pair is replaced only while no
key is there (`PairInv`), whatever kills and failed writes came before; and that
an empty key file, which a start panics on, goes back to one of those. A step keeps it if it keeps processes apart
(`StepKeeps`, under `StartsAlone`). `OnlyProcessSigns` is the case of one process
at a time: it signs with the key of `ca.pem`, and panics only after a fault.

**`StartupProofs`**. `MainImplementsCaStore`: every run of `main` is a run of
`CaStore`, so `SettledStays` holds of it. `Invariance`: `SIInv`, which is `IInv`
while no two first starts have overlapped, and that when a strict Chromium runs
the CA is settled and is the installed one, or a copy has failed. `overlap` is what makes it
inductive: until it is set, each start finds the CA settled or is alone, which is
`StartsAlone`; so `StepKeeps` applies to several proxies, unchanged. From it,
`EveryProxySigns`, `EveryTrustIsInstalled`, `PanicsExplained`, `StrictAccepts` and
`StartupTypeCorrect`, for any number of proxies, ports, command lines, kills and
failures. `StrictAccepts` adds to the installed certificate what `StoreUpToDate`
says of the trust store: while nothing has failed it is a copy of what is
installed, except during a rebuild.
`WindowsUseTheirProxy`: under `OnePortPerProfile` every window goes through the
proxy that opened it. `WindowInv` traces a window's port to some command that
launched on its profile, through the browser that runs there or the `user.js`
that an earlier, perhaps killed, proxy left behind.

**`DnsProofs`**. `StaysInBounds`: for any packets of any length, since each index the
code uses was compared with the length before, and positions only grow
(`ParserInvariant`). `Advancing` (`LookupAdvances`): each step asks one more server,
or goes on to a later stage of this one, or moves on from a position inside the
packet, or takes one of the answers its header counts; as all of these are
naturals this is the safety half of `LookupEnds`.

`FirstAnswerWins` (`FirstServerWins`) is about what the parser reads, not only
where: the lookup returns what the first server with an answer says, and fails
only if none says anything. What a packet says is not a recursion over its bytes
but a grammar its names satisfy, so no induction over data is needed: the parser
follows the layout part by part. `LookupInv` is the invariant: `AtPacket` says
that `U16(Data, 6) - left` records have been passed, whole and without an address
among them (`HasRead`), and that the position is a part of the next name, its
end, or the end of its record; `Passed` that the servers given up said nothing.
The lemmas `NextPart`, `NextName` and `ReadPast` are the steps along a layout,
`FirstOne` and `NothingMore` what it says when the parser finds an address or
gives up. `EveryPacketIsLaidOut`: for any bytes a layout exists, since each name
and each record has a next one further on, up to the end of the packet
(`NoFirstBad` is the descent).

`CidrIsPrefix`, `CidrByOctets` and `CidrIsRange`: for prefixes 1 to 32, an address
passes the masked comparison exactly if its first bits are the network's; exactly
if its octets are, with one division for the octet the prefix ends in; and
exactly if it lies between the first and the last address of the range. From the
second and the types, `BootstrapIsUsable` (`BootstrapUsable`): the filter of
`cloudflare_doh_ips` keeps the addresses whose octets are in the table and no
others, and gives the four built-in ones (`BuiltInServers`) where none is left. `LeastOf` is the well-ordering of the naturals that these proofs share.
`ZeroPrefixIsOneAddress` is the other boundary.

Only model-checked:

- everything under fairness, which TLAPS cannot prove: `Recovery`, `RequestsEnd`,
  `GreaseFindsServer`, `EofEndsTunnel`, `NoHeadOfLineBlocking`, `BackendEndsRelay`,
  `BackendIsRead`, `BrowserIsServed`, `LookupEnds`, `NothingStuck`,
  `CloseEndsThread`;
- `FewFailures` for two workers, whose bound is that of the instance;
- that the grammar of packets and `parse_a_records` read what the records and
  tokens of `MCDns` were meant to say (its `ASSUME`): the builder of packets is a
  recursion over data.

## What is not modelled

- `parse_hosts` (`hosts.rs`): one pass over a file at start-up, whose result
  `EchCache` takes as the constant `Overrides`. Its keys are lower-cased and looked
  up as the client spelled the host; of two lines for a host the last one wins.
- `server_config` (`ca.rs:54-74`): stateless calls of rcgen and rustls for a leaf
  certificate.
- The command line (`cli.rs`): declarations.
- The text of DoH queries and answers, and the bytes of TLS records.
- `ech_helper.c` beyond its three outcomes. The SSL object it makes is never freed
  (`ech_helper.c:22`), on every path.
- The Windows and macOS branches of `ca.rs`, `browser.rs` and `main.rs`, and the
  double-click start.
- A limit on threads, which the code does not have, and errors of `accept`.
- `build.rs` and the release workflow, which run before the program exists.

## What could come next

1. `Connection` composed with `StrictEch`, so that a connection's backend comes
   from the promise instead of a choice.
2. A bound on late failures for any number of requests at a time.
3. A second request on a kept connection, as far as anything can be said of it.
