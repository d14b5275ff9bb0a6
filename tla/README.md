# Verification of the Kiwi network patches

The repository adds Encrypted Client Hello (ECH), post-quantum key exchange,
HTTPS/SVCB records and QUIC glue to the network stack of a Chromium browser. Its
code is a set of functions and singletons meant to be called from Chromium. This
directory holds TLA+ modules that model that code, TLC configurations that check
them on small instances, and proofs of what holds for every instance.

Paths below are relative to `src/ech_kyber_integration/` unless they begin with
`src/`.

## The system

| Component | State | Operations | Modelled in |
|---|---|---|---|
| ECH retry cache, `ech_retry_handler.cc:44-113` | an LRU map from host:port to (configuration, time), under `lock_` | Store, Get, Invalidate, Clear, Size | `LRUCache`, `ECHRetryCache` |
| Degradation monitor, `ech_retry_handler.cc:188-260` | three counters per host:port, under `lock_` | RecordResult, ShouldDisableECH, Reset, ClearAll | `ECHDegradation` |
| Retry handler, `ech_retry_handler.cc:127-173` | none of its own; the SSL object and the cache | HandleECHRetry | `ECHConnections` |
| SSL configuration, `ssl_client_socket.cc` | the SSL object, the shared SSL_CTX, the Net.ECH.Result histogram | ConfigureKiwiSSLProfile, ConfigureKiwiSSL, ECHRetryCallback, AnalyzeKiwiSSLResult | `ECHConfigList`, `ECHWire`, `KiwiSSL` |
| HTTPS record parser, `host_resolver_manager.cc:45-334` | none | Parse | `HttpsRecord` |
| DNS results and requests, `host_resolver_manager.cc:352-442`, `url_request_http_job.cc` | the ResolveContext: fields per NetworkAnonymizationKey | ProcessHttpsRecord, ShouldUpgradeHttpToHttps, GetEchConfigForRequest, SelectProtocolFromDnsResult, ConfigureSSLForRequest | `ResolveContext`, `KiwiSSL` |
| QUIC, `quic_ech_integration.cc` | the SSL object of a session | ConfigureECHForQuicSession, CanUse0RttWithECH, OnQuicConnectionMigrationWithECH | `KiwiSSL`, `ECHConnections` |
| Android observer, `android_network_config.cc` | `current_connection_` | OnNetworkChanged | `ECHConnections` (VPN: see below) |
| Proxy and interception, `proxy_tls_interception.cc` | `suspicion_score_`, one PAC flag | AdjustForProxyEnvironment, IsConnectionIntercepted | `TLSInterception` (PAC: see below) |
| Mojo IPC, `mojo_ipc_integration.cc` | none | SerializeSSLConfig, DeserializeSSLConfig | `KiwiSSL` |
| Patch script, `src/apply_kiwi_patches.sh` | files of a Chromium checkout | three copies, one global substitution, five guarded insertions | `KiwiPatchScript` |
| Feature flags, system context, metrics, patches, builds | - | - | not modelled, see below |

**How the parts interact.** A DNS answer is parsed (`Parse`) and leaves its
configuration in the ResolveContext; a request reads it there
(`ConfigureSSLForRequest`) into an SSLConfig, which may cross a Mojo interface to the
network service; `ConfigureKiwiSSL` turns it into settings of the SSL object and of the
SSL_CTX all connections share. If the server rejects ECH, either BoringSSL calls `ECHRetryCallback` or the socket calls
`HandleECHRetry`; the second also stores the new configuration in the cache. At its
end a connection's result goes to the monitor. The network observer clears monitor
and cache; a QUIC migration resets one host of the monitor. Cache and monitor are
process-wide, lock only themselves, and are called from several sequences. A QUIC
session looks its host up in the cache before it sends early data.

**What is hard.** The interleaving of connections with one another and with the
two clearing steps of a network switch; results and stores that arrive late;
retries that nothing counts; partial failure in each of the many steps that
configure a connection; per-key fields that are set and never unset; one score
shared by overlapping connections; data read before a handshake and stale after
it; lists cut off anywhere; a script that stops half way and is run again; the
boundaries of the LRU limit, the age limit and the truncated rate. `PROJECT.json` lists
these hazards at their lines.

**What makes each part correct.** The cache: a bounded map that answers with the
latest configuration and evicts only the least recently used. The monitor: the
verdict is the one the results deserve, on evidence, stable under further failures.
Connections: a switch leaves nothing old, what arrives after it is bounded by the
connections in flight, retries offer the server's own and newer keys and end, early
data goes stale by a retry only. SSL
configuration: GREASE whatever step fails, samples that tell one story, what was
prepared is what is offered. Parser: agreement with the record format, in any order
of parameters. Requests: only valid records of their own key, each answer in force
at once and in full. Interception: nothing
missed, and no carry-over without overlap. Script: nothing twice, everything once it
has run to its end.

## Modules

Each module's header names the code it models, and every action keeps the name of
its function. Operators named "faulty variant" are plausible mistakes in that code;
nothing uses them unless one is put in the place of the definition below it, to
confirm that a property would notice.

* `LRUCache` - base::LRUCache as the cache uses it (its source is Chromium's): a
  sequence of entries, most recently used first.
* `ECHRetryCache` - one action per locked member function; `Get` is three actions
  (`GetMiss`, `GetExpired`, `GetHit`), one per return. `now` is the clock, `reply`
  the answer.
* `RetryCacheContract` - what callers are promised, with no list and no eviction:
  the last Store per host, the set of hosts used since, and whom a lookup asked about.
* `ECHRetryCacheHistory` - the cache with the contract's variables as history;
  `ImplementsContract` says the first implements the second. `MCECHRetryCache`
  instantiates it.
* `ECHDegradation` - counters and verdict. `ECHDegradationHistory` adds the list of
  results, to compare the verdict of three counters with the one the list deserves.
* `ECHConfigList` - the loops that read configuration lists, as folds. A list is a
  sequence of items: version and contents, or `Broken` where a read fails.
* `ECHWire` - the same loops over bytes: a list is written with or without an outer
  length, cut off anywhere and read, one turn of the loop per step. `BytesReadAsItems`
  says that `ECHConfigList` describes what the bytes give.
* `KiwiSSL` (`MCKiwiSSL`) - a connection is configured (`Prepare`, perhaps
  `CrossToNetworkService`, then `ConfigureKiwiSSL` or `ConfigureQuic`), shakes hands, may be rejected
  (`RetryAbort`, `RetryRetry`, `QuicRejected`), and is established or aborted. Each
  BoringSSL call that can fail is a Boolean parameter. `ECHRetryCallback` is
  `RetryAbort` and `RetryRetry`, one per result. `honest`, chosen at the start, says
  whether the server always returns its current key.
* `HttpsRecord` - the parser as a fold over parameters. `HttpsRecordParse` calls it on
  every record of a bounded set. `MCReaders` instantiates it and `ECHWire`.
* `ResolveContext` (`MCResolveContext`) - answers processed and requests made in any
  order.
* `ECHConnections` (`MCECHConnections`) - composes `ECHRetryCache` and
  `ECHDegradation` (by INSTANCE) with connections, the observer, QUIC migrations,
  servers that rotate keys and a DNS that lags. `dns` is what the ResolveContext holds
  per anonymization key (`Nak`): `RefreshDns(h, k)` puts h's configuration there, and
  `Connect(c, h, k)` and `ConnectQuic(c, h, k)` offer what is there, which is another
  host's if that was resolved last under k (`url_request_http_job.cc:57`, the
  `DnsEchOwner` run). Its server rejects such a key like an old one of its own. `HandleECHRetry` is split where
  others can run: `HandleECHRetryFallback`, `HandleECHRetryStore`,
  `HandleECHRetryApply`; `OnActiveNetworkChanged` likewise: `OnNetworkChanged`,
  `ObserverClearCache`. A QUIC session begins with `CanUse0RttWithECH`
  (`ConnectQuic`), whose lookup is one of the cache's three `Get` actions, and has no
  retry. The code shows no caller of `HandleECHRetry` and `RecordResult`; the model
  calls them where the comments say they are called (`ech_retry_handler.cc:121`, `195`).
* `TLSInterception` - the score, between `AdjustForProxyEnvironment` and
  `IsConnectionIntercepted` of each connection.
* `KiwiPatchScript` - the script's commands in order, each of which may fail (which
  ends the script, `set -e`) or be killed; the script is run any number of times, with
  files missing or checked out afresh in between.

`last`, `usedSince`, `asked`, `results`, `switches`, `stored`, `counted`, `answers`,
`applied`, `disturbed`, `intended` and the field `started` are history: no step of the
code's part reads them. The `SSLConfig` fields `grease` and `groups` are kept although no
step uses them (`groups` is copied across Mojo), because no function in the code uses
them either.

## Runs

Passing runs:

| Run | Shows | Bounds, and why they are enough |
|---|---|---|
| `MCECHRetryCache` | bounded map, latest only, nothing lost early, order of use, contract | 3 hosts for 2 places, 2 configurations, TTL 2, clock to 4: a full list, eviction, an update at the limit, a hit that saves an entry and an expiry after one all occur |
| `MonitorVerdict` | verdict from counters = verdict from results; evidence; failures never readmit; when a success disables | the code's thresholds 5, 10, 30 and every sequence of up to 12 results, so both rules bind, on both sides of the tenth result; one host, since no operation relates two (the theorems are for any set of hosts, and `ConnSafety` has two) |
| `SSLSafety` | GREASE, samples, what was prepared is offered, retries bounded by rotations | 2 connections on one context, 4 lists (good, mixed versions, broken off, rejected), 3 retry lists, 2 feature sets, all three profiles, with and without the crossing, every call failing or not, server honest or not, 1 rotation, 2 rejections: an honest server's two retries both occur |
| `Readers` | bytes are read as items; agreement with the record format, order | every list of up to 2 configurations of 12 kinds (contents that begin another's, that look like a configuration, that are empty), cut off at every byte; records of up to 3 parameters of 12 kinds and all priorities and targets: repeats, cuts at every place, mandatory before and after |
| `DnsContext` | valid records only, every field of an answer in force at once and no other, HTTP/3 from the first report on | 2 hosts, 2 keys, 4 answers: alias first, unsupported mandatory key behind its data, several records; answers with and without h3, a configuration, hints and a port follow one another under one key |
| `ConnSafety` | switches, late results and configurations, early data, retries go forward | 2 hosts under one anonymization key, so that either host's key may be on offer; 2 connections, 2 attempts, 1 rotation, 1 network change, a cache of two entries that live less than a tick: expiry, stores and results between the two clearing steps and after them, a retry while a QUIC session of the same host shakes hands. Nothing is evicted and there is one switch: evictions are in `MCECHRetryCache` and, with any number of switches, in the theorems |
| `ConnLiveness` | cache and monitor are used as specified, connections end | 2 hosts, 1 connection, 2 attempts one after the other, 1 rotation of each server, 1 network change: with a foreign key and a rotation a connection retries twice. One connection is enough, since a connection's steps look only at its own record, the rotations and the cache's answer to its own check, and for any number `ConnectionsRunDown` bounds them |
| `InterceptionOverlap` | nothing missed; alone judged alone | 2 connections with each of the 32 evidences; the score never reaches its bound of 200 |
| `PatchScript` | nothing twice, complete runs, text only after whole files and enabled features | all subsets of missing files, anchors that match 0, 1 or 2 lines, any number of runs, kills and checkouts |

Three runs end in a violation. Each states what a comment or document says and shows
the steps that break it; `PROJECT.json` quotes the lines.

| Run | The documents say | The code |
|---|---|---|
| `SSLThreeRetries` | at most 3 retries, then fallback | retries are not counted: an honest server that rotates its key between them is retried a fourth time |
| `DnsEchOwner` | the configuration comes from the host's record | it is the last stored under the anonymization key, whichever host it was for |
| `WireFormat` | a list begins with its length, and records hold lists in that format | the loop does not read the length: such a list gives no configuration |

Deadlock is not checked where the system may come to rest: bounded attempts and
connections that have ended. In the cache, monitor, reader, context and script runs it
is.

**Bounds.** `MaxNow`, `MaxTotal`, `MaxRotations`, `MaxRejections`, `MaxAttempts`,
`MaxChanges`, `MaxScore`, `MaxParams` and `MaxAnchors` bound runs and model nothing. In
`ECHConnections` the clock advances once in `ConnSafety`, which is enough for an
entry to expire, and stands still in `ConnLiveness`, where the cache has one place
and nothing looks at the time but the 0-RTT check (that a lookup which drops an
expired entry is a step of the cache, too, is in the theorem about
`PartsAreImplemented`). `MaxAttempts` also stands in the monitor's guard; since each
attempt reports once it keeps no connection from reporting. The counters are unbounded naturals; the
code's `int successes * 100` overflows after 21 474 836 successes of one host, which
no run reaches.

**Symmetry** is used in runs of invariants and action properties over hosts,
configurations, connections and keys that nothing distinguishes, never with
liveness.

**Fairness.** Only `ECHConnections` assumes any: weak fairness of each connection's
progress and of the observer's second step. A socket's state machine is driven by the
network stack until it is done, and `OnActiveNetworkChanged` is one function whose
second call cannot be skipped. Nothing obliges a server to rotate, a network to change
or anyone to connect. Weak fairness suffices because no other actor disables these
steps. An answer that never comes is a matter of socket timeouts, which this code does
not have. Liveness rests on finitely many rotations, and on servers whose retry
configuration is their own; the key a connection begins with need not be. For a server that rotates without end `SSLThreeRetries`
shows that nothing in the code stops the retries; what remains true, that retries are
paid for by rotations, is a safety property of `KiwiSSL` and proved.

## Where documents and code part

Found by reading while modelling; the models follow the code. No run is kept for
these, since most say that something is called, read or unset nowhere, which the code
shows without a search.

| Line | Says | The code |
|---|---|---|
| `ech_retry_handler.cc:186-187` | three failures in a row lower the priority, a rate below 20% disables | five failures in a row, or below 30% of ten, disable (223-227); there is no priority |
| `ech_retry_handler.cc:225` | the rate counts beyond ten attempts | `total >= 10` (226): the tenth result counts |
| `ech_retry_handler.cc:11`, `37` | connections begin with the cached configuration | `ECHRetryConfigCache::Get` is called by the 0-RTT check only (`quic_ech_integration.cc:112`) |
| `ech_retry_handler.cc:187`, `274` | ECH is disabled for a degraded host, ECHManager is notified | nothing but tests asks `ShouldDisableECH`; the health check logs |
| `security_threat_model.md:68` | a degraded host is retried after 72 hours | `HostStats` has no time; a success, Reset or ClearAll lifts the verdict |
| `ssl_client_socket.cc:481` | the compatible profile turns GREASE off | `ConfigureKiwiSSL` (402) sends it for every profile |
| `ssl_client_socket.cc:472` | the secure profile forces post-quantum groups | `ConfigureKyber` (413) never reads the preference |
| `ssl_client_socket.cc:56` | `kSuccess`: the ECH handshake succeeded | nothing records it |
| `quic_ech_integration.cc:32` | QUIC is configured like TCP | it returns before its GREASE when no configuration is usable (41-74) |
| `host_resolver_manager.cc:89` | an invalid record has `valid` = false | a record that breaks off inside a parameter is valid, with what stood before the cut |
| `url_request_http_job.cc:104` | HTTP/3 is used if DNS reports it | `SetSupportsHttp3` is only called with true, under a key that hosts share: after any host's report all go over HTTP/3, whatever a later answer says, and one whose own answer does not report it need not be upgraded |
| `proxy_tls_interception.cc:187` | the suspicion score is of a new connection | one score for all; overlapping connections add up |
| `proxy_tls_interception.cc:258-261` | interception disables ECH, PAC scripts turn on DoH fallback | `AdjustForProxyEnvironment` does neither; `NeedsDohFallback` has no caller |
| `android_network_config.cc:26` | a network switch resets the statistics | types other than WIFI, 4G and 5G are ignored (47), so a change to 3G, or away and back through it, clears nothing |
| `src/apply_kiwi_patches.sh:27` | the SSL header is included where the call is inserted | the anchor ends in `ssl_config"` and Chromium's line in `ssl_config.h"`: it matches nothing, and the call (32) is inserted without its include |
| `src/apply_kiwi_patches.sh:36` | "SSL integration point injected" | printed whenever sed ran, also when its anchor matched no line |
| `src/README.md:29-31` | run the script from `src.next` | `ech_kyber_integration/` is not there, and the first cp ends the script |
| `src/github-actions/build-kiwi.yml:125` | copies the tests to `net/kiwi/unittests/` | the directory is not made (120 makes `net/kiwi/` only) |

## Proofs

The proof modules extend the modules they are about and share their definitions.
Assumptions are the named ASSUMEs: `CapacityAssumption` (at least one place),
`CacheAssumption` (the empty string is no configuration, bounds are naturals),
`ThresholdAssumption` (the monitor's thresholds are positive, and the rate rule needs
no fewer failures than the consecutive rule: 100 * 5 <= 70 * 10 in the code),
`GarbageAssumption`, `BoundAssumption`, `ScoreAssumption`, `AnswerAssumption` (answers
are lists of records), `ConnectionsAssumption` (those of the cache and the monitor's
thresholds, for the composition, and finitely many connections), `AnchorsAssumption`,
and what the readers are given: `ListsAssumption` (lists are lists of items),
`ParamsAssumption` (parameters are parameters) and `SourceAssumption` (versions are
16-bit words, contents are octets and as many as a 16-bit length can say). Each is
evaluated by a passing run.

* `ECHRetryCacheProofs` - first what Erase, ShrinkToSize, Put and Touch do to a list of
  any length: all of them pick entries of the old list, in order (`Picks`), and may set
  one in front. Then `CacheInv`, type and bounded map together: neither is inductive
  alone, since removing a host's entry removes the host only if it has one entry. Every
  operation is an erasure or a put in front (`ListStep`).
  With the history, `Inv` adds the order of use, the latest
  configurations and `KeptUntilCrowdedOut`. An eviction takes the last entry of a
  full list; all `Capacity - 1` hosts in front of it, and the new one, are in its
  `usedSince`, so it is crowded out (`LastIsCrowdedOut`, by an injection from
  positions to hosts). `CacheImplementsContract` follows step by step: an expired or
  missing entry is a `NotFound` the contract allows, by the same invariant.
* `ECHDegradationProofs` - `CountersAgree` is inductive with the type invariant. The
  rest is arithmetic: `DivisionBound` turns the truncated test into one of products;
  a failure grows the denominator only, a success of a host past its tenth result
  cannot lower the rate.
  `VerdictIsDeserved` needs the list of results beside the counters: `HistoryInv` says
  that they are its length, its successes and its last run of failures.
* `KiwiSSLProofs` - `SSLInv`, a connection's invariant by phase: before the SSL object
  is configured nothing is offered or recorded and the prepared fields that matter have
  survived the crossing; in the handshake GREASE, keys and samples agree; after a retry
  the samples are `FailedRetry`, one each. With an honest server, a connection that
  offers the server's key has used up the retry the last rotation may cause, hence
  retries <= rotations + 1. `TypeInv` strengthens `SSLTypeOK`: what was prepared, what
  crossed and what is intended are configurations of the profiles, and a list yields
  nothing but keys (`ListsYieldKeys`, for which the fold of `ReadList` is unrolled by
  the equations of `ReadersProofs`).
* `ReadersProofs` - the loops of the readers are folds, and what a fold computes for
  every input would be proved by induction, for which no theorem of the library can be
  used here. The way round is the least counterexample: a set of naturals with a member
  has a least one (`LeastNatural`, from the well-foundedness of <), and what FoldLeft or
  FlattenSeq gives after i turns is pinned down by its equation at i - 1. For the
  lists, `WireInv` says that the keys are those of the items before some i and `cbs` the bytes from `EndOf(i)` to the cut; a turn that reads
  a whole configuration advances i, and one that does not has met the cut. For the
  parser, `ParamsFold` gives the loop's value after the first i parameters in closed
  form (`AfterParams`): lists are unions, a configuration or a port is the latest usable
  one, and nothing counts from the first parameter that cannot be read on. The
  declarative reading and the independence of order follow without the fold.
* `ResolveContextProofs` - what is in force under a key was said by a record applied
  under it, and HTTP/3 is in force exactly if one of them reported it. The effect of an
  answer on the four fields follows because an answer has one first valid record. The
  proofs hold of any parser.
* `ECHConnectionsProofs` - `ConnectionsInv`: the types; every configuration in DNS and
  on offer is one some server has served (`WasServed`, `dns` keeps no hosts apart), what
  is cached for a host or returned to retry with is its own server's; what is in the
  cache is as old as the last switch or the observer has still to clear it; late results
  belong to connections that were in flight, and so do late stores (`LateStores`:
  a connection of an older network has made the last store for one host at most, while
  it is in flight the one it is connected to). The cache's own steps come from
  `ECHRetryCacheProofs` through an INSTANCE, so nothing about lists is proved twice.
  `EarlyDataIsFreshUntilAStore` then goes through the steps one by one.
  `RetriesInv` adds that a rejected connection offered an older key of its server or a
  key of another host, and was given one of its server's that is newer in the first case;
  `RetriesMoveForward` is a step from it. `ConnectionsRunDown` is
  the safety half of `ConnectionsEnd`: `StepsLeft`, five for each key a connection may
  still be given and two for its answer and its end, falls with each of its steps and
  rises only when its server rotates. A foreign key counts as one more than all the
  server has had (`Behind`), so the bound is `5 * (MaxRotations + 1) + 2`. What it
  leaves to TLC is that the steps are taken.
  `PartsKeepTheirSpecifications` shows that the composition implements `CacheSpec` and
  `MonitorSpec`, so the parts' theorems hold of it; `ConnectionsInv` is needed because
  the cache may only be given configurations of hosts. `LateResultsDisableNoHost`
  puts these together: the monitor's evidence theorem gives a disabled host
  `FailureLimit` results, and an injection from the old ones to connections (by `Late`)
  bounds those that began before the last switch.
* `KiwiPatchScriptProofs` - `Progress`: where a run has got to, every command before is
  done, and no later one undoes it. A run that inserts has therefore copied every group
  whole and enabled the features itself.
* `TLSInterceptionProofs` - `NothingIsMissed` needs only that points are not
  negative; `UndisturbedIsJudgedAlone` needs that the score is zero while a
  connecting connection is undisturbed.

**Only model-checked:** `ConnectionsEnd`, which is liveness: that a connection's next
step is enabled and, by fairness, taken is out of the prover's reach (ENABLED), that
only finitely many are left is `ConnectionsRunDown`. The violations are TLC's too,
though `DocumentedFormatYieldsNothing` proves for every list what the `WireFormat` run
finds on one.

## Not modelled

* `HandleInterception` calls `ECHDegradationMonitor::ForceDisableECH`, which the class
  does not have. `PerformECHHealthCheck` logs. `ConfigureKyberForSSL` is not called.
* `VPNCompatibility` keeps a moving average in single-precision floating point, with
  the rounding of which its threshold may be met a result earlier or later; TLA+ has no
  such numbers and an exact rational outgrows TLC's after nine results.
  `RecordQuicResultOverVpn` has no caller either.
* `PACCompatibility` is a flag that is only ever set and that nothing reads.
  `ShouldKeepECHForVpn`, `AndroidDnsIntegration` and `BatterySaverMode` return
  constants. `Register` and `Unregister` of the observer are one call each.
* `ApplyKiwiNetworkContextConfig` assigns two constants that nothing reads.
* `networking_features.cc`, `system_network_context_manager.cc`,
  `metrics_instrumentation.cc`: declarations, start-up constants, histogram calls. The
  `kKiwi*` features of the first are read by nothing.
* The `.patch` files are texts; the build workflow makes the script's substitutions
  once, without its guards, in a checkout made for the build.
* The bytes of HTTPS records: a record's parameters are a sequence of what the reads
  find, cut off anywhere (`Truncated`). The bytes of configuration lists are in
  `ECHWire`.

## How the project grew, and what is left

The core came first: cache, monitor, SSL configuration, parser, context, connections
and interception, with the proofs of cache, monitor and retries. Then, in the order
they had been planned: 0-RTT in `ECHConnections`, the lists as bytes in `ECHWire`, the
Mojo crossing in `KiwiSSL`, `KiwiPatchScript`, the proofs about connections,
contexts, samples and the verdict, and those about retries and the readers' loops.

What is left is little and named above: the VPN average would need a model of
floating-point rounding, a byte-level reader of HTTPS records would repeat for them what
`ECHWire` does for lists, and a caller of `ShouldDisableECH` or of the cached
configuration, which the comments announce, would give `ECHConnections` a new step.
