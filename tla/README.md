# A verification development of iot-miniservers

TLA+ modules that model the parts of this repository whose correctness depends
on interleaving, failure and order; TLC configurations that check them on small
instances; and theorems about them that the TLA+ proof system checks for every
value of the constants. Paths below are relative to the repository's root
(`src/` here).

## 1. Inventory

The repository is a monorepo of small Node.js services (Ts.ED) and React UIs
for a home installation, with shared packages. Everything runs on single-threaded
event loops: code is atomic between two `await`s, and at each `await` any other
request, timer or message may run. That is the granularity of all models.

### apis/miot-bridge-api and packages/miot-device

The core: a bridge from home automation (HTTP, MQTT) to Xiaomi devices (UDP).

| part | state it keeps | operations | talks to |
|---|---|---|---|
| `MiotDevice` | `_deviceId`, `_stampState` | `discover`, `connect`, `getProperty`, `getProperties`, `setProperty`, `callAction`, `setStampState` | `MiotTransport`, an optional shared stamp store |
| `MiotTransport` | one socket and one timer per exchange | `handshake`, `sendCommand` | the device, over UDP |
| `DevicePropertyPollerService` | `_subscriptions`, `_lastValues`, `_errorCounts`, `_skipCycles`, `_timer`, `_ticking` | `$onInit`, `$onDestroy`, `tick`, `addSubscriptions`, `removeSubscription`, `removeAllSubscriptions` | `DeviceCommandService`, `NotificationDispatchService` |
| REST handlers | none | POST / DELETE of notifications, DELETE of a device, POST of a device | storage first, then the poller's cache |
| storage | documents (MongoDB) or a JSON file | create, update, delete, find | |
| `DeviceCommandService` | none | `execute`, `executeRaw`, `getProperties` | registry, `MiotDevice`, dispatch |
| `MiotDeviceRegistry` | one `MiotDevice` per hardware id | `getOrCreate`, `remove` | |
| `NotificationDispatchService` | none | `receive` (HTTP and MQTT, fire and forget) | |
| `MqttClientProvider`, `MqttListenerService`, `MqttTopicService` | connection, subscription, ready flag | connect, subscribe, on message, publish | broker, `DeviceCommandService` |
| `SimplifiedMiotSpecV2Mapper`, override handlers | override rows per model | map a spec to keys; create and delete rows | storage |
| `otel` of the bridge | spans, counters, when a tick was traced last | entry points, jobs, sampling | the OpenTelemetry SDK |

Hard behaviours: two callers share a device's stamp across `await`s; replies are
lost or late; a command is repeated although the device obeyed; a
tick works on a snapshot of subscriptions that handlers change meanwhile; storage
and cache are updated in two steps that a crash, a rejection or another request
can come between; commands arrive over a link that is lost and comes back, and
are answered in another order than they came; override rows change between the
moment a key is asked for and the moment it is resolved; ticks and messages
overlap while their spans travel with the asynchronous context.

### packages/http-provider, packages/resilience

`HttpProviderFactory` builds axios instances whose requests carry credentials
from an auth strategy; `TokenExchangeStrategy` and `JwtSelfSignedStrategy` keep a
credential cache (`cached...`, `inFlight...`, `inFlightEpoch`, `cacheEpoch`)
shared by all requests of a provider. `ResiliencePolicy` composes retry, circuit
breaker, timeout and caller cancellation around the adapter. Hard behaviours:
an acquisition that ends after its epoch was invalidated, 401s that arrive late
or twice, a failed acquisition with others waiting for it, half-open probes that
are cancelled; and the chain of interceptors itself, which a replay passes a
second time inside the first.

### packages/health, packages/tsed-health

`HealthRegistry` (single flight, result kept for a time, a deadline per check),
`HealthController` (`/live`, `/ready`, `/`), `ShutdownState`,
`createShutdownHandler` (drain, stop, flush, hard deadline). Hard behaviours:
a probe overlapping the begin of the drain, signals that repeat, a teardown that
hangs or throws.

### packages/auth, packages/tsed-auth

Decorators at methods and classes leave the options of a route and what its
OpenAPI document says; `AuthGuard` runs before the handler; `Authenticator` tries
one verifier per trust domain; `JwtVerifier` takes its keys inline or from a key
set that is fetched, kept for a time and fetched again for an unknown `kid`, not
more often than a cooldown allows. Hard: the order of the decorators, keys that
rotate while requests wait for a fetch, a provider out of reach, and how the
failures of several verifiers and the roles fold into one answer.

### packages/ui-auth, packages/ui-runtime

`AuthContext` (sign-in by top-level redirect, a marker in session storage,
renewal), `AuthCallback`, `useApiStatus` (recovery probe with back-off). Hard:
redirect loops, a page that waits for a callback nobody answers, effects that run
after the state they read was replaced.

### apis/qr-manager-api and ui/qr-manager-ui

`QrCodeService` draws slugs with a bounded number of attempts against a unique
index; the pages load a code, and save or switch it later. Hard: two
administrators on old pages, requests that fail after they took effect, labels
that outlive their code.

### apis/interactive-map-feeder-api

Finds the pixel of each city in a radar composite, with a square around it, and
answers with colours or with a marked picture. Hard: the edges of the image, and
that the colour of a city is not the colour of another.

### ui/homelab-dashboard-ui

Sorts the DNS records of a controller into tiles per server; polls its status.
Hard: names in any case, records held twice, servers that share an address; and a
screen nobody touches.

### the rest

`packages/otel` is modelled as the bridge uses it. `ui-kit`, `nginx-runtime`,
build and deployment have no logic of this kind. `PROJECT.json` lists every
component with its status, and under "hazards" what was found hard to test.

### What makes each part correct

* **MiotDevice** - a command reported as done was judged by the device: a single
  read or write was carried out, a bulk read or an action at least answered; it is
  carried out at most twice; a failure on a cached stamp is always retried after a handshake;
  the retry is not stale; every call ends.
* **Poller** - exactly one chain of ticks; a paused device rests and is tried
  again; no device is forgotten; the consumer ends up with the device's values.
* **Handlers** - nothing is polled that is not stored; a deleted device leaves
  nothing behind.
* **Credential cache** - no credential of an older epoch is cached or put on a
  replay; one acquisition per epoch; no request joins a finished acquisition;
  tokens are not used after their expiry; every request ends.
* **Device store** - what a change did that ran alone holds, whatever other
  changes do to each other; a stale instance in the registry is one whose record
  was deleted.
* **Resilience** - at most 1 + count attempts; nothing starts after the caller
  aborted; a cancelled probe does not close the breaker.
* **Health and shutdown** - no probe that comes after the drain began is answered
  ready; one evaluation at a time, of bounded age; teardown runs once
  and ends.
* **Entrances** - nobody is let in without what the route asks for, whatever key
  rotation is under way; a good token is not blamed for a provider out of reach;
  the document says what the guard does; every request is answered.
* **MQTT** - the bridge is never deaf for good; every command is answered, after
  consumers know its value; an MQTT consumer ends up current.
* **Commands** - a key reaches the property the youngest row names, and each
  answer of a bulk read its own key.
* **Exchange** - the verdict on a call is the truth, whoever of the callbacks is
  late and whatever the network does to datagrams.
* **Clients** - a failure is named after its cause, once, and is not tried more
  often than configured.
* **Telemetry** - everything is counted whatever is sampled; spans tell the work.
* **UI session** - no redirect loop; signed out stays signed out; the place is
  kept; the page does not load for ever, where the code can help it.
* **UI status** - a screen nobody touches recovers.
* **QR codes** - a label leads to its record; a code is active as last asked.
* **Dashboard** - a tile for every record that leads to its server, no other.
* **Map** - an LED tells the weather of its city; a picture marks every city.

## 2. Modules

| module | models | kind |
|---|---|---|
| `RemoteCommand` | what a caller of a device command may rely on | abstract specification |
| `MiotDevice` | `MiotDevice.ts` over `MiotTransport.ts` | state machine; implements `RemoteCommand` |
| `PropertyPoller` | `DevicePropertyPollerService.ts`, with the parts of `DeviceCommandService.ts` it depends on | state machine |
| `NotificationApi` | the notification and device-delete handlers over MongoDB | extends `PropertyPoller`: both run together |
| `CredentialCache` | `TokenExchangeStrategy.ts`, `JwtSelfSignedStrategy.ts`, the interceptors of `HttpProviderFactory.ts` | state machine |
| `DeviceStore` | `DevicePostHandler.ts`, `DeviceDeleteHandler.ts`, both device backends, `MiotDeviceRegistry.ts` | state machine |
| `ResiliencePolicy` | `ResiliencePolicy.ts` over cockatiel's breaker and timeout | state machine |
| `HealthProbes` | `HealthRegistry.ts`, `HealthCheckService.ts`, `HealthController.ts` | state machine, used by `Shutdown` |
| `Shutdown` | `createShutdownHandler.ts` as `index.ts` of the bridge registers it, and its handlers of uncaught errors | extends `HealthProbes`: both run together |
| `RouteDecorators` | `decorators.ts`, and the routes the controllers serve | operators |
| `ApiAuth` | `AuthGuard.ts`, `Authenticator.ts`, `JwtVerifier.ts`, the key sources | state machine over `RouteDecorators` |
| `MqttBridge` | `MqttClientProvider.ts`, `MqttListenerService.ts`, `MqttTopicService.ts`, `NotificationDispatchService.ts` | state machine |
| `DeviceCommands` | `SimplifiedMiotSpecV2Mapper.ts`, `DeviceCommandService.ts`, the override handlers | state machine |
| `Exchange` | `MiotTransport.ts` and the packets | state machine, below `MiotDevice` |
| `HttpProvider` | `HttpProviderFactory.ts`, `tsed-http-provider`, the breaker's health check | state machine |
| `Telemetry` | `packages/otel`, `otel/` of the bridge, its entry points | state machine |
| `UiSession` | `packages/ui-auth` | state machine |
| `ApiStatus` | `useApiStatus.ts` | state machine |
| `QrCodes` | the QR manager's service, repository and pages | state machine |
| `RadarMap` | the map feeder's services | state machine over operators |
| `Dashboard` | `parseDns.ts`, `App.tsx` of the dashboard | extends `ApiStatus`: both run together |
| `Absence` | what stands for null and undefined in modules used together | a constant |
| `MC...` | instances for TLC; some hold several parts that share no state | |
| `...Proofs` | theorems | |

### MiotDevice

Each call is one `runWithStamp` or `discover`; `pc[c]` is the `await` it is at
("cached": the exchange on the cached stamp; "handshake", "greeted"; "fresh": the
retry; "loading", "saving...": the stamp store). `Transmit` is `sendCommand`,
`CloseSocket` the end of an exchange, `ExchangeFails` the timer, a transport
error or a refusal, followed by the `catch` of `runWithStamp` or of
`runWithFreshStamp`. `StoreWriteFails` is the failure of `setStamp` *inside* the
`try`: the code then takes a finished command for a failed one. The device and
the network are external: a packet may be obeyed, refused, ignored when its stamp
is not ahead, lost or delayed; an answer reaches only the socket of that very
packet (each packet has its own ephemeral port). Payloads are left out.

A refusal comes in two forms. An error of the whole answer (`DeviceErrors`) is
raised whatever was asked. The code of the item in the answer (`DeviceRefuses`) is
raised by `getProperty` and `setProperty` only; `getProperties` hands it to its
caller as a result and `callAction` does not look at the answer, so there a
refused packet counts as answered (`Raised`, `refused`). `DoneMeansJudged` and
`RemoteCommand` therefore promise the caller of a bulk read or an action no more
than an answer to every packet of one attempt.

A `getProperties` of no properties at all, which `DeviceCommandService` never
makes, is not modelled.

`Nodes` are processes that hold a `MiotDevice` for the same device and share a
stamp store; `Modes` are the environments: serial or overlapping callers, with or
without a store, datagrams that outlive their exchange, a device whose counter
moves by itself, and a device that is strict about stamps or not: the claim that a
stale packet is ignored is a comment of the code (MiotDevice.ts:147), so what the
stamp kept is worth is claimed of strict devices only. A device that obeys a stale
packet leaves a stale stamp behind, and the next command pays a handshake.

### PropertyPoller

`step` is where the tick is: "choosing" between targets, "asked" during
`getProperties`, "answered"/"failed" before the rest of `readDevice`. `due` is
the snapshot `dueDevices` takes. `timers` counts timeouts in the event loop and
`timerSet` is `_timer`: the handle stays set when its timeout fires, which is
what `EndTick` and `Stop` rely on. `told` is what `NotificationDispatchService.
receive` got last, the first step of the way to the consumer. `HandlersCall`,
`DeviceChanges`, `CommandRuns` and `CommandNotifies` are everything else that may
happen at an `await`.

### NotificationApi

`rpc[r]` is the `await` of the request in slot `r`. Storage calls are atomic
(one MongoDB document or one `deleteMany`), the handlers are not. `StorageFails`
is a rejected call, carried out or not; `Restart` loses everything in memory.
Acceptance of a property by the spec is a choice (`PostAccepted`, `Rejected`).

### CredentialCache

An acquisition is a promise: `FetchEnds`, then its `then` (`ThenStores`), then
its `finally` (`FinallyClears`), with other callbacks in between; a request that
waited continues later (`CredentialsArrive`, `CredentialsFail`,
`CredentialsRefused`). `Unauthorized` is the 401 branch of the response
interceptor: invalidate and replay. What axios does with a rejected request
interceptor (the rejection passes the response interceptors of the same chain) is
external. The two strategies differ in expiry only: `expires` is
`JwtSelfSignedStrategy`. `KubernetesServiceAccountStrategy` reads its file anew
for each request and has no state.

### DeviceStore

`pc[r]` is the `await` of request r. A POST discovers, checks, creates; a DELETE
finds the record, has its subscriptions deleted, deletes; a command (or a poll)
finds a record and, two awaits later, takes the instance of the device from the
registry. A record is known by the POST that made it. `rows` is the collection,
or what the file held when it was last written in full; while the file is not
"whole", whoever reads it fails. `MongoChanges` is one document operation whose
answer may be lost; `FileReads`, `WriteBegins`, `WriteEnds` are the steps of the
file backend, and `WriteEndsShort` is a write over something longer that somebody
else wrote since it began, whose end is left behind. `Restart` empties the
registry; a write that is cut short may leave the file unreadable for good.

Requests overlap as they like: nothing in the code keeps them apart. Two
registrations may both pass the check, and of two writers of the file one loses its
update or brings back what the other deleted. So the promise is about changes that
ran alone (`Alone`, from the history `met` of pairs under way at once): what such a
change did holds from then on, whatever others do to each other before and after
it; a device has two records only through registrations that met; and the file is
unreadable for good only after a write was cut short or changes met
(`LoneChangesHold`). `StaleOnlyByDeletion` bounds what a command may be sent to in
the same way; that it is the address of the record itself is what `sent_to_record`
refutes.

### ResiliencePolicy

`stage[c]` is where `execute` is for call c: "looping" at the head of the loop;
"waiting" and "released" inside a half-open breaker, behind another call's probe;
"queued" between `executeWithParentCancellation` and its microtask, "running"
while the function runs; "settled" until the breaker has counted the attempt
(`Judge`), "judged" before the loop goes on. `works` are the functions that still
run, whether or not anyone waits for them: an aggressive timeout and an abort
leave them running with an aborted signal. The breaker and the timeout are
cockatiel's, modelled from how they are configured and called here: whether a
failure opens a closed breaker (the sampled ratio) is a choice, what opens and
closes a half-open one is not. With an abort during the wait inside the breaker
nothing happens until the probe ends: packages/resilience/README.md says that
such a call "rejects immediately", which holds in flight and during the back-off
only.

### HealthProbes and Shutdown

An evaluation is a promise `e`: `phase[e]`, when it was `started`, the `result`
of each check. `inFlight`, `cached` and `cachedAt` are the registry's fields.
A `/ready` asks twice: `Probe`, then `TakeVerdict`, which asks again for the
report, then `TakeReport`. `kind[r]` chooses between `/ready` and the detail. The
clock `now` does not pass a deadline that is due; at `MaxTime` it stands for any
later time.

`at[h]` is where a run of the signal handler is ("draining", "stopping",
"flushing"), or of the handler of uncaught errors. `Rejects` is a teardown that
throws: nobody awaits the signal handler, so the rejection reaches the
`unhandledRejection` handler (`Unhandled`), which calls `platform.stop()` once
more, outside the guard and without a drain. `CleanTeardown` is therefore stated
as long as nothing crashes. A probe that passed the drain check before the drain
began may still answer 200 after it: nothing in the code promises otherwise.

### RouteDecorators and ApiAuth

A route is built as TypeScript builds it: decorators at the method first, nearest
outwards, then those at the class, which reach every method. `UseAuth` is how
Ts.ED merges the options of several. `QrCodeRoutes`, `CommandRoutes` and the
others are the routes the controllers serve; `RedirectController` has no guard.
`pc[r]` is where a request is; only fetching keys takes time. A credential says
what the verifier can tell about it, and which key really signed it. The key sets
are jose's, from how `RemoteJwksSource` configures them: one fetch at a time, a
cooldown, an age limit, a timeout. The provider publishes and retires keys, and
may never answer. The floor that auth.schema.ts:51 promises between two fetches is
not claimed: with an expired set, and after a fetch that failed, the next token
fetches at once.

### MqttBridge

`boot` is the start of the provider, which gives up after `MAX_STARTUP_ERRORS`
and otherwise never; `connected`, `asked` and `subscribed` are the link. A SUBSCRIBE
is granted (`Subscribed`) or refused (`SubscribeFails`); the code logs a refusal and
stays connected, healthy and deaf until it connects again, so `NeverDeaf` excuses the
connection whose own SUBSCRIBE was refused (`Denied`), and no later one. Publishes
are one queue (`outbox`, `sent`), kept in order and sent again after a loss until
acknowledged, as mqtt.js does with QoS 1; `seen` is what consumers got. `at[c]` is
where a command message is. HTTP notifications (`posts`) go out without waiting
and in any order.

### DeviceCommands

`services` is a published spec, `overrides` the rows of its model, which come and
go at any `await`; `Entries` and `Tables` are what the mapper makes of them. A call resolves its
keys against the table it has read, is turned into packets that know instance ids
only, and maps the answers back. The mapper awaits between two insertions, so of
published properties with one key any may be the last.

### Exchange

One call of `MiotTransport` below `MiotDevice`: a socket of its own, a timer, and
four callbacks that race. MD5 and AES are constructors: a body opens under the
token it was sealed with. The network loses, delays, damages and cuts datagrams; it
does not duplicate them in this module. Each exchange has its own port; the device
answers the socket it heard. `said` is what the device answered, packet by packet;
`VerdictIsTrue` compares the value, the code and, for a bulk read, the sequence of all
items (`Collected`) with it.

### HttpProvider

The chain of interceptors a request passes, and passes again inside itself on the
replay of a 401; the client and the breaker of a key, built when first asked for;
what health reads of the breaker. Credentials are CredentialCache's and concurrent
calls of one policy ResiliencePolicy's; here an attempt ends in one of their ways.
`toHttpException` knows two names for the end of an attempt: the policy's own timeout
("timeout", cockatiel's `TaskCancelledError`) is a 504; a request given up by its
caller ("canceled", axios's `CanceledError`) is not, and becomes a 502. A pass whose
entry has no `resilience` has neither breaker nor timeout (`Occurs`).

### Telemetry

`ctx[a]` is the stack of what an activity is inside of (Node's
`AsyncLocalStorage`), `spans` what was exported, `unseen` the kinds of events no
instrument counted. Ticks are sampled, messages continue their sender's trace. The
comment that "a tick with a failing device is always traced"
(DevicePropertyPollerService.ts:317) holds of devices that failed before and are
due: the tick in which a device fails for the first time was sampled before.

### UiSession, ApiStatus, QrCodes

One tab: page loads lose everything but the flags in session storage, which may be
blocked; the clock of the machine may be wrong. Whether the provider waits for a
callback is decided by the address that was loaded (`IsHandlingCallback`), whether
there is a callback page by its route (`Where`): an address of the app with a code or an
error in its query makes the provider wait for nobody, and so does the logo
(`HomeLink`) when it is followed from a callback page that failed. Such a tab is
`Stranded` until the next page load. Following the logo while the code is still being
traded, and what StrictMode does in development, are not modelled.

In ApiStatus `setStatus` only asks for a render, and the effect that
owns the probe runs when the rendered status has changed. In QrCodes a request to
the database takes effect or not, and its answer may be lost either way; `toggled`
remembers what each code was last asked to be. `CodesSound` does not say that the scan
of an active, stored code does redirect.

### RadarMap and Dashboard

Degrees are in ten-thousandths and kilometres in tenths, so that the rounding is
the code's; `KmWide` and `KmHigh` are the extent of the map. A negative radius
gives no pixel and no colour, as in the code. The table of cities is the code's own,
because `MapTellsTheRadar` is about it: a city mistyped off the map has no dot, and that
no city is can be told from the real coordinates only. The default branch of the layers is
behind a validated enumeration and never reached. `Target` and `FindAnchors` of
Dashboard are the maps of `parseDns.ts`, in which the last of equal entries wins. A
tile is known by the place of its record in the controller's list, so that two equal
records are two tiles.

## 3. Runs

All runs state their bounds in the `.cfg`. Parts that share no state but belong
together are checked in one run: its MC module starts a behaviour in one part and
lets the others rest, so that the run's size is the sum of theirs, not the product.

| run | instance | what it shows |
|---|---|---|
| `device` | 2 calls, 2 processes, up to 2 packets per call, stamps 0..3, the environments of `MCModes` | the properties of MiotDevice, and that it implements `RemoteCommand` |
| `poller` | 2 devices, 1 property, 2 values, back-off after 2 errors for 2 cycles, 3 outside changes | the properties of the poller, liveness included |
| `notification_api` | 1 device, 2 properties, 2 slots, 3 requests, 3 documents, 1 crash | cache and storage, the deletion of a device |
| `http_requests` | credentials: 3 requests without expiry, 2 with a refusing endpoint, 2 with expiring tokens, clock 0..3; policy: 2 calls, four configurations of retry, breaker and timeout | the epochs; cancellation, time-outs and retries around a shared breaker |
| `health_shutdown` | 2 probes, 2 checks (one critical), TTL and deadline of 1, clock 0..2, 2 signals, 1 uncaught error; three mixes of them | single flight, staleness, one teardown, everything ends |
| `entrances` | requests: 2, to the routes the APIs serve and to every other combination of decorators, 2 keys, clock 0..3; messages: 2 commands and a poll, 1 loss of the link, three configurations | who gets in, and that whoever asks is answered |
| `bridge_parts` | devices: 3 registrations of 2 devices at 2 addresses, 2 deletions, 2 commands, all of which may overlap, both backends; telemetry: 2 devices, one message; commands: specs with names used twice, 4 override rows; exchange: 1 call of up to 2 packets; clients: one with everything configured, one plain | the parts of the bridge below its entrances |
| `applications` | a tab; a status; 2 administrators, 2 codes, 2 slugs; a dashboard with up to 7 records; a map with images of up to 4 x 3 pixels | the UIs and the small APIs |
| `single_retry` | violation | a sentence of a package README the code does not keep |
| `sent_to_record` | violation | a doc comment the code does not keep |
| `evaluated_once` | violation | a doc comment the code does not keep |
| `dashboard_comes_back` | violation | a comment the code does not keep |

Why the bounds are enough for what the runs ask: two calls are what it takes to
share a stamp, and every property of MiotDevice speaks of one call and those it
overlaps with; with stamps up to 3 the overflow happens; two packets have a first
and a last. One device that is dead and one that is not is what starvation takes;
back-off of 2 after 2 separates the first error from the limit. Two slots make
any pair of handlers overlap, with three requests one can prepare what two fight
over. Three requests make one that starts, one that joins and one whose late
answer invalidates. Two calls of a policy make a probe and one that waits for it;
one retry separates the first attempt from the last. Two probes make one that
starts an evaluation and one that joins, finds it kept, or finds it stale; TTL and
deadline of 1 on a clock up to 2 put a moment before, at and after each limit.
Two requests make one that starts a fetch of keys and one that finds it under way;
with two keys one is old and one unknown. Two commands overtake each other; one
loss of the link cuts between any two steps. Three registrations make a device
that comes back at another address and another device; every order of the steps of all
registrations and deletions is there, and, with two registrations of one device and
one deletion, of these with two commands. Two slugs for two administrators make every
collision, and with two attempts (the code has five) the last one happens. Two
futile renewals are the code's own limit. The records of the dashboard hold two
servers, one with two addresses, one address shared, both orders, both cases. The
images have a pixel lit at an edge and in a corner, and one has no alpha channel.

`CHECK_DEADLOCK FALSE`: calls and requests are made once, outside changes are
bounded, and the poller may be destroyed, so each system really comes to rest.

The four violations:

* "The automatic single retry on a 401": when the *token endpoint* answers 401,
  the interceptor marks and replays the token request through the provider, whose
  request interceptor asks for a new token, and so on.
* `MiotDeviceRegistry.remove` "should be called when a device is deleted"; nothing
  calls it. A device registered again at another address is commanded at the old
  one.
* `HealthCheckService.evaluate` "evaluates every check once". It evaluates twice,
  and when the kept result expires in between `/ready` answers 200 with status
  fail or 503 with status pass.
* The dashboard "polls to notice the controller coming back". It does, and takes
  the banner away; but nothing loads the records, so the tiles stay away too.

Limits of the code that the properties are stated around, and no run is spent on:

* A reading in flight when its property is unsubscribed writes the last value back
  after it was cleared, so that the next first reading may go unreported
  (`removeSubscription` says "a fresh read is treated as first observation").
* Storage has a document per subscription, the poller's cache a set of keys:
  subscribing a property twice and deleting one document removes the key. And
  two requests for one subscription may overlap. `StorageLeads` and
  `DeletedDeviceLeftAlone` are therefore stated for requests that do not
  (`serving.exclusive`), and equality only when nothing is subscribed twice.
* With `dispatchOnChange`, observations of commands bypass `_lastValues`;
  `ConsumerCatchesUp` leaves that combination out.
* A replay that fails is translated twice: the `origin` of the exception is then
  another exception, not the answer, and a circuit that is open on the replay, or a
  timeout of it, is told as a 502. `FailureNamesItsCause` says so: the logged failure is
  two origins down. The README of tsed-http-provider (lines 142-143) has 503 and 504
  without this exception, and 504 for "Timeout or cancellation", while a cancellation by
  the caller is a 502.
* A bulk read and an action are reported as done although the device refused them with
  a code; `DoneMeansJudged` claims what is left.
* Overlapping changes of devices lose each other's updates and register a device twice;
  `LoneChangesHold` claims that the harm stops there.
* A refused SUBSCRIBE leaves the bridge deaf, connected and healthy until the next
  connection; `NeverDeaf` excludes that connection.
* A tab stranded as in section 2 loads until the next page load; `NoLimbo` excludes it,
  and a user who reloads again and again before anything settles.
* A rejected API key raises a banner, because 401 and 403 classify as
  "unauthorized"; unifi.ts:45 says they "classify as client-error, so the outage
  banner stays down".
* A recovery that is overtaken by an answer of the app before it was rendered stops
  the probe; `Recovers` excludes it (`overtaken`).
* A probe that passed the drain check before the drain began may answer 200 after.
* A teardown that rejects is followed by a second one (`index.ts`, `unhandledRejection`);
  `CleanTeardown` is claimed while nothing crashes.
* HTTP notifications are lost when their request fails, and may overtake each
  other: `MqttConsumerCurrent` speaks of MQTT consumers.

## 4. Fairness and assumptions

Only what the runtime gives. In MiotDevice each call's own steps and the stamp
store's answers are weakly fair: Node.js runs a due timer or a settled promise
sooner or later, every exchange has a timer (`MIOT_TIMEOUT_MS`), and a store call
answers or rejects. Nothing is assumed of the device or the network. In the
poller the steps of the tick are weakly fair, its readings because MiotDevice's
calls end (`CallSettles`); handlers, devices and shutdown are not. In
NotificationApi storage answers or rejects every call. In CredentialCache
settled promises continue and every HTTP exchange ends, by an answer or by the
provider's timeout, which covers the token request too (`createAuthClient`); a
provider without `resilience` has no such timeout, and there a hanging token
request hangs every request of its epoch. In ResiliencePolicy the event loop,
timers and settled promises continue each call (`Own`); the wrapped function need
not end, so `CallSettles` is claimed where a timeout is configured. In Shutdown
time passes, deadlines of checks fire, settled promises continue the probes, the
drain ends and the hard deadline fires; checks, `platform.stop()` and the flush
may hang, so a shutdown is claimed to end where a hard deadline is configured, as
in all three APIs.

In ApiAuth a request proceeds, and a fetch of keys that is not answered fails by
its timeout (`FetchFails`); the provider owes nothing. In MqttBridge mqtt.js
reconnects for ever, the broker grants or refuses a SUBSCRIBE and acknowledges what
arrives while the link holds, and a device command ends (`CallSettles` of
MiotDevice); the link may be lost a bounded number of times. In UiSession the
provider answers a redirect and the exchange of the code ends; users and the clock
owe nothing. In ApiStatus React renders what was asked for, the timer of the probe
fires while the tab is visible, and a probe ends (the proxy in front of the
controller times out). `Recovers` is about a screen nobody touches: the backend
stays up, the tab in view, and the app asks nothing more. In QrCodes a request ends.
In Dashboard the first load is begun by an effect and ends. DeviceStore, Telemetry,
DeviceCommands, Exchange, HttpProvider and RadarMap state no liveness.

Assumed of third parties, where the modules say external: Ts.ED's merging of
options, jose, mqtt.js and the broker, cockatiel, axios, the OIDC client library
and provider, React (microtasks and navigation before effects), the OpenTelemetry
SDK, MongoDB (one document operation is atomic), sharp and the weather service.
The check of a signature takes no time; readings of a tick's devices come in any
order.

## 5. Proofs

`MiotDeviceProofs` (any numbers of calls, processes and packets, any stamp
limit). The inductive invariant adds to the type that the packets of a call that
are answered before the current one were judged in the current attempt, that
an answer waiting at a socket belongs to the packet the call is at, and that every
packet on the way belongs to an attempt the call has reached. `DoneMeansJudged`
is not inductive alone: it needs to know what an "ok" at the socket says, which for a
bulk read and an action includes a refusal with a code.
`Implements` is a step simulation: every step maps to one step of `RemoteCommand`
or to a stutter.

`RetriesSound` needs `ExecInv` on top: what was judged of a call belongs to an
attempt it has begun and is not ahead of the packet it waits for, so the packet sent
next was not judged in its attempt. `StampsSound` needs `StampInv`, for one user
at a time and a strict device without strays: whoever moves, the others rest
(`Sole`), only the packet the call waits for is on the wire (`WireInv`), the stamp
of the call fits its stage (`StampOK`), and once a command was done the kept stamp
is not behind (`KeptInv`).

`PropertyPollerProofs` (any devices, properties and limits). The invariant ties
`timers` to the phase, `timerSet` and whether a tick runs, and the back-off
counters to the snapshot of the running tick: a device enters back-off only in
the step that ends its reading, when it is in the snapshot no more. `LoopSound`
is the conjunction.

`NotificationApiProofs` (any devices, properties, documents and requests, storage
that fails in either way, crashes). `StorageIsAhead` is proved under
`serving.exclusive`. The invariant has parts for the type (`Typed`), the identity
of documents (`IdInv`), what each `await` of a handler knows of storage and cache
(`StageOK`), that requests keep off each other's subscriptions (`Apart`), that a
subscription has one document where duplicates are excluded (`NoDuplicates`), how
cache and storage may differ while a request is on its way (`CacheInv`,
`StorageInv`), and a deleted device (`GoneInv`). One lemma per handler step shows
that what other requests know is not disturbed, another that its own stage fits.

`HttpRequestsProofs`, credentials (any number of requests, lifetimes, and bounds):
the invariant says that no epoch is ahead of the cache's, that the slot names an open
acquisition of its epoch, that the open acquisition of the current epoch is in
the slot (hence there is at most one), and that a cached token expires no later
than its lifetime plus the buffer after its signing. `CredentialsSound` and
`UsedInTime` follow.

`HttpRequestsProofs`, policy (any number of calls, any configurations): the invariant
ties each call's stage to what runs for it: older attempts of a call have expired
or were aborted before the next one starts, a queued microtask belongs to the
current attempt, and a half-open breaker names one probe that is under way, for
which every waiting call waits. `ProbeAwaited` is what makes the wait inside the
breaker end. `NoOrphanWork` and `CancellationSound` follow.

`ShutdownProofs` (any requests, checks, signals, TTL and deadline). The invariant
relates the registry's slot to the evaluation that runs, the age of the kept
result to the start of its checks (an evaluation does not outlive the deadline,
because the clock does not pass it), the one run of the signal handler to the
guard, and an armed deadline to a run that is not over. `ProbesSound` and
`TeardownSound` follow.

`EntrancesProofs`, requests (any routes under an `@Authenticate`, any credentials,
keys and limits). First what a stack of decorators leaves behind, for stacks of any
length: `UseAuth` merges the options decorator by decorator, so `RouteKept` is proved
by induction over the stack, a set of positions at a time (`SetInduction`). It says
that the guard reads what the decorators ask for and that the document says the same
(`DocumentedAsGuarded`). Then the requests: `KeysInv` says how old a fetched key set
may be compared with when its keys were published and retired; `RequestInv` what each
verdict so far is worth, and that the failures recorded are those of the verifiers
already tried. `AdmittedSoundly` and `GoodTokenNotBlamed` follow when the last verdict
is folded into an answer.

`EntrancesProofs`, messages (any commands and losses of the link). The broker has
received what went out over this connection (`SentSeen`), a command that was carried
out has its notification queued or received (`DoneTold`), and in the queue and at the
broker an answer that tells a value comes after its notification (`OutboxInOrder`,
`SeenInOrder`), which a loss of the link and a second transmission keep.
`NotifiedBeforeAnswered` is the last of them where someone listens.

`BridgePartsProofs` has a part for each of five modules.

* `Exchange` (any ids, codes, properties and stamps). The stamps of the packets the
  device has understood rise (`Rising`); a packet on its way is ahead of all that, and
  while its socket is open it is the one the call sends now (`OnTheWay`, `Socket`,
  `CallUnderWay`), and what a bulk read has collected is what the device had answered
  when it was sent; a datagram on its way back is what the device said to that packet, or
  the work of a fault on record (`Truthful`, `Heard`); a promise that resolved has what
  the device said last (`Resolved`). `VerdictIsTrue` is part of the invariant.
* `DeviceStore` (any requests, devices, addresses, nothing kept apart). Changes that are
  under way at once have met (`Meetings`); the stored list, and every list a change of the
  file has read, keeps what lone changes did (`Keeps`, `Lists`), because a list that was
  read before a lone change ended belongs to somebody it met; what a lone registration
  found free is free when it stores (`Free`); in MongoDB a second record comes only from a
  registration that met the first (`Met`); a file that is not whole is being written, was
  cut short, or was written by changes that met (`FileKept`). `LoneChangesHold` and
  `StaleOnlyByDeletion` follow.
* `DeviceCommands` (any specification, any rows). A call carries the table it resolved
  its keys in, a mapping of the rows it read, whatever became of the rows since
  (`CallFits`); the packets it has sent are those of its keys in their order, and every
  item answered so far has the value of its own property (`Progress`). That the
  youngest row decides a key needs a youngest row to exist: every set of positions has
  a greatest, by well-founded induction.
* `HttpProvider` (any entries and statuses). Attempts made and attempts left add up to
  the budget of a pass (`Budget`); what a request has logged so far tells which pass
  it is in (`LoggedSoFar`): nothing in the first, the line of the 401 in the replay; a client
  gets its translation once and keeps the breaker it was built with (`ClientsInv`).
* `Telemetry` (any devices and messages, any interval). Every context an activity is
  inside of has that activity's trace, or is suppressed, exactly when its tick was
  sampled out (`StackInv`); the job, and only it, is at the bottom of its tick's stack
  (`TickInv`); instruments belong to the provider they are kept for and no event is
  unseen (`CountInv`); while the SDK runs, the spans of an activity are those of the
  work it was told of (`SpanInv`).

`ApplicationsProofs` (any places and clock errors; any administrators, codes, slugs and
attempts). Of a session: every redirect is the first, or paid for by a renewal that is
counted (`Counted`); signing out leads back to an app that does not ask again
(`SignedOut`); the address sent along is the user's place or where that leads
(`Returning`). Of codes: no two documents share a slug (`SlugsApart`), the label's
document, as long as it is stored, has the slug that was printed (`LabelTrue`). Of the
dashboard, for any list of records: the tiles are those of the list that was loaded,
and an anchor that the maps find is one the record leads to (`TargetLeads`); that the
last of equal entries exists is well-founded induction on its position (`LastOf`).

Of the map feeder, for any composites, radii and surfaces: an answer is that of the
composite still published for the five minutes of the request (`MapInv`); every sample
is read where the picture has it (`DecodedPicture`); the square cut off at the edges is
what lies near the city, `Near` of the specification (`SquareIsNear`). A colour is the
quotient of a sum over that square, defined by recursion on sets. That the recursion
has a solution (`TotalUnwinds`) and that the sum lies between as many of its least as of
its greatest element (`TotalBounds`) is shown by induction on a set of numbers
(`SetInduction`), which needs no operator as a parameter; that rounding does not leave
these bounds is `MeanBetween`. All 72 cities are so far from the right and lower edges
that rounding keeps their dots on a surface of 3 by 4 pixels or more
(`PositionOnSurface`), and their squares bound the red pixels (`DotsBounded`).

The assumptions are the named `ASSUME`s of the modules, which TLC evaluates in the
runs. Most say that numbers are numbers and that `None` is nothing else. Six say more.
`DashAssumption` gives every record a known name and address. `MapAssumption` says that a
decoded picture has a pixel in every row of every column, each of as many samples, and
that the surface layer, of hundreds of pixels in the service, has 3 by 4 at least.
`StoreAssumption` gives every request its kind, device and address. `SessionAssumption`
says that the callback route and addresses under it are nothing to return to
(`Unsafe`), and that the home page carries no code. `ConfigAssumption`
says that every method trusts at least one issuer, as auth.schema.ts:134 demands.
`RouteAssumption` says that every guarded route is under an `@Authenticate` and that
`@Anonymous`, a decorator of methods, is the nearest, as at the one route that has it.

## 6. Only model-checked, and not modelled

Model-checked only, because this prover has no liveness under fairness:
`CallSettles` of MiotDevice and of ResiliencePolicy, `PolledAgain`,
`ConsumerCatchesUp`, `DeletedDeviceLeftAlone`, `RequestSettles`, `EverythingEnds`,
`EveryRequestAnswered`, `NeverDeaf`, `EveryCommandAnswered`, `MqttConsumerCurrent`,
`NoLimbo`, `Recovers`, `CreateSettles`. Every safety invariant that a run checks is
stated by a theorem.

Induction over the positions of one sequence or the size of one set, which `RouteKept`,
the youngest row and the mean of a colour need, is within reach: it is well-founded
induction on a set, without an operator as a parameter.

Not modelled, with reasons:

* `MiotSpecV2Mapper`, response models, read-only handlers, listing: copies of data
  without state.
* The JSON file of notifications: the shape of the device file in `DeviceStore`.
* `update` and `writeAll` of the device storage: nothing calls them.
* The presets of `ResiliencePolicyFactory`, templates and extraction of token
  requests, `KubernetesServiceAccountStrategy`: configuration and stateless reads.
* AES and MD5, image decoding, exporters, browsers: libraries.
* Rendering, styling, the UI kit, search, nginx, build and deployment files.
