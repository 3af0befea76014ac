# A verification project for the Omniverse streaming portal

The portal lets users start, watch and end streaming sessions of Omniverse Kit
applications that run in NVIDIA Cloud Functions (NVCF). It has a backend
(`backend/app`, Python, FastAPI, Tortoise ORM) and a web client (`web/src`, React).
This directory holds TLA+ modules that model the parts with state and concurrency,
the configurations that check them with TLC, and proofs checked by TLAPS.

## 1. The system

Everything in the backend runs in one process on one asyncio event loop. A task runs
without interruption between two `await`s, and any other task may run at an `await`.
The state is the database (SQLite by default), a few dictionaries in memory, and what
each suspended task holds in its local variables. What a task read before an `await` may
be out of date when it uses it: that is where nearly all of the hard behaviours are.

| Component | Source | State it keeps | Operations | What makes it correct |
|---|---|---|---|---|
| Session lifecycle | `routers/sessions.py` | session table; `session_websockets`; local state of the websocket handlers, of `end_session` and of the watchers | `start_stream`, `connect_to_stream`, `stop_stream`, `terminate_session`, `check_session`, `update_session`, three watchers | the registry and the gauge agree with the handlers that exist; no row is left CONNECTING or ACTIVE for good; quota; sessions end at their limits; a client's report survives |
| Start-up, shutdown | `main.py` | the watcher tasks | `configure_api`, `watcher_task_done` | a restart leaves a database the next process can go on from |
| Settings, API keys | `settings.py`, `api_keys.py` | values, last content read | reading a file again every `watch_interval` | the values converge to the file; no content lifts the limit on sessions |
| Application catalogue | `routers/apps.py`, `nvcf.py` | application table, NVCF caches | publish, delete, list with status | how old a status that is shown can be; the answer to a publication is newer than the publication |
| Pages | `routers/pages.py` | page table | `get_pages`, `set_pages` | what overlapping updates leave is made of the lists sent |
| Backend authentication | `auth.py` | JWKS, OpenID and group caches | token validation, groups | stateless but for the caches |
| MCP broker | `mcp/oauth.py` | login transactions, codes, tokens (tables shared by replicas) | authorize, callback, exchange, refresh, revoke, purge | a grant is spent before a new one exists; a login has one; what the client holds works; expired rows disappear |
| Observability | `observability/metrics.py` | counters and gauges | active sessions, ended sessions | counts match the events |
| Portal authentication (web) | `providers/AuthProvider.tsx`, `util/tokenRenewal.ts`, `components/Header.tsx` | user in storage and cookies shared by tabs, a copy and a timer in each tab, a cross-tab lock | sign in, renew, log out | one renewal per token; no tab puts an older token back; logging out reaches all tabs |
| Streaming client (web) | `hooks/useStream.ts`, `useStreamStart.tsx`, `pages/AppStream.tsx`, `AppStreamList.tsx` | connection, retries, latest error | list, start, connect, terminate, report errors | no second session in place of a running one; the page settles; the backend hears of the last error |
| Logout (web) | `components/LogoutDialog.tsx`, `state/Sessions.ts` | listing, calls in flight, countdown | end all sessions, log out | every session of the user has ended before the tokens go |
| Storage API authentication (web) | `hooks/useStorageApiAuth.ts`, `storageApi/auth` | discovery URLs, tokens, what was sent to the stream | sign in, renew, send to the stream | the stream gets the newest token |
| Not modelled | `routers/deployment.py`, `routers/users.py`, `mcp/server.py`, presentation, Helm charts, scripts, migrations, `web/vendor` | none, generated or vendored | | |

How they interact: the web client calls the backend over HTTP and opens one websocket
per stream; the websocket handler relays it to NVCF. Requests and watchers reach a
running handler only through `session_websockets` (they close the client's websocket,
which ends the handler's consumer) and through the session's row, which every task reads
and writes without locks. The exception is `start_stream`, which holds a transaction
during its call to NVCF; on SQLite that blocks every other statement of the process.
`session_ttl`, which `ConfigWatch` shows to be bounded, is what `watch_session_timeout`
of `SessionLifecycle` enforces. `LogoutDialog` sees a session through the lifetimes of
`SessionLifetimes` (it runs, it has ended, it may be revived, it is purged), which
`SessionLifecycle` is proved to implement, and tells what NVCF runs from what the table says;
`StreamClient` knows only sessions that run and sessions that have ended, and leaves `Revive`
out. `LogoutDialog` ends where `PortalAuth`'s `LogOut` begins.

The hard behaviours of each component, at the line where they bite, are the list
`hazards` of `PROJECT.json`; the properties below answer them.

## 2. The modules

| Module | Contents |
|---|---|
| `SessionLifecycle` | the sessions one user starts of one application: state, actions, fairness |
| `SessionProperties` | what the backend promises about them, and what comments and documents say that the code does not keep |
| `SessionLifetimes` | abstract specification: how long a session lives and who may bring it back; `SessionProperties!Lifetimes` is the refinement mapping |
| `ConfigWatch` | the settings file and the API keys file, and the loops that read them again |
| `Catalog` | the application catalogue with the two NVCF caches, and the page table |
| `McpBroker` | the OAuth broker for MCP clients, from login to purge |
| `PortalAuth` | the portal's user in several browser tabs |
| `LogoutDialog` | "Log out & end all sessions" and the endpoints it calls |
| `StreamClient` | one tab that lists, starts, streams and terminates sessions |
| `MCSession`, `MCConfig`, `MCCatalog`, `MCMcp`, `MCPortal`, `MCLogout`, `MCStream` | instances for TLC, with the configurations of the same prefix |
| `SessionProofs`, `SessionLifetimesProofs` | theorems about the lifecycle, and that it implements `SessionLifetimes` |
| `ConfigProofs`, `CatalogProofs`, `BrokerProofs`, `PortalProofs`, `LogoutProofs`, `StreamProofs` | theorems about the module each extends |

In all of them one action is what a task does between two awaits, all of it; what it read
before an await is in its own record (`conn`, `ender`, `req`, `task`, `job`, `call`, `tab`).
Definitions whose name ends in `Bug` are not part of a model. Each is its
successor with a plausible mistake (a dropped guard, a forgotten reset, a wrong
condition) and shows that some property would notice it.

### State and actions of `SessionLifecycle`

`row[s]` is the session's row with the columns the code decides on (`status`, `error`,
`start_date`, `end_date`; `duration` is derived). `ABSENT` and `PURGED` are not statuses
of the code: they stand for no row yet and no row any more. `registry` is
`session_websockets`. `conn[c]` is one run of `connect_to_stream`: how far it has got,
the session it loaded and whether its websocket is open. `ender[e]` is one run of
`end_session` for a request, or for the watcher `watch_session_timeout`. `expiry`, `idle` and
`checks` are rows a watcher or `check_session` read and will write later, each with the
final status chosen when it was read. `gauge` and `ends` are the metrics. `nvcf[s]` says
whether NVCF runs the session and `now` is the clock; both are external.

| Code | Actions |
|---|---|
| `start_stream` | `StartStream` (transaction opened, sessions counted), `PostAccepted` (row inserted), `PostFails` |
| `connect_to_stream` | `LoadSession`, `RegisterWebsocket` / `ApplicationGone`, `SaveConnecting`, `DialAccepted` / `DialRejected` / `DialBreaks`, `SaveActive`, five ways the streaming section ends (`ClientDisconnects`, `UpstreamCloses`, `UpstreamAborts`, `ClosedByApi`, `ConsumerRaises`), `SaveIdle`, `SaveFailed`, `RecordUpstreamError`, `PopWebsocket` |
| `stop_stream`, `terminate_session` | `RequestEnd`, then `end_session` |
| `end_session` | `DeleteOk` / `DeleteNotFound` / `DeleteRefused` / `DeleteTimesOut` / `DeleteBreaks`, `CloseWebsocket`, `SaveEnded` |
| `watch_session_timeout` | `TimeoutScan`, `TimeoutNext`, then `end_session` |
| `watch_idle_sessions`, `watch_session_data_purge` | `IdleScan`, `IdleExpire`; `Purge` |
| `check_session`, `update_session` | `CheckSession`, `CheckExpire`; `UpdateSession` |
| `main.py` | `Restart`; `Raised` (what is left of a task that raised) |

Points a reader of the code may want to check:

* `save(update_fields=...)` writes the named columns only, and does nothing to a row that
  has been purged (`Save`).
* A DELETE that NVCF refuses or does not know is followed by the same save as one that
  succeeded, but only a 200 closes the websocket.
* `connect_to_stream` reads the row, then its application by a second query, and only then looks at
  the status it has read and enters the registry (`sessions.py:507` to 539): hence `LoadSession` and
  `RegisterWebsocket`. A session may end between the two.
* When `end_session` closes the websocket, a handler that is reading from it gets
  `WebSocketDisconnect` with code 3010 and saves nothing (`ClosedByApi`); one that starts to read later
  gets a `RuntimeError`, keeps code 1000 and saves IDLE (`ConsumerRaises`). Hence the two values
  `closed` and `closedEarly` of `sock`. A handler that is sending to NVCF at that moment gets the
  `RuntimeError` too; what it does then is what `UpstreamCloses` does. A close of a websocket that is closed already raises;
  the handler guards against that (line 748), `end_session` does not.
* The two queries of `watch_idle_sessions` are one step; rows that change between them
  would only be missed until the next round. The two queries behind `update_session` are one
  step too: the value written does not depend on what was read.
* `Statuses` lacks `ALIVE`, which is never stored.

One user and one application: the quota is per user and application, and nothing else
relates sessions to each other. Sessions of other users and checks of
ownership and cookies (which answer before any change) are left out, as are contents of
messages and the relay of stream data. Failures of the database and clients that close
with a code of their own between 3000 and 3999 are not modelled.
`SerialDB = FALSE` stands for a database where `in_transaction` blocks nobody.

`SessionLifetimes` keeps of all this a phase for each session and the handlers that serve it.
Its `Revive` is the known defect described under "What the code does not keep": it needs a
handler that still serves the session, so a session that has ended and has lost its last
handler never runs again.

### `ConfigWatch`

| Code | Actions |
|---|---|
| `Settings.listen`, `read`, `validate` | `SettingsPoll` |
| `ApiKeys.listen`, `_load_keys` | `KeysListen`, `KeysPoll`, `KeysLoad`, `KeysGone` |
| import of both modules, restart | `Boot`, `Stop` |
| whoever writes the files (external) | `Write` |

A content of a file is its kind (can be parsed, cannot, is not text, is missing) and the
few values that decide something: one setting `validate` insists on and `session_ttl`. A round of
`Settings.listen` reads once; a round of `ApiKeys.listen` reads twice, so it is two steps: no
await lies between the reads, but the file belongs to others, who write when they like. `raced`
remembers that a write came between two reads of the keys file that have to agree.

### `Catalog`

| Code | Actions |
|---|---|
| `get_apps`, `get_app_info`, `publish_app`, `delete_app` | `Arrive`, `QueryAnswers`, `QueryFails`, `Publish`, `Delete` |
| `asyncache.cached` around the two calls of `nvcf.py` | `Hit`, `Miss`, `Store` |
| NVCF (external) | `NvcfLooks`, `CallBreaks` |
| `set_pages` | `DeletePages`, `PutPage`, `PagesDone`, `PagesFail` |

A status is the time at which NVCF looked: what a cache can get wrong is its age. `asyncache`
takes no lock, so any number of requests miss at the same time and each stores what it got.
`get_apps` and `get_app_info` gather a query with the call to NVCF, and answer when both are there. On
SQLite the query waits for the transaction that `start_stream` holds during its POST, so a status may
grow old in the hands of the request that asked for it (`query`, "gathering").
`set_pages` is a DELETE of all rows and one INSERT for each page, in separate statements.

### `McpBroker`

| Code | Actions |
|---|---|
| `authorize` | `Authorize` |
| `complete_authorization` | `LoadTransaction`, `DeleteTransaction`, `ExchangeUpstream`, `MintCode` |
| `load_authorization_code`, `load_refresh_token`, `exchange_*`, `_issue_tokens` | `LoadGrant`, `SpendGrant`, `IssueAccess`, `IssueRefresh` |
| `load_access_token`, `revoke_token` | `RefuseAccess`, `Revoke` |
| `watch_mcp_data_purge`, `purge_expired` | `PurgeBegins`, `PurgeStep`, `PurgeDies`, `PurgeRestarts` |
| a failing statement, a replica that ends | `TaskFails` |

Each statement is a step of its own, because the code opens no transaction and replicas share
the tables. Rows carry the name of the grant they were made from (`from`), which the code does
not store: the properties are about it. The MCP library's checks of expiry and of
`client_id`, which come between the load and the exchange, are external.

### `PortalAuth`

| Code | Actions |
|---|---|
| `AuthProvider`, `CookieSync`, `AuthRequired` | `OpenPage`, `ReadUser`, `Initialised`, `RunEffects`, `SilentSignIn`, `SilentSignInFails`, `Leave`, `Return`, `SignedIn` |
| `renewTokenWithLock` | `Expiring`, `Renew`, `RenewFails`, `CooldownEnds` |
| messages of the channel | `HearRenewal`, `HearLogout` |
| `logOut` of `Header.tsx` | `LogOut`, `SignOut`, `SignOutFails` |
| the user | `Close` |

`RunEffects` are the effects that depend on what `useAuth` returns. They run after a change of the user
and may run again at any render, because nothing in these sources says that the library's context value
stays the same; `AuthProvider` itself renders on every navigation (`AuthProvider.tsx:51`).
A user is the number of its tokens, which only grows. Four places hold one: the storage, the
cookies, React's state and the timer of the library. The model assumes that the cooldown of the
lock is long enough for a message to arrive, that tokens live longer than the cooldown, and
that a page reads its user within the second the library's timer takes at least.

### `LogoutDialog`

| Code | Actions |
|---|---|
| `getOwnAliveSessions`, `get_sessions` | `EndSessions`, `CountRows`, `ReadPage`, `ListFails` |
| `terminateOwnSessions`, `terminate_session` | `Ask`, `Receive`, `Deleted`, `Refused`, `NoAnswer`, `NotSent` |
| the dialog's success, countdown and buttons | `AllSettled`, `Countdown`, `Elapsed`, `ClickLogOut`, `RemoveUser` |
| other tabs, watchers and handlers | `EndsElsewhere`, `MarkedElsewhere`, `GoneElsewhere`, `Revive`, `StartsElsewhere`, `Purge` |

`get_sessions` counts in one query and reads a page by offset in another. `shifted` remembers
that rows changed places meanwhile. Others may end a session in NVCF and in the table, in the table only (a
DELETE that NVCF refuses, and `watch_idle_sessions`, which sends none) or in NVCF only, and a handler may write over
the end of a row; `leftover` and `revived` are the sessions this has happened to.

### `StreamClient`

| Code | Actions |
|---|---|
| `AppStreamList.tsx` | `OpenApp`, `ListSessions`, `ListEffect`, `NewSession`, `Reconnect` |
| `useStreamStart.tsx`, `startSession` and its retries | `Post`, `Answer`, `Leave`, `ReloadAfterStart` |
| `connect()` of `useStream.ts` | `Check`, `Connect`, `OnStart`, `PlayRefused`, `OnStop` |
| `AppStream.tsx` | `Reload`, `StartNewSession`, `Terminate`, `Terminated` |
| `reportSessionError`, `update_session` | `Report` |
| the backend, `AuthRequired.tsx` | `EndSession`; `SignOut`, `SignIn` |

`flow` is where `connect()` is and each `call` is a handler that is starting or terminating
a session. They outlive the page when the router navigates, and end when the browser loads another one
(`HardLoad`), where a POST on its way may or may not arrive. `AppStreamer` is external. Signing out
unmounts the page, since `AuthRequired` renders nothing without a user; the effect at `AppStream.tsx:187`, which
would terminate the stream, therefore never runs with the user signed out, and no action stands for it.

## 3. What is checked

| Run | Instance | Shows |
|---|---|---|
| `session_safety` | 1 session, 2 websockets, 1 request, all watchers but that of `session_ttl`; a lost or failed call to NVCF; clock to 1; purge | `TypeOK`, `RegistryLive`, `GaugeExact`, `NoStuckSession`, `ClientErrorKept`, `KeepsLifetimes` |
| `session_liveness` | 1 session, 1 websocket, watchers, two faults (restarts and DELETEs that time out), clock to 2 (idle timeout 1, time to live 2), no purge; fair | `TtlEnforced`, `IdleEnds`, `ClosedHandlerFinishes` |
| `session_quota` | 2 sessions, limit 1, 2 start requests, a websocket, a request | `QuotaAtStart` |
| `session_revive` | 1 session, 1 websocket, 1 request, no faults | `TerminalIsFinal` is violated |
| `session_unregistered` | 2 websockets, clock stopped | `StreamIsRegistered` is violated |
| `session_watcher` | a network error; fair | `TtlAlwaysEnforced` is violated |
| `config_watch` | 7 contents of the settings file, 6 of the key file, 3 writes, restarts; fair | `ConfigTypeOK`, `TtlWithinMaximum`, `KeysMatchLast`, `SettingsFollowFile`, `KeysFollowFile` |
| `catalog` | 3 requests of any kind, 2 pages, 3 lists, clock to 3, calls and queries of at most 1 | `CatalogTypeOK`, `PagesAsSent`, `StatusAge`, `PublishAnswersFresh` |
| `mcp_oauth` | 1 login, 2 requests at a time, clock to 2, 5 rows; fair purge | `BrokerTypeOK`, `SpentBeforeIssued`, `OneGrantPerLogin`, `HeldGrantWorks`, `ExpiredPurged` |
| `portal_auth` | 3 tabs, tokens issued 4 times, up to the first race | `PortalTypeOK`, `ArmedForNewest`, `CookieNewest`, `LogoutReachesAll`, `RenewsNewest` |
| `logout` | 3 sessions, 2 to a page, 2 calls at a time, 1 session left over or revived; fair | `LogoutTypeOK`, `AutoLogoutEnds`, `TokensWhileEnding`, `ShownAsEnded`, `DialogFinishes` |
| `stream` | 2 handlers, 2 POSTs to a start, 2 sessions, 2 faults, 2 clicks (a sign-in is one); fair | `StreamTypeOK`, `ReplacesOnlyGone`, `PageSettles`, `ErrorReported` |

What each property says is in the comment before it. The promises, in short:

* **`RegistryLive`**: an entry of `session_websockets` belongs to a registered and unfinished handler of
  that session. Handlers replace and remove each other's entries, so this is not obvious; the
  stronger `StreamIsRegistered` is false (below).
* **`GaugeExact`**: `sessions.active.count` is the number of streaming handlers. It holds because the
  handler decides on its own copy of the status and never on the stored one.
* **`NoStuckSession`**: a row that says CONNECTING or ACTIVE has a task that will write it. It is
  what makes it right that a close with code 3010 saves nothing.
* **`ClientErrorKept`**: an error reported by PATCH is not overwritten by a task that read the row before.
* **`KeepsLifetimes`**: the lifecycle implements `SessionLifetimes`.
* **`QuotaAtStart`**: the count made before the call to NVCF still holds at the insert.
* **`TtlEnforced`, `IdleEnds`, `ClosedHandlerFinishes`**: overdue and abandoned sessions end, also when DELETEs
  time out and the backend restarts; closed handlers finish.
* **`TtlWithinMaximum`, `SettingsFollowFile`, `KeysMatchLast`, `KeysFollowFile`**: as long as the loops live,
  what the files say last is in effect and no content lifts `session_ttl` above the maximum.
* **`StatusAge`, `PublishAnswersFresh`**: a status is younger than the time to live, the call that filled the
  cache and what its request waited for since, not than the time to live alone; late answers refill a cache that was cleared, but never
  reach the answer of the request that cleared it.
* **`PagesAsSent`**: what overlapping `set_pages` leave has all pages of the last list, and others only of
  lists it overlapped with.
* **`SpentBeforeIssued`, `OneGrantPerLogin`, `HeldGrantWorks`, `ExpiredPurged`**: wherever a request
  stops, the client has the old grant, the new one or none; only one; the one it was given
  last works until the last instant of its life, also when requests overlap; expired rows go.
* **`RenewsNewest`, `ArmedForNewest`, `CookieNewest`, `LogoutReachesAll`**: each token is renewed once;
  when all is settled, every tab will renew the newest token, requests carry it (or an older one, if a tab
  that only heard of it ran its effects again), and after a logout nothing is left in any tab.
* **`AutoLogoutEnds`, `TokensWhileEnding`, `ShownAsEnded`, `DialogFinishes`**: when the dialog logs out on its own
  every session is over, as far as the dialog could know; it needs no token it has given away; what it shows as
  ended is over in the same sense; it gets the user out.
* **`ReplacesOnlyGone`, `PageSettles`, `ErrorReported`**: a running session is not replaced; the loader goes; the
  backend has the error shown last.

### Conditions in the properties

Variables that only remember keep the properties honest about what the code leaves open; each is
set by the overlap it names and by nothing else.

* `raced` (`ConfigWatch`): the keys file was written between its two reads of a round, or between the import and
  the start of the loop. `last_content` then differs from what was loaded.
* `shared` (`McpBroker`): two requests read the same row before either deleted it; `faulty`: a request of the
  login failed or its answer was lost.
* `raced` (`PortalAuth`): a sign-in, a logout or an opening tab overlapped something that writes the
  user. Nothing is claimed after a race, so the run stops there (`NotRaced`); the transitions
  that lead to one are explored and checked. `failed`: a renewal failed or its tab was closed. `stale`: the last to
  write the cookies was a tab whose React user is older than the stored one, and whose user had not changed.
* `shifted` (`LogoutDialog`): a session ended while the list was read, or one started between the count and
  the page; `failed`: the number of calls that failed. `leftover`: others ended the row of a session that NVCF
  runs, so that `terminate_session` answers 204 without a DELETE; `revived`: a handler has written over the end of a
  row. Only steps of others set the last two: a DELETE of the dialog that NVCF refuses is a failure.
* `blind` (`StreamClient`): `checkSession` got no answer; `missed`: a PATCH failed or two overtook each other.

### Bounds

*Sessions.* Two websockets are the most that matter to one registry entry: one that wrote it and one
that replaced it. One request and the watcher are two concurrent `end_session`s. The clock
has as many instants as there are limits to tell apart: before and after the idle timeout,
and at the time to live, in `session_liveness` (in
`session_safety` `SessionTTL` is beyond the clock, so that the watcher's variant of `end_session` is left
to the other runs, and `Retention` within it). `MaxFaults = 1`: a fault either loses an answer or ends a task, and
each property concerns the effect of one; in `session_liveness` it is 2, a DELETE that times out before or
after a restart, or two of them. `EndsCap` saturates a counter nothing reads; 0
leaves it out.

*Configuration.* The contents have every kind and every value `validate` tells apart: within, above
and without a `session_ttl`, a required setting that is set, blank or missing. Three writes are a
change, its reversal and one more between two reads.

*Catalogue.* Three requests: one that fills a cache late, one that clears it, one that reads it. With a
time to live, calls and queries of one instant (`MaxLoad`, `MaxQuery`), four instants let an entry be stored late, be used at
the last moment and expire. Two pages and lists that share, differ in and lack a page show mixtures and gaps.

*Broker.* One login, since logins share no row; two requests overlap; every time to live ends within the
clock, and the access token's before the refresh token's. Five rows are a code and two pairs.

*Tabs.* Three: one that renews, one that hears of it and one that opens or closes meanwhile. Four
issues are a sign-in and three renewals. *Logout.* Three sessions on two pages of two: the smallest list with a
page that shifts; one of them may be astray at a time (`MaxAstray`), since each of the properties is about one, and a
countdown of one second has a second to forget. *Stream.* Two handlers are a double click; two POSTs are a try and a
retry.

### Fairness

*Sessions.* The event loop runs every task that can run and every call to NVCF returns or fails, so
the steps of handlers, of `end_session`, of the watchers and of a posting `start_stream` are fair. Strong
fairness is used for those that wait for the database: while a `start_stream` posts they are
disabled, and may be so again and again. On SQLite the wait is for an `asyncio.Lock`, which
serves waiters in order, so a task cannot be overtaken for ever. Nothing is assumed of clients, of
NVCF's decisions, of the clock or of faults.

*Elsewhere* weak fairness is enough. The loops of `ConfigWatch` and the purge of `McpBroker` go round while they
live: they sleep a fixed time. In `LogoutDialog` requests are answered or fail and timers fire. In
`StreamClient` requests are answered or fail, effects run after a render, `AppStreamer` answers and the browser follows
`location.href`. Users, writers of files, other tabs, sign-outs and faults are never fair, so nothing holds
because somebody clicks. `Catalog` and `PortalAuth` have safety properties only.

### What the code does not keep

* **`TerminalIsFinal`** (`sessions.py:71`, "ended (no longer running)"): a handler's last save, or its saves while
  connecting, do not look at the row. A session ended by a request while its handler is between the
  save of CONNECTING and the streaming section is revived; so is one that ends between the two queries before them.
* **`StreamIsRegistered`** (`sessions.py:537`): only ACTIVE rejects a second websocket (520), so two handlers may
  overlap; the second overwrites the first one's entry (539), and whichever finishes first removes the entry (744). The
  stream that has none can be closed by no endpoint.
* **`TtlAlwaysEnforced`** (`settings.py:135`): `end_session` catches timeouts only; another network error
  ends `watch_session_timeout`, and `watcher_task_done` only prints it. `TtlEnforced` therefore has a
  condition on the watcher's task.

The conditions above exist because the code does not keep these either:

* Two tasks that end a session at the same time both count its end (`METRICS.md:7`).
* The settings loop ends with the first file that is missing, cannot be parsed or fails `validate`, which then has
  assigned the new values but has not yet limited `session_ttl`; from then on the file is
  watched by nobody, although `settings.py:44` says it is. A value removed from the file keeps its last value.
  A key file that is not text ends the other loop.
* The time to live of a cached status counts from its arrival (`nvcf.py:47`), a late answer overwrites a newer one or
  refills a cache that was cleared, and a refused call is cached as an empty result.
* `set_pages` has no transaction: overlapping lists mix, a failure leaves a part.
* The broker's deletes do not report that the row was gone: two requests that read the same row both get a grant. An
  exchange that fails leaves the client without one. The purge ends with the first statement that fails.
* `CookieSync` runs again at every change of the auth context (`AuthProvider.tsx:157`), also in a tab that has only
  heard of a renewal: its React user is older than the stored one, and it writes the older tokens back.
* Every page load removes the cookies of all tabs before it reads the user. A renewal that fails is not repeated; closing the
  tab that renews frees the lock early. A message about a logout removes whoever has signed in since; a renewal
  under way at the logout stores a user again (`Header.tsx:68` "Ends the portal session in all tabs").
* Paging by offset skips rows that move while sessions end or start (`Sessions.ts:106` "Returns every running
  session"). A DELETE that NVCF refuses marks the row as ended while the session runs, and `watch_idle_sessions` does so
  without a DELETE; a later DELETE is answered 204 and the dialog shows the session as ended.
* Any failure of `checkSession` counts as "no longer available". A start whose answer is lost leaves a session nobody
  knows, and is repeated. The list starts two sessions when the user starts one after the automatic start has
  failed; so does a double click on "Start a new session", which is enabled again during the termination; its
  `reload()` overtakes the navigation to the session it has just started. Reports may overtake each other, and an error that is over is
  not cleared in the backend. When the user signs out while `connect()` is on its way, the page is unmounted and the
  clean-up finds no stream; the one that starts afterwards is ended by nobody (`AppStream.tsx:187` cannot).

## 4. What is proved

TLAPS checks these for every value of the constants, every setting and every fault, from the one assumption of
each module (`ConstantsAssumption`, `ConfigAssumption`, ...: null values are distinct from the sets they
extend, bounds are naturals, sets of handlers are finite):

| Theorem | Statement | Argument |
|---|---|---|
| `TypeCorrect` | `Spec => []TypeOK` | inductive; the two conjuncts that a busy handler or task names a session are what later proofs need |
| `RegistryIsLive` | `Spec => []RegistryLive` | inductive given `TypeOK`; `StepIsQuiet` reduces all steps to those that change the registry, a `free` or `loaded` handler or the gauge |
| `GaugeIsExact` | `Spec => []GaugeExact` | same reduction; then adding or removing one handler from the streaming set |
| `NoSessionIsStuck` | `Spec => []NoStuckSession`, if no restart | needs the strengthening `SockBeforeStream` (before streaming, a websocket is never `closed`, only `closedEarly`, and before it is registered neither) and `RegistryLive`: what `end_session` closes is a handler of the session it is about to save |
| `ClientErrorIsKept` | `Spec => ClientErrorKept` | `RowSteps` classifies all changes of the table; `AbsentRows` says what is in rows not inserted yet |
| `QuotaHolds` | `Spec => QuotaAtStart`, if `SerialDB` | needs `CountStillTrue`: one request at a time is posting and its count is still true; `PostingAlone` says the table cannot change meanwhile |
| `KeepsLifetimesAlways` | `Spec => Lifetimes!Spec` | the refinement: initial states map to initial states; every step changes either who serves a session or its status, and each maps to a step of `SessionLifetimes` or to a stutter |
| `ConfigTypes`, `TtlIsCapped` | `[]ConfigTypeOK`, `[]TtlWithinMaximum` | inductive; what `validate` accepts is a value of every setting |
| `KeysMatch` | `Spec => []KeysMatchLast` | needs `ReadsAgree`: what the first read of a round, and the import, have to agree on with the file |
| `CatalogTypes`, `PagesAreSent` | `[]CatalogTypeOK`, `[]PagesAsSent` | needs `PagesInv`: what is in the table comes from the last request to delete it, as far as it has got, or from those it overlapped with |
| `StatusIsYoung`, `PublishIsFresh` | `Spec => StatusAge`, `Spec => PublishAnswersFresh` | needs `AgeInv`: how old an entry was when it was stored, and how long a request has been under way or waiting for its query |
| `BrokerTypes` | `Spec => []BrokerTypeOK` | with `Numbered`: names are given in order |
| `SpentFirst` | `Spec => []SpentBeforeIssued` | needs `SpentInv`: what a request has spent already and what it may still make |
| `OneGrant` | `Spec => []OneGrantPerLogin` | needs `OneInv`: transaction, requests and grants of a login are counted together, and a client holds only what is its own |
| `HeldWorks` | `Spec => []HeldGrantWorks` | needs `HeldInv`: the client knows when its grant expires, and only requests of its own login can have spent it |
| `PortalTypesHold` | `Spec => []PortalTypeOK` | inductive with the types of messages, effects and timers; who holds the lock follows from where each tab is in a renewal |
| `ArmedAlways`, `CookieAlways`, `LogoutAlways` | `[]ArmedForNewest`, `[]CookieNewest`, `[]LogoutReachesAll` | `PortalInv`: as long as nothing has raced, `Calm` |
| `NewestRenewed` | `Spec => RenewsNewest` | the same invariant: the lock outlasts the messages of the renewal before |
| `TokensStay`, `ShownHasEnded` | `[]TokensWhileEnding`, `[]ShownAsEnded` | `TokensInv`: the countdown runs only after everything has settled; `EndedInv`: while no call has failed, a session whose row has ended does not run in NVCF or is `leftover`, and only alive rows are `revived` |
| `LogoutTypes`, `AutoEnds` | `[]LogoutTypeOK`, `[]AutoLogoutEnds` | `LogoutInv`: a session that was alive at the beginning is listed or on a page not read yet; failures are counted once; a call that succeeded is of a session that is over |
| `StreamTypes` | `Spec => []StreamTypeOK` | `StreamInv` and the types of what it does not mention |
| `ReplacesGone` | `Spec => []ReplacesOnlyGone` | `StreamInv`: sessions start in order, pages and handlers refer to sessions that have started, and a start by `connect()` is one of a page whose session is gone |

Without the premise of `NoSessionIsStuck` the property is false: a restart leaves rows that only the
timeout watcher ends. Without that of `QuotaHolds` it is false too; the mutant `DbFreeBug` of the quota
run is that case.

Three of the invariants deserve a word.

* *Tabs.* The properties of `PortalAuth` speak of moments when all is settled, so they say nothing about the
  steps that lead there. `Calm` does: every tab `Fits` the stored user, that is, has it on its page and in its timer or
  still has the message or the effect that will bring it (`PageFits`, `InboxFits`, `UserFits`, `EffectsFit`); a timer that has
  fired comes back (`TimersComeBack`); the cookies are those of the user, or older ones that a
  `stale` tab wrote, or a tab that writes them is on its way (`CookiesFollow`); and the lock is kept while a message of a renewal is (`LockOutlasts`).
* *Grants.* The proof showed more than had been asked: that two requests overlap does not take the grant away from
  the client that holds it, only a failure does. `HeldGrantWorks` now excludes nothing else.
* *Pages of sessions.* While nothing shifts, the place of an alive row can only grow, so a session that is not on the pages
  read is on a later one; rounding up counts enough pages; on the last page no session can be left. `Descending`, the order of
  a page, is a `CHOOSE`: `Enumerable` proves that there is such an order, with the number of
  elements that are at least `x` as the place of `x`.

Only model-checked: the liveness properties (fairness is out of the prover's reach) and the three violations. Every
invariant and action property that a run finds to hold has a theorem.

## 5. Not modelled, and what could come next

* *Storage API authentication*: its managers renew by timers of `oidc-client-ts`' own, outside the lock of
  `renewTokenWithLock`, and managers that `activateSession` drops renew too. Without the library's sources a
  model would guess when they fire. With them it would be the next module, on top of `PortalAuth`.
* *Backend authentication*: its caches of keys and groups are filled the way those of `Catalog` are.
* *MCP server, deployment and user endpoints*: they keep no state. *Registration of MCP clients*: one statement on a table
  nothing else here reads.
* *Presentation, scripts, charts, migrations, vendored code*: no logic of the portal's own, or generated.
* In `SessionLifecycle`: failures of the database, a POST that times out and leaves a session in NVCF without a row
  (`sessions.py:345`), close codes
  between 3000 and 3999 (734). In `StreamClient`: the notice before the end of a session, effects that run again when
  their dependencies change, a refetch that fails, more than two handlers. In `LogoutDialog`: a logout in another tab.
