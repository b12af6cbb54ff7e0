# singbox-helper: models, checks and proofs

singbox-helper is a small Go server for Keenetic routers. It turns a node URI
(`vless://`, `hysteria2://`, `socks5://`) into sing-box's `config.json`, writes
it, restarts sing-box, and keeps backups, settings and the URI applied last. It
has a web UI and a one-shot command line. This directory holds TLA+ models of
its core, the TLC configurations that check them, and theorems about them that
TLAPS checks.

## 1. Inventory

### Components, their state and operations

| Component | Source | State | Operations |
|---|---|---|---|
| HTTP handlers | `internal/web/handlers.go`, `server.go` | settings in memory (`Server.settings`, under `mu`) | apply, settings, restore, delete; preview, test, status, logs, lists |
| Backup manager | `internal/backup/backup.go` | `config.json.bak-<second>` files | Create, Restore, Delete, List, Trim |
| State file | `internal/state/state.go` | `state.json`, `state.json.tmp` | Load, Save |
| Settings store | `internal/config/yaml.go`, `settings.go` | `config.yaml`, `config.yaml.tmp` | LoadSettings, SaveSettings |
| Renderer | `internal/config/render.go` | none | Render |
| Read-back and status | `internal/web/readback.go`, `handleStatus` | none | which node `config.json` holds, and whether `state.json` is about it |
| Command line, start | `cmd/singbox-helper/main.go` | stderr pipe | `--from-uri --apply`, `--serve` |
| Log ring | `internal/logbuf/buf.go` | `lines`, `pendng` | Write, Tail |
| URI parsers | `internal/parser` | none | Parse |
| Probes | `internal/probe` | none | status, reach, LAN address, tunnel test |
| Browser UI | `internal/web/assets/app.js` | what the page shows, `_lastNodeKey`, `logsTimer` | polling, apply, settings form, logs, backups |
| Packaging | `scripts`, `packages`, `.github` | none at run time | build, install, publish |

### Interaction

`net/http` runs every request in a goroutine of its own. The handlers call the
backup manager, the state file, the settings store and the init script of
sing-box directly; they share the files in one directory and the settings in
memory. The only lock is `Server.mu`, and it covers single reads and writes of
the settings in memory, never a sequence of steps. The command line is another
process on the same files. sing-box reads `config.json` only when its init
script starts it. The UI polls `/api/status` every five seconds and sends the
requests above.

### What is hard

* Multi-step transactions without a lock: snapshot, truncate and write
  `config.json`, restart, save `state.json`, trim. Any two of them interleave.
* A failure or a crash between any two of these steps; `config.json` itself is
  written in place, so the backup made before is the only other copy.
* Names that are only a second fine and ordered by a local clock that may be
  set back.
* Stale data: a trim list, a `state.json` that names the node applied last and
  not the one in use, metadata taken to be current because two fields agree.
* One temporary name shared by all writers of a file.
* A restart that waits for a script without a limit, and a `sing-box version`
  that every status request waits for, without one either.
* A diagnosis put together from steps at different moments, over a network and a
  process that change under it.
* Lines that the stderr pipe cuts at any byte.
* URI parameters that are missing, contradict each other or are spelt
  otherwise; defaults that are filled in from one another.
* In the page: answers that arrive late or never, between the user's clicks.

### What makes each component correct

* Handlers: an answer is true when it is sent; a failed request leaves a
  recoverable configuration; memory and `config.yaml` agree; every request ends.
* Backup manager: a finished backup never changes; Trim never takes the newest;
  the last whole configuration can be got back.
* State file, settings store: a save is atomic for the readers of the path.
* Restart: when nothing is under way or owed, sing-box runs `config.json`.
* Status: metadata that is shown is about the node that is shown.
* Log ring: it holds the last lines of what was printed, whatever the chunks.
* Parsers: the parts of a node agree (REALITY has its key, SOCKS4 no
  credentials, TLS a server name), and the display tells what the node does.
* Renderer and read-back: what is written is usable; the node shown is the node
  applied, and the one traffic is routed to; the list of backups names it too.
* Tunnel test: five times ok means that the tunnel works, and the other way
  round; the answer comes before the server closes the connection.
* UI: what the page shows is true in the end, whatever answers come late; one
  flow at a time; the cards tell how the last one went; one log timer at most;
  every list the user asks for appears or is reported as an error.

## 2. Modules

| Module | What it is |
|---|---|
| `Files` | operators: a file as one value (whole contents, `Absent`, `Empty`, `Torn`), an in-place write, and a *cell*: a path with its `.tmp` and the descriptors that are open on either |
| `DurableRegister` | abstract: what an atomic save promises |
| `AtomicSave` | `state.Save` / `config.SaveSettings`, one system call per step; refines `DurableRegister` |
| `Helper` | the core: requests and command-line runs over the files, memory and sing-box |
| `LogBuf` | the stderr pipe, the copying goroutine, the ring, `/api/logs` |
| `Parser` | `Parse` and the parsers of `vless`, `hysteria2` and `socks` as functions |
| `Render` | the renderer, `ResolveMixedListen`, `validateSettings`, the read-back and what the status concludes, as functions |
| `Nodes` | apply, settings and hand edits over `Parser` and `Render`, one at a time |
| `Diagnostics` | the tunnel test and the status probes over a changing network |
| `Home` | the home tab of the web UI |
| `Tabs` | the settings, logs and backups tabs of the web UI |
| `MCAtomicSave`, `MCHelper`, `MCLogBuf`, `MCNodes`, `MCDiagnostics`, `MCHome`, `MCTabs` | instances for TLC |
| `FilesProofs`, `AtomicSaveProofs`, `HelperProofs`, `LogBufProofs`, `NodesProofs`, `DiagnosticsProofs`, `HomeProofs`, `TabsProofs` | theorems |

`Helper` and `AtomicSave` use the operators of `Files`; `Nodes` extends `Render`,
which extends `Parser`. `Helper` and `Nodes` model the same handlers from two
sides: `Helper` has their steps, failures and interleavings, with URIs and
settings as plain values; `Nodes` has what is in a URI, in the settings and in
`config.json`, with each request as one step.

### Helper

One step is one system call, or the code between two. `pc[p]` is where a
request is and `job[p]` holds its local variables:

```
apply     stamp create copy              truncate write restart saveOpen saveWrite saveRename list trim reply
restore   stamp create copy read         truncate write restart reply
settings  saveOpen saveWrite saveRename (saveRemove) swap load stamp create copy truncate write restart reply
command   stamp create copy              truncate write
delete    one step
```

| Variable | In the program |
|---|---|
| `config`, `baks` | `config.json`, and `config.json.bak-<second>` by second |
| `writer` | the descriptor that Create or backupIfExists still has on a backup; what is copied goes to that inode even if its name is gone or taken by another |
| `stateFile`, `yamlFile` | `state.json` and `config.yaml`, each with its `.tmp` |
| `mem` | `Server.settings` |
| `running` | what sing-box has loaded |
| `now` | the second that Create reads |
| `good`, `discarded`, `owed`, `apart` | history, read by properties only; `apart`: `config.yaml` was edited by hand, or could not be read at the start, and nothing was saved since |

A rendered configuration is the pair of the URI and the settings it was
rendered from; a `Foreign` configuration is one the helper did not render. A
whole `config.json` fits in a page, so the write after `O_TRUNC` is one step;
two writers on one inode may leave the tail of the longer one (`Torn`).
Requests that are refused before they touch anything have no action.

Two next-state relations are given. `Next` lets requests and command-line runs
overlap as they like. `SerialNext` is the same with one user, who begins
something only when nothing is under way; crashes, failures and hand edits of
`config.json` (`HandEdit`) and `config.yaml` (`EditYaml`) are in both. The
promises to a single user are stated about `SerialSpec`, and the run
`settings_race` shows that they do not hold for `Spec`.

`SettingsVals` are any settings, `Accepted` those that `validateSettings` lets
through: a request brings one of these, a hand edit may bring any or a file that
does not decode. `LoadSettings` is as in yaml.go: no file means the defaults, a
file that decodes is taken as it is, nothing is validated, and a file that cannot
be read or decoded is an error, upon which `main` goes on with the defaults
(`Starts`, main.go:60-64) while the file keeps what it holds.

Abstractions to know of: process death and reboot keep the files as they are (no
power loss with unsynced pages: the program never calls fsync, so nothing holds
there); the init script is external: it stops, starts and reports in every
combination; MkdirAll, the encoding and the open are one failure point; Trim's
list is sorted by name, the summary of a backup is left out.

### AtomicSave

The same system calls with their results told to the caller, so that success
and error can be related to the contents. `Helper` uses the same operators of
`Files` on two cells, inside the transactions.

### LogBuf

`runServer` replaces `os.Stderr` by a pipe. A print is one step; the goroutine's
Read, the write to the original stderr, and the turns of the loop of
`Buffer.Write` are one step each. Bytes are tokens of which only line ends
matter. As it is, the server prints three lines at its start and one when
`ListenAndServe` fails; the model takes any messages, since the ring is a
package with a contract of its own.

### Parser, Render and Nodes

`Parser` starts where `net/url` ends: a URI is a record of scheme, user-info,
host, port, fragment and query, as the parsers read them. A query value is a
word with two marks, "has capitals" and "has blanks around it", so that
`ToLower` and `TrimSpace`, which each parser applies in other places, do
something (`Clean`, `Lower`). Passwords and fragments keep one mark: whether
there is an escape or a `+` left that a second unescape changes. Each parser
returns what `ParsedNode` holds: outbound, display and label; `Reject` stands
for every error.

`Render` keeps of the settings and of `config.json` what something decides on.
`readCurrentOutbound` looks for the tag `proxy` and then for a known type, with
the tables of `readback.go`; `handleStatus` adds the label of `state.json` if
server and port agree. `summarise`, which names the node of a backup in the
list, looks for either at once, with a table of its own.

In `Nodes`, `doc` is `config.json`, `kept` the URI of `state.json`, `settings`
the settings in memory, `lan` what `ip addr show br0` prints. `EditYaml` is a
hand edit of `config.yaml` with a restart, `EditConfig` one of `config.json`.
`ours` and `checked` are history: who wrote `config.json` last, and whether a
setting has come from an edit. The constants are assumed to be records of the
right fields, and no address of the LAN is "" or `auto`.

### Diagnostics

`handleTest` takes five steps, one after the other: dial the node of
`config.json`, look for the process, look for the TUN interface, ask `ipReporter`
for the address of the router, and ask again through the interface. Steps two
and three are `CollectStatus`, which `/api/status` calls too, and which runs
`sing-box version` in between.

```
test    dial   scan start (version) iface   direct tunnel done
poll           scan start (version) iface   done
```

| Variable | In the program and around it |
|---|---|
| `named` | the node and the interface in `config.json` |
| `running` | the configuration that the sing-box process has loaded, or `Down` |
| `tunName` | `Server.settings.TunInterfaceName` |
| `live`, `wan` | the nodes that answer; the address of the router, or `Offline` |
| `req[r].steps` | the verdicts so far; `target`, `name`, `direct`: local variables of `handleTest` |
| `req[r].spent` | the sum of the limits that were met |
| `found`, `calm`, `odd` | history: whose process was found; whether the world has stood still since the request began; whether a limit was met or an error page taken for an address |

A probe succeeds or fails by what the world is at that step, or meets its limit
whatever the world is. A UDP dial always succeeds (reach.go: it "does NOT send
any bytes"). `curl` is run without `-f`, so what it prints may be an error page
(`Page`). A `sing-box version` that waits is a process called sing-box, which the
scan of another request may find. A configuration is its type, its interface and
the place where its traffic comes out; `Around` is one, written by hand, that
routes past its proxy. Time is counted per request and only where the code has a
limit.

### Home

A script in a browser runs to its next `await`. A *poll* is a call of
`refreshStatus` that nobody waits for (timer, button, a form of another tab), a
*flow* a click on Preview, Apply or Test up to its last answer; an apply awaits
three calls. Sending, handling and using an answer are separate steps, so
answers overtake each other, and an answer may be lost after the server has
acted on it. `node` is what `/api/status` would report: a managed node with URI
and time, a foreign one, or none. `shown`, `cache` and `open` are the table,
`_lastNodeKey` and the unfolded URI; `display`, `applied`, `tested`, `error`
and `json` are the cards. The status pill and the sing-box and TUN rows follow
each answer and decide nothing.

### Tabs

The same grain as `Home`: the page asks, the server handles, the page uses the
answer, in separate steps, and any number of requests of the three tabs may be
under way. An answer may be lost after the server has acted on it. `form` is the
content of the settings form as one value, `note` whether the line below it
reports an error; `source` is what is chosen on the logs tab and `shown` the
choice that the lines on show answer; `logsTimer` is the variable, `alive` the
intervals the browser has; `list` and `state` are `backups-list`, `said` the line
below it. A restore or a deletion that worked goes on with a load of the list,
in the same slot. Of the home tab there is the apply, since it makes and trims
backups of the same page (`doApply`); the page awaits one at a time.

A request that changes something may be given up by the page before the server
has handled it: the page takes it for failed at once, and its slot is `left` to
it until net/http has handled it after all, with either outcome, or dropped it
(`Late`). One that only asks leaves nothing behind. The server is one step per
request here (`handleSettingsPost`, which makes a backup when a node is managed,
`handleApply`, which makes one and trims, `handleBackupsRestore`,
`handleBackupsDelete`); `Helper` has their steps. Which backups Trim takes is
left open. There is one page, and nobody else uses the helper meanwhile; a page
that is loaded anew while requests are under way is not modelled.

`crossed` is history: the tabs that, when they last asked for something, had a
request under way already, given up or not; and the tab of the backups also if
an apply or a change of settings was.

## 3. What the runs show

All runs with a `pass` are exhaustive for their bounds and check deadlock.

| Run | Instance | Shows |
|---|---|---|
| `save` | one caller, three values, failures of every call, crashes | `RegisterSpec`: the file is a register that changes in one step, when success is reported |
| `sequence` | one user; apply, settings, restore, delete, command line, hand edits of both files; one URI, one foreign configuration, two settings that the API accepts and one that only a hand edit of `config.yaml` brings, two seconds, keep 1; every call may fail, crashes and reboots at every step | `TypeOK`, `LastGoodRecoverable`, `SettingsAgree`, `ReplyTrue`, `ReplyNamesBackup` |
| `trim` | two handlers; applies and deletions; three seconds, clock set back, restarts that fail | `TrimSparesNewest`, `AtMostKeep`, `BackupsImmutable` |
| `progress` | two at a time of two handlers and one command-line run; apply, settings, restore; fairness | `EveryRequestEnds`, `RunningFollowsConfig` |
| `logs` | messages of 1 to 4 bytes, `BufSize` 2, ring of 2, 8 bytes in all; 1 or 3 lines asked for, fewer and more than the ring has; fairness | `RingHoldsLast`, `NothingLost`, `AnswersAreLatest`, `AllIsLogged` |
| `nodes` | every scheme with every user-info, and with every host and port; all combinations of six VLESS parameters, and of five others under TLS; all Hysteria2 parameters; settings that the API accepts, some with a listen address of blanks, and some that it refuses; three hand-written configurations; a LAN with and without an address | `AppliedIsShown`, `ShownIsRouted`, `SummaryIsShown`, `NodeSound`, `DisplayHonest`, `ListenResolved`, `DocUsable`, `SettingsKeepNode` |
| `home` | two URIs, one foreign node or none, one time, two polls under way, any flow; fairness | `TypeOK`, `CacheTrue`, `OneAtATime`, `OutcomeShown`, `PanelKept`, `NodeIsShown` |
| `diagnostics` | one test next to one status request; a Hysteria2 node and a hand-written configuration that routes past its VLESS node, with an interface each; one address, on- and offline; the program's time limits; fairness | `TypeOK`, `OkMeansWorks`, `WorksMeansOk`, `AnsweredInTime`, `EveryRequestEnds` |
| `tabs` | two settings, two log choices, two backups, two requests under way or left to the server, two timers, four clicks; fairness | `TypeOK`, `OneTimer`, `FormTrue`, `ListTrue`, `ListAppears`, `LogsCatchUp` |

`TypeOK` is checked once for `Helper`, in `sequence`, whose mutant reaches it
only with a command line or a restart of the server.

Why the bounds are enough: two requests are what the races need (the theorems
of section 4 have no such bound); with keep 1 a second backup already makes Trim
work; two seconds give both equal and different names, and each second can be
used again once its backup is gone, so long histories occur in a finite space;
`MaxClock`, `MaxPrinted` and `PipeSize` are the only counters that are capped.
In `sequence` a start may fail to read `config.yaml` whatever it holds, which is
what one that does not decode does too; what such a file may decode to is left to
the theorems (`YamlEdits` is any set there).
`sequence` has a VIEW (`EssentialView`): what is left in a `.tmp` when nobody is
between its open and its rename is the same to TLC whatever it is, since the next
open truncates it and nothing else looks at it.
`trim` is without crashes, as `AtMostKeep` does not speak of them; for its other
two properties the theorems `TrimSpares` and `BackupsStay` cover them.
`progress` has three processes, of which two may be busy (`AtMostTwo`).
In `logs` lines are cut at every place by a buffer of two bytes, `\r\n` lies
across chunks, and three lines overflow the ring. In `nodes` a user has one of
the URIs, or two that differ in everything a node has, so that an apply of
another node meets every kind of state; the values of the ports and of the MTU
are those at the boundaries; the hand-written configurations hold a tagged node,
a node without the tag, and none.
In `home` two polls are enough for one to overtake
the other, and the poll of an apply may be a third. `Times` has one value:
applying a URI again at another time is one more node that differs.
In `diagnostics` the world changes once in the life of a request (`AllCalm`):
what a test says of a changed world is not judged, and tests that begin later
find every world there is; each configuration has an interface and a type of its
own, so that every pair of settings, process and file that may disagree does.
The test and the status request may each find the child of the other.
In `tabs` the user stops after `MaxClicks` = 4 clicks, while timers, answers and
the server go on: enough to open a tab, start two requests of it that overlap,
and leave or return, and to load the list of backups, save settings or apply, and
return to the list while that is still under way, was answered or was given up;
this run alone does not check deadlock, since the page may come to rest then.

Symmetry of the handlers is used in `trim` only, which has no liveness property.

### Fairness

`FairSpec` of `Helper` assumes weak fairness of the steps of each process except
the restart: goroutines are scheduled and system calls on local files return,
but `restartSingBox` waits for the script without a timeout. `EveryRequestEnds`
therefore says "answered, or waiting for the script", and shows that a script
that hangs holds up nobody else. `FairSpec` of `LogBuf` assumes that the copying
goroutine is scheduled and that writes to the original stderr return. `FairSpec` of `Home`
assumes that the five-second timer goes on firing and that a poll is answered or
fails and is then used. The second is an assumption about the surroundings, which
the code does not secure: `handleStatus` waits for `sing-box version` without a
limit (status.go:80), and `WriteTimeout` does not interrupt a handler that hangs,
it only lets the write fail that comes after it. `NodeIsShown` therefore holds
while `sing-box version` returns or the connection breaks; `EveryRequestEnds` of
`Diagnostics` says what holds without that. Nothing is assumed of flows, since an
apply may wait for the init script for ever, nor of the user.

`FairSpec` of `Diagnostics` assumes weak fairness of every step that a request
takes by itself: dials and curls have limits. Nothing is assumed of
`sing-box version`, so `EveryRequestEnds` says "answered, or waiting for it", and
shows that one that hangs holds up no other request; nor of the surroundings.

`FairSpec` of `Tabs` assumes that a request ends, with an answer or without, and
that not all of them go wrong for ever (strong fairness of an answer being given
and of one being used): without that nothing can be said of what a page shows.
`ListAppears` needs only the first. A request that was given up is handled or
dropped in the end: the model needs this because its slots are few, and a handler
that waited for the init script for ever would keep one. The browser runs its
timers.

### Where code and text differ

Each of these runs finds a property violated that a comment or a test states,
without failures, crashes or hand edits:

* `foreign_overwritten`: POST /api/settings re-renders the node of `state.json`
  whenever there is one, and does not compare it with `config.json`
  (handlers.go:352-354 says it does). After a restore, saving settings replaces
  the restored node.
* `undo`: a restore that starts while an apply has truncated `config.json`
  snapshots an empty file; what the apply then writes and the restore overwrites
  is in no backup (backup.go:120-121).
* `settings_race`: two overlapping POST /api/settings leave other settings in
  memory than in `config.yaml`.

Others of the same kind that were met while modelling and have no run:

* Status compares server and port only (handlers.go:95). After a restore of
  another user of the same server it reports managed=true with the label and URI
  of the node applied before; handlers_test.go:452 says "The user must NOT see
  misleading "managed" metadata for a different node". `AppliedIsShown` is
  therefore about configurations of the helper.
* Backups exceed the ten that README.md:70 promises: restores and settings make
  them and never trim. `AtMostKeep` is about applies and deletions.
* A status request may report sing-box as running because it has found the
  `sing-box version` of another request (status.go:48, 80). In a test the later
  steps show the difference, and `OkMeansWorks` holds all the same.
* A test dials the node of `config.json`, which need not be the one that runs
  (handlers.go:287-289 says "the probe always matches what sing-box is really
  talking to"): `WorksMeansOk` has `named = running` for this.
* `curl` is run without `-f`, so an error page of `ipReporter` counts as an
  address, and another one than the direct address as a working tunnel:
  `OkMeansWorks` has `~odd` for this.
* After the clock went back, the newest backup sorts last and the Trim of the
  apply that made it removes it.
* Two overlapping applies may leave one node in `config.json` and another in
  `state.json`; two overlapping saves may publish an empty `state.json` for a
  while (state.go:43 says "atomically").
* The error of `ListenAndServe` is printed to the pipe right before `os.Exit`
  and may never be seen (main.go:68), and what package `log` prints for
  `net/http` never reaches the ring (main.go:91-93).

* "Показать готовый JSON" after an apply unfolds the JSON of the preview before
  it, which may be of another URI (app.js:311): the card that holds the button
  is shown by both, and only a preview replaces the JSON. `OutcomeShown`
  therefore speaks of the JSON after a preview only.
* `config.yaml` is not validated when it is loaded: an edited MTU, port or empty
  name goes into the next `config.json` (`DocUsable` has `checked` for this).
  A listen address that consists of blanks gets through the API and the YAML
  file, and is written as it is; the form trims. `ListenResolved` says that the
  address in `config.json` is never empty nor `auto`, and consists of blanks only
  if some settings asked for that.
* A `config.yaml` that cannot be read or decoded when the server starts is left
  as it is, and the server works with the defaults (main.go:60-64) until settings
  are saved: memory and file disagree, as they do after a hand edit under a
  running server. `SettingsAgree` has `~apart` for these two, and otherwise says
  that memory holds what loading the file would give.
* In a configuration written by hand, the status takes the outbound with the tag
  `proxy`, or the first of a known type, and not the one of `route.final`
  (readback.go:52-61): `ShownIsRouted` is for configurations of the helper. The
  list of backups takes the first outbound that is either (backup.go:216), so
  with a node before the one tagged `proxy` the two name different nodes:
  `SummaryIsShown` is for the helper's configurations and those without such a
  node.
* The label of a SOCKS node is not unescaped as those of the others are, which
  unescape twice; an ALPN list that ends in a comma yields an empty entry; `h2`
  is passed on as a transport type.
* In the UI outside the home tab: late answers of `/api/logs`, `/api/settings`
  and `/api/backups` overwrite newer ones or what is being typed; the box
  "auto-refresh" stays ticked after leaving the tab has stopped its timer; the
  save button of the settings stays enabled, so that saves overlap. `FormTrue`
  and `ListTrue` are therefore about requests that did not overlap, and the lines
  of the logs are the chosen ones again and again (`LogsCatchUp`), not always. A
  save, an apply, a restore or a deletion that the page reports as failed may be
  carried out later, and the list of backups shows it when it is next loaded.

`SettingsAgree`, `ReplyTrue`, `ReplyNamesBackup` and `LastGoodRecoverable` hold
for requests one after the other, with every failure; `settings_race` and `undo`
show why not for overlapping ones.

## 4. What is proved

For every value of the constants, under the named assumptions of `Files`,
`Helper`, `AtomicSave`, `LogBuf`, `Nodes`, `Diagnostics`, `Home` and `Tabs`: names
of processes and special values are different, `KeepBackups`, `MaxClock` and the
sizes are positive, the settings that the API accepts and those of the defaults are
settings, the inputs of `Nodes` are URIs, settings, outputs and
documents with a list of outbounds, and an error page is no address. Every
invariant and action property of the passing runs is a theorem; `AtMostKeep`,
`RingHoldsLast` and the properties of `Tabs` have inductive invariants that were
first checked on the instances of the runs.

* `HelperProofs!TypeCorrect`: `Spec => []TypeOK`. `TypeOK` is not inductive: a
  step stores what it finds in the local variables of the request. `IInv` adds
  `JobOK(p)`, which says for each place which requests get there and which
  variables have been set, and that `config.json` does not vanish under a
  snapshot. The proof has one step per action. Settings are any settings here,
  also those that an edited `config.yaml` has put into memory: `TypeOK` does not
  say that they are valid.
* `HelperProofs!BackupsStay`: `Spec => BackupsImmutable`. Five actions touch the
  backups (`BackupsTouched`); of these only the copy writes contents, and only
  while `writer` names the process, which a finished backup excludes.
* `HelperProofs!TrimSpares`: `Spec => []TrimSparesNewest`. It is inductive with
  `IInv`. When Trim removes t, an older backup v on any list loses t; but all
  that t had after it v has too, and t is not among them.
* `HelperProofs!RunningFollows`: `Spec => []RunningFollowsConfig`, inductive
  with `TypeOK`.
* `HelperProofs!BackupsBounded`: `Spec => []AtMostKeep`. The bound need not hold
  while requests are under way, so what is inductive (`KeepInv`) is a promise:
  some apply is still before its List (`WillList`), or the backups that are on
  nobody's list (`Staying`) are at most `KeepBackups`. Only an apply makes a
  backup, and it lists afterwards; the last one to list sees every backup, and
  leaves out no more than `KeepBackups` (`SurplusLeavesFew`: had it left out one
  more, the oldest of them (`Oldest`) would be on its list).
* The last part of `HelperProofs`: the four promises to one user, for `SerialSpec`, with every
  failure, crash and hand edit. `Alone` says that at most one process is under
  way; a step is then judged by what it does to that process. Each promise has an
  invariant that says, for each place a request can be in, what is owed there:
  * `SettingsStayAgreed` (`SettingsAgree`): while a save is under way the
    temporary file holds what will be in memory, and memory and file differ only
    between the rename and the swap, or while they are `apart` after a hand edit
    or a start with a file that could not be read; a save ends that.
  * `LastGoodKept` (`LastGoodRecoverable`): before `config.json` is truncated a
    finished backup holds the last whole configuration; when an apply trims, it
    is in `config.json` again, so Trim may take any backup.
  * `AnswersTrue` (`ReplyTrue`): from the write to the answer `config.json` holds
    the body, from a restart that worked sing-box runs it, and the settings it
    was rendered with stay in force.
  * `NamedBackupThere` (`ReplyNamesBackup`), for a clock that does not go back
    (`~ClockSteps`, without which it is false): the backup of the request under
    way is the newest, and `Surplus` leaves out the newest.
* `AtomicSaveProofs!SaveIsAtomic`: for one caller, `Spec => RegisterSpec`. The
  invariant `Alone` says that the only open descriptor is on the temporary file
  and that the file to be renamed holds the whole value; every step then maps to
  a step of `DurableRegister` or leaves the register alone. `SaveTypeCorrect`
  is the type invariant for any number of callers. With two callers the
  refinement is false.
* `LogBufProofs!LogNothingLost`: `Spec => []NothingLost` for buffers, pipes and
  messages of any size, from a lemma on how Read cuts the pipe
  (`ReadSplits`); `LogTypeCorrect` bounds the ring and the answers.
* `LogBufProofs!LogHoldsLast`, `LogAnswersLatest`: `Spec => []RingHoldsLast` and
  `Spec => AnswersAreLatest`, the second for the number of lines that the request
  asked for, which an answer carries with it. `LinesOf` says what the lines of a text are by the
  positions of its line ends, and not by recursion, so that no induction over the
  text is needed: the k-th line end is the one of rank k, and that there is one
  follows from least and greatest elements of sets of positions. `RingInv` says
  that what was given to `Write` is complete lines, of which the ring holds the
  last, and what waits for its line end. The lemmas are that text without a line
  end adds no line (`NoMoreLines`), and that a line after complete lines adds
  exactly one, or none if nothing is left of it (`OneMoreLine`).
* `NodesProofs!ParsedNodesSound`: whatever URI is accepted, the node satisfies
  `NodeOf`, a conjunction that relates the fields of outbound and display. There
  is a lemma for each parser and for each block it builds (TLS, transport,
  credentials). `RenderedUsable`, `ProxyListens`, `AppliedShown`, `ShownRouted`,
  `NodesSound`, `NodesHonest`, `SettingsLeaveNode` and `SummaryShown` are the
  properties of the run `nodes`, for any sets of URIs, settings, addresses and
  hand-written configurations. The inductive invariant `NodesInv` says that a
  configuration of the helper holds the node of `state.json` and the direct
  outbound, and that settings are valid while `checked`; the properties say less
  than that of the document, too little for them to survive a step.
  `SummaryShown` needs of a hand-written document only that its outbounds are a
  list: both searches stop at a least index (`FirstFound`), and there is one for
  the one search exactly if there is one for the other (`BothFind`).
* `DiagnosticsProofs!TypeCorrect`, `TestOkMeansWorks`, `TestWorksMeansOk`,
  `TestAnswered`: the safety properties of the run `diagnostics` for any numbers
  of requests, any configurations and addresses, and a world that changes as
  often as it likes. The invariant `Fits` says of each request what it remembers
  (`Remembers`: target and interface name are those of now), what its verdicts so
  far vouch for (`Vouched`: the direct address is that of the router, the tunnel
  carries) and, on a router where all works, that they are all ok
  (`Favourable`) - as long as it is calm. A change of the world ends the calm,
  and a step of one request leaves the world. `TestAnswered` is from the one
  premise that the limits and `VersionTime` add up to at most `WriteTimeout`: 3 +
  (5 + 2) + (8 + 2) = 20 s of 45 s, so 25 s are left for `sing-box version`.
* `HomeProofs!PageTrue`, `PageTyped`, `FlowsTold`, `FlowsExclude`, `PanelStays`: all but the liveness property
  of the run `home`, for any nodes and number of polls. `IInv` adds that the
  cache is the key of what is shown (`CacheOfShown`; `KeysDiffer` gives
  `CacheTrue`) and what the cards hold at each stage of a flow (`FlowOK`).

* `TabsProofs!TabsTyped`, `TabsOneTimer`, `FormShowsStored`, `ListShowsKept`: all
  but the liveness properties of the run `tabs`, for any settings, log choices,
  backups, timers, and any number of clicks and of requests under way. What a tab
  shows is true only because of what was sent before, so `TabsInv` adds that a
  tab that is not `crossed` has at most one request under way (`OneAtATime`), that
  an answer on its way to such a tab tells what the server has now
  (`AnswersTrue`), that while the list of backups is open no other tab has a
  request that may still make or remove some (`NoneElsewhere`), and that a request
  which was given up has been reported as failed (`LeftTold`), so that its late
  handling makes nothing untrue that looks true. Each action that can send, be
  handled or be used has a step for each of these. The proof asked for two things that the runs had not needed:
  that a free slot is no request (`FreeAssumption`), and that of the outcomes of a
  settings request "failed" and "saved" exclude each other (`SettingsAnswered`).

Only model-checked: liveness (`EveryRequestEnds` of `Helper` and `Diagnostics`,
`AllIsLogged`, `NodeIsShown`, `ListAppears`, `LogsCatchUp`), which rests on
fairness and so on ENABLED, where the prover has no rules.

## 5. Not modelled

* Packaging and CI: scripts outside the program.
* Handlers that change nothing and wait for nothing: `/api/preview`, the GETs of
  settings and backups (their answers are in `Tabs`), `--from-uri` without
  `--apply`.
* `readSingBoxLog`: what `ndmc` prints; the helper filters lines and keeps none.
* The layouts of JSON and YAML, time stamps and wording, `belongsHere` (what it
  refuses has no effect), power loss with unsynced pages.
* Whether `/api/status` of one moment agrees with `/api/test` of another: both
  are in `Diagnostics`, and a changed world is not judged.

What a next step would be: `Home` and `Tabs` over `Helper`, so that what the page
reports is related to the transaction it caused, and not to a server that
answers in one step; an abstract transaction ("the old configuration, the new
one, or one that can be got back") that `SerialSpec` implements, of which
`LastGoodRecoverable` and `ReplyTrue` are the two halves.

To run: `tlc -config MCTrim.cfg MCHelper`, `tlapm HelperProofs.tla`.
