# TLA+ models of DSpace-Spring

DSpace-Spring is a repository server: one Java process that starts a few services, serves web
applications with an embedded Jetty, is installed through a wizard in the browser, and stores
bitstreams and their metadata. This directory holds TLA+ models of its concurrent core and of the
scripts of its installation page, the TLC runs that check them on small instances, and proofs of
their main safety properties.

Paths are below `src/dspace-core/src/main/java/org/dspace/` (core),
`src/dspace-springui/src/main/java/org/dspace/springui/web/` (springui) and
`src/dspace-springui/src/main/webapp/public/js/` (scripts).

## 1. Inventory

### Threads

| thread | made by | runs |
| --- | --- | --- |
| main | the JVM | `Starter.main`: `init()` of every service, then `start()` of every service, then the shutdown hook is added |
| directory thread | `ConfigurationReloaderService` | `ConfigurationChangeLookup.run`: watches `config/`, lets a reloader check its file, which calls change handlers |
| installer thread | `DSpaceInstallService` | `InstallerThread.run`: waits once, executes the steps, ends |
| request threads | Jetty | controllers: the wizard, `/rest/server/install`, the rest of the user interface |
| hook | the JVM | `destroy()` of every service, then `context.close()` |
| page | the browser, one per tab | the callbacks of jQuery and of timeouts, one at a time |

### Components

| component | state | operations | interacts with | what makes it correct |
| --- | --- | --- | --- | --- |
| **Background installer** (`DSpaceInstallService`, `InstallerThread`, `StatusServerController`) | thread state; `steps`, `args`, `exception` under the thread's monitor; two more monitors to wait on | `install`, `doFinal`, `init/start/stop/refresh/destroy`, `run` | request threads hand it lists; it calls the steps; `doFinal` sets `dspace.installed` | steps in order, each once, with the inputs of one session; no lost wakeup; no step interrupted; whoever waits for it is released |
| **Configuration file and reloader** (`DSpacePropertySource`, `ConfigurationReloader`, `ConfigurationChangeLookup`, `ConfigurationReloaderService`) | file; values in memory; old value and handlers per key; the queue of the `WatchService` | get/set/add/remove a property, (un)register a handler, `check`, `run` | administrators edit the file; every part of the program stores values; handlers halt or refresh services | memory and file agree once the thread is at rest; every handler knows the current value; what is stored is saved; the thread survives its handlers |
| **Web server** (`WebApplicationService`, `Halt…`/`RefreshServiceOnChangeHandler`) | `server`, `handlers`, `watchHandlers`, `connectors` | `init/start/stop/refresh/destroy` | main, the directory thread (through handlers), the hook; registers handlers with the reloader | no deadlock between its monitor and the reloader's lock; a running server is never dropped; it does not hold up the shutdown |
| **Starter** | the order of the services | `main`, the hook | all services | what one service does wrong does not stop the others |
| **Configuration service** (`DSpaceConfigurationService`, `DSpacePropertySource`) | Spring's list of property sources; a configuration and a reloader per module | `getSource` (creates on demand), the property and handler operations, `isInstalled` | every component | one source per module and file, which follows the file and loses nothing that was stored |
| **Wizard** (`InstallController`), **interceptor** | session objects; none | one POST per step, final page; `preHandle` | the installer (session objects), `dspace.installed` | whoever followed the wizard has its objects reach the installer; after the installation nothing leads to it |
| **Installation page** (`services/install.js`, `operations/server.js`, `core/operations.js`) | timeouts and requests of a page | `install`, `checkStatus`, `getStatus`, `Operation.get` | `/rest/server`, dialogs | one question, one outcome; it goes on asking until the server is back |
| **Dialogs** (`core/dialogs.js`) | bars of jquery.noty | `error`, `success`, `question` | the user | a question is answered once; a message can be closed |
| **Classes** (`core/object.js`) | the flag `initializing`, prototypes | `extend`, `create`, `instanceOf`, constructors | all scripts | an object is initialised once, a prototype never; subclasses do not change their parents |
| **Installation steps** (`install/step`) | none | `validate`, `install` | configuration, database | their settings are complete when the refreshed context reads them |
| **Data source and session factory** (`orm/*Builder`) | static caches | `create`, `createInstall` | configuration; Spring's context | built from complete settings |
| **DAOs** (`orm/dao`) | Hibernate session and its transaction | save, update, delete, select | storage, authorization | what is reported as saved is saved |
| **Storage service** | asset stores (lazily read), rows, files | `store`, `register`, `retrieve`, `delete` | DAOs, configuration, file system | a live row has its whole file |
| **Authorization; objects, groups** | policies, hierarchy, memberships | `authorized`, `getAdminObject`, `memberOf` | DAOs, context | a decision is what policies, groups and administrators say |
| **Request context, authentication** | a context per thread | `getContext`, `newContext`, login | authorization | a request sees its own user |
| **File servlet, controllers, utilities, logger, assets, build** | none | | | |

`PROJECT.json` lists them all with their status, and, under `hazards`, the places where this code
can go wrong in a way a unit test would hardly reach, with the property that would notice.

### Hard behaviours

* `InstallerThread.install` is let in by a test of the thread's state that is made twice without a
  lock, and replaces lists which `run` may be reading. Its waits are not in loops.
* `ConfigurationReloader.check` reads a value twice, runs arbitrary handlers in between, and shares
  memory with setters that take no lock. The `refresh()` it begins with is four steps: auto-save off,
  clear, load, auto-save on; when the load fails, `check` goes on with what is left.
* The directory thread makes a new `WatchService` each turn and closes none; an exception anywhere ends
  the loop over the events that were polled.
* The web server's monitor and the reloader's lock on `lookups` are taken in both orders. A shutdown
  that gets past the web server waits for the installer.
* `destroy()` runs in the hook while the directory thread halts and restarts the same service.
* `doFinal` announces the installation before it has happened; this refreshes the application
  context, which creates data source and session factory from the settings the steps are storing.
* Several lazy initialisations are check-then-act without a lock.
* The installation page polls a server whose context is refreshed under it, and nothing cancels or
  counts its requests.

## 2. Modules

| module | models |
| --- | --- |
| `InstallPromise` | abstract: what the installer promises (one installation, steps in order, none after a failure) |
| `Installer` | the installer's thread, monitors, requests and stopping calls; implements `InstallPromise` |
| `InstallerProofs` | invariants of `Installer` and the refinement, proved |
| `ConfigReload` | one configuration file, its memory, reloader, handlers and directory thread |
| `ConfigReloadProofs` | type correctness, `MemoryFresh` and, if no handler throws, what is remembered and what handlers are told, proved |
| `WebLifecycle` | the web server's methods under their locks, called by main, directory thread and hook; where the hook goes from there |
| `WebLifecycleProofs` | type correctness, `NoCircularWait` and `RunningServerKept`, proved |
| `PropertySources` | the steps of `getSource`, of a store and of a refresh, for any thread and module |
| `DatabaseSettings` | who takes these steps: installer, requests, main and directory thread, from the settings to the session factory |
| `SettingsProofs` | all invariants of the two, proved |
| `PagePromise` | abstract: what the final page tells the user |
| `InstallPage` | the wizard, the final page with its requests and timeouts, `/rest/server`, the network; uses `InstallPromise` for the installer and implements `PagePromise` |
| `InstallPageProofs`, `WizardProofs` | the invariants of `InstallPage` and the refinement, proved |
| `ClassObject` | the class library of the scripts |
| `Dialogs` | the dialogs of the scripts |
| `ScriptsProofs` | all properties of the two, proved |
| `StoragePromise` | abstract: what the storage service promises (an entry is deleted or has all its bits) |
| `Storage` | rows, files, sessions, asset stores and the steps of the storage service; implements `StoragePromise` |
| `StorageProofs` | the invariants of `Storage` and the refinement, proved |
| `MC...` | constants for TLC; `MCInstaller`, `MCProcess` and `MCPageScripts` put modules side by side that share no state |

`InstallPromise` is used twice: `Installer` implements it, and `InstallPage` builds on it, so what
the page is shown to do does not depend on how the installer's thread keeps the promise.

Definitions marked "Fault" are variants of the action below them with a plausible bug in it. No
specification uses them; they serve to show that each property would notice.

### Installer

State to code: `worker` is the place of `run()` (and the state of the `Thread`), `monitor` the holder
of the thread object's monitor, `steps`/`args`/`failed` the fields of the same names (a list is
represented by the request it came from), `index` and `current` the loop's locals, `rpc` the place of
each request in `installAction` and both `install` methods, `session` the steps for which the
request's session holds an object, `spc` the place of each stopping call, `log` what was executed.
The blocks synchronized on `locker` and `installLocker` contain one wait or notify and are single
actions; the thread's own monitor is kept by `install()` over three steps and is a variable.

`Thread.getState()` is a choice over what it can return: a thread inside a step may be blocked on or
waiting for anything, since steps do file and database work. Reading the state twice gives two
independent answers. `step.install` returns or throws; with a null input the steps that dereference
it always throw. `Reply` may fail, which skips `doFinal`, as the catch in `installAction` does.

### ConfigReload

State to code: `file` and `mem` are the texts in the file and the values in memory (a value that the
program stored is an object, one that was loaded is text, a key that has several values a list; `kind`
tells them apart); `saver` is where a store is; `old` and `handlers` are the two maps of
`ConfigurationReloader`; `watcher`, `watches`, `queued`, `batch` and `interrupted` the directory thread;
`todo` and `look` the loops of `check` and `fireHandlers`. `told`, `removed`, `unseen` and `unsaved` are
histories.

`PropertiesConfiguration` is a library. Its setters and getters share a lock, so a store (a change of
memory, then a write of all of memory if auto-save is on) is not met by another one or by a read; a
`refresh()` takes no lock and is met by everything. `Refresh` turns auto-save off, `Clear` empties
memory, `Load` adds what the file has (a key stored in between gets two values) or fails, and turns
auto-save on. `check` logs the failure and compares what is there.

Registering waits for the lock `check` holds; setters do not, and come between any two steps of it.
Handlers are any objects: they may throw a RuntimeException, and what they do to services is in
`WebLifecycle`. Of the other files in the directory only what meets this one is modelled: their events
are in the same list, and what ends the loop over it (their handlers' exceptions, or an OVERFLOW, which
has no file name) drops this file's events (`LoopLeft`). `watches` counts the `WatchService`s made, of
which there are only so many and none is closed; registering the directory may fail (`RegisterFails`).

Left out: a file is read and written in one step, and `addProperty` looks and adds in one (only the
installer calls it).

### WebLifecycle

State to code: `server`, `known` (the keys of `handlers`) and `watch` (the keys of `watchHandlers`)
are the fields; `registered` the properties that have a list in the reloader; `held` and `lookups`
the two locks; `calls`/`pc`/`left` what each thread is doing; `starter`, `watching` and `process` the
progress of `Starter.main`, of the reloader service and of the JVM; `installer` and `closing` what the
hook finds behind this service. A call ends in three ways: it returns, it throws a `ServiceException`
(logged by handlers and hook), or a `RuntimeException` (which ends the handler's check, the hook or
main). Starting and stopping the server may both fail.

The hook goes on to the other services only after a `destroy()` that returned or threw a
`ServiceException`: `DSpaceInstallService.destroy()` looks whether its thread is alive and waits for the
end of an installation (`HookGoesOn`, `HookWaits`, whose details are in `Installer`), the reloader's
only interrupts.

Left out: which web applications and connectors are active, and Jetty's own shutdown thread
(`setStopAtShutdown`), which stops the server beside the hook. `refresh()` refreshes the application
context, which makes new service beans that nobody initialises and leaves this object as it is.

### PropertySources and DatabaseSettings

State to code: `files` are the files of the modules and `memory` the `PropertiesConfiguration`s, by
module and by the thread that made them (`made`); `source` is the one in Spring's list, `watched` the
one whose reloader the directory thread finds. `at`, `on` and `found` are where a thread is in
`getSource()`: the search, `new DSpacePropertySource`, `addReloader`, `addFirst`/`addAfter`, use, and in
a store the save. No two of these steps are under one lock. `reload` is where the refresh of
`reloaded` is, with the steps of `ConfigReload`. `boot` is the progress of `Starter.main`, `building`
where the creation of the beans `dataSource` and `sessionFactory` is, `driver`/`driverMade` and `factory`
the static fields of the builders, `remembered` the reloader's old value of the mark `dspace.installed`
(FALSE, which `isInstalled()` said, where there was none), `job` the setting the installer stores next,
`request` the request that called `doFinal()`.

A setting is there or not. A search that overlaps an addition may throw (a `LinkedList`'s iterator
does); `addAfter` throws while there is no default source. A module's file may fail to be made or
loaded (`Unreadable`): then `getSource()` returns null, a read gives null and a store does nothing. Creating the beans throws where a setting is missing, which ends the refresh of the context
and leaves the static driver as it is. A load that fails in `check` leaves memory empty, and the next
store saves it; if it was `dspace.properties`, the mark is gone from memory and its handler called. The
services of a refreshed context are new: their reloader service has a list of its own and a thread that
nobody starts (`RegisterUnwatched`). The directory thread holds the lock of the old list while it
refreshes, so others wait for it in `addReloader`. A restart keeps the files only.

`stored` (what the program saved and nobody edited), `crossed` (modules whose first use was crossed
by another one, or whose file was edited with no reloader to tell), `torn` (modules whose file once
could not be loaded, or whose refresh met a store) and `disturbed` (the driver was made before all
settings were there, while a source was added, or with a source that could not be made) are histories:
they say in which cases the properties promise nothing, and section 3 says what happens in these.

Left out: user name and password (optional, stored after the url and read after it), two additions to
the list at the same moment, which could corrupt it, and lost file events, which are in `ConfigReload`.
`dspace.properties` can always be made, without which no system is ever installed.

### InstallPage

State to code: `net` counts the requests of a page by what they ask and how far they are, `timers` the
timeouts set; `page` is what it shows (the progress bar, the confirmation, the error dialog); `form`
the step whose form it shows; `session` the steps with an object in the `HttpSession` the tabs share;
`installed`, `up`, `refreshDue` and `final` the server: the mark, whether its context is being
refreshed, whether it is about to be, and the requests about to call `doFinal()`. `given` and `log`
are the installation. `intact` and `answered` are histories. Jetty goes on while the context
is refreshed; with `up` FALSE every request may fail, which is more than happens, never less.

A request is handled or lost, and a lost install request may still be handled, also after the page
was left ("orphan"). All requests may be lost during a refresh, `MaxFailures` of them otherwise. An
answer is "ok" whatever it says: `installAction` catches every exception and answers with 200, and
`install.js` reads no more than that. Left out: a step posted under another number, other requests
that the interceptor redirects, a refresh that fails, two sessions (their pages only meet in the
installer, where `Installer` has them).

### ClassObject and Dialogs

`ClassObject`: `classes`, `parent`, `own` are the constructors, their prototypes' prototypes and own
names; `initializing` is the flag of the same name; `running` the stack of the objects whose `init`
has not returned, each of which may extend classes, make objects or throw; `prototypeInits` and
`astray` are histories. The test `fnTest` (object.js 28) is defined nowhere, so the branch that would
wrap an overriding method throws (`ExtendThrows`). `create` and `extend` called without their class
(`var f = C.create; f()`) set the flag and throw at `new this()`, before they reset it (`CallAstray`).
Left out: that every prototype also gets `instanceOf` and `constructor` (object.js 59, 72).

`Dialogs`: `place` is the state of jquery.noty's bar, `armed` the events bound with `one()`, `answers`
how often the callbacks of a question were called. jquery.noty is third-party code, modelled as far
as dialogs.js relies on it: show, the two animations, and that `close()` does nothing during them.

### Storage

State to code: `rows` and `primary` are the committed tables, `files` the directories; `listed` and
`stores` the field `assetstores` (null or not, and what it holds); `pc`, `call`, `at` and `place` where a
thread is in `init()`, `store()`, `register()`, `retrieve()` or `delete()` and its locals. `object`,
`pending` and `cleared` are a thread's Hibernate session: the objects it holds, those that will be
written, the bundles it changed. `reading` is what it was given to read last. `used`, `failed` and
`raced` are histories.

`init()` never returns to the caller that fills the list. It ends with reading `assetstore.incoming`
(DSpaceStorageService 94), and the getter of another module ignores its default and casts what is in
the file, nothing or text, to `int` (DSpaceConfigurationService 57-61): a NullPointerException or a
ClassCastException, when the list is complete (`InitThrows`, which may also come earlier). Later calls
find the list; the field `incoming` keeps its 0, so new bitstreams go to store 0 always (`BeginStore`).

`DSpaceDao.getSession` begins a transaction; nothing in the repository commits or rolls it back, so
`Complete`, `Abort` and `Crash` are external. `save()` may do nothing, since it swallows exceptions.
Writing a file takes two steps, of which the first may be left in place by an error or a crash; a
row is published by `Complete` only, all rows of the session at once.

Left out: what SRB stores do differently, fsync, objects used after their session, changes of the
configuration after the first use, a storage module whose file cannot be loaded, when a write to the
unlocked fields becomes visible to other threads, and that someone removes a registered file. A lost
`ArrayList.add` is modelled, a corrupted list is not.

In all modules memory is sequentially consistent, and library maps and lists that are used without a
lock lose, hide or refuse entries at most; that a `HashMap` or a list breaks is not modelled.

## 3. Runs

| run | question | instance and why it is enough |
| --- | --- | --- |
| `installer_safety` | With competing requests, a stop, and waits that may return without a notify: does a step ever get another session's object, is a list left with a sleeping thread, is the promise kept? And what the installation stores: do sources follow their files, in which ways only can a saved setting be lost, does the first context always come up, is the context refreshed by the mark only, is a session factory complete? | two requests (the overwriting needs two, and every action has one request as its actor), one stopping call of each kind, two steps: one that needs its object and one that does not. The inductive invariant is checked as a whole. The four threads, two modules and five settings that the code has; files that cannot be loaded or made; an edit and a restart (what needs a setting removed and brought back is left to the proofs, which have no bound). 3.2 million states |
| `installer_override` | Does the state test protect a running installation, as its comment says? | **violated** |
| `settings_torn` | Is what `DatabaseStep` stores in the file when the step is through, if nothing fails and no first uses cross? | **violated** |
| `reload_safety` | With administrators editing everything, the program storing objects under one key, and refreshes step by step: remembered values current at rest? handlers of the other key called for its changes, and for changes only? | two keys, two values, two handlers (one registered at the start, one coming and going), three changes: change, change back and one during a check; two `WatchService`s, so two batches |
| `reload_faults` | Does the thread survive throwing handlers, unreadable files, other files' events and interrupts; is a queued event checked unless it is known to be lost; do memory and file agree at rest? | one key, under which the program stores texts and objects; three changes, one interrupt, three `WatchService`s; liveness, hence no symmetry |
| `reload_missed` | If nothing fails, does every handler know in the end what the file says? | **violated** |
| `reload_removed` | Is an unregistered handler silent, as "Removes an handler" says? | **violated** |
| `process_live` | Without spurious wakeups: is a request that passed the state test served, is an installation never interrupted, does a stop that arrives during one return? And the web server: can the two locks be waited for in a circle, can a running server, or its handlers, be lost, does the shutdown get past it, whatever the handlers are doing? | the installer as above; two web applications (one being set up while the other is done), every program of main that Starter and the tests have, a port in use, a server that cannot be stopped, two checks, a shutdown at any time. 440 thousand states |
| `install_page` | With two tabs, a lost request, an expiring session and a refresh: one chain of requests per page, one outcome, and the objects of a wizard followed to its end in the installation? | two pages (all they share is the session and the installer, in which one is enough to disturb the other), two steps, one that may have no object |
| `page_scripts` | Is every object initialised once however inits nest and throw; whom does `instanceOf` recognise; do subclasses leave their parents alone; is a question answered once; does the page stop saying that it installs? | four classes (a chain of three and a sibling), two objects, of which one is made in the init of the other; two bars, three presses; one page, two lost requests. 220 thousand states |
| `storage_safety` | With two sessions, an `init()` that throws, failing saves and files: is the promise kept? Has a live row its whole file, where the next process looks for it? Is what is read of it whole? Can a row become live for a call that threw? Does a bundle keep a deleted primary bitstream? | two stores, an old bitstream that both sessions can load, a new one, a name that may be registered under right and wrong numbers, a bundle, a crash. 2 million states |
| `storage_race` | And where two threads come first? | **violated** |

`installer_safety`, `process_live` and `page_scripts` each look at parts that share no state (the
installer's thread and the settings; the same thread and the web server; the three scripts of one
page). No interleaving of such parts reaches a state of one of them that it does not reach alone, so
each is explored while the others are at their start. In `process_live` the fairness of each part is
asked of it while the other is at its start, so every behaviour of the one part, and no more, is among
those the liveness properties are checked on. For `OutcomeReached` one page is enough: its callbacks and
requests are its own, another page changes only what the installer was given and when the server goes
down, which the single page's own request does as well.

Type correctness is checked with each module but the settings and the dialogs, for which it is proved;
in the installer it is part of `Inv`.

Bounds: `MaxEdits`, `MaxRestarts`, `MaxStops`, `MaxChecks`, `MaxCrashes`, `MaxFailures`, `MaxObjects`,
`MaxNesting` and `MaxPresses` are guards of the actions that count them. `MaxWatches` is one that the
code has (a process can make only so many `WatchService`s), given a small value. `MaxFailures` bounds
only the losses while the server is up. The installer needs none, as its thread runs once. Two runs have
a CONSTRAINT: `OrderlyRestart` follows a process that was started again while first uses do not cross
and files are loaded (the first process is followed through all of it); `SessionsBound` has two
sessions at a time, of which one came first, without crashes or registered files and with the old
bitstream in store 0, or one session with all of that free. The proofs of the same properties need neither. Deadlock checking is off everywhere: the
installer ends, an idle directory thread waits for edits that the bound forbids, a halted process does
nothing, a closed page and a closed bar neither, and a storage service whose bitstreams are used up has
nothing to do.

### What the violated runs show

* `installer_override`: a request that finds the installer thread BLOCKED or WAITING inside a step
  replaces `steps` and `args` under it. The rest of the installation uses the second session's
  objects. (That a single step never mixes the two is `InputOfSameRequest`.)
* `reload_removed`: `removeHandler` collects positions as `Integer` and calls `List.remove(Object)`;
  no handler is ever removed.
* `reload_missed`: an edit that falls between the polling of one batch of events and the registration of
  the next `WatchService` has no event, and nobody reads the file again until it is edited again.
* `settings_torn`: the first thing `DatabaseStep` adds to a module wakes the directory thread, which
  refreshes the module's configuration while the step adds the rest. What is added while auto-save is
  off is not saved, what is saved when memory has been emptied takes the rest out of the file, and the
  installation goes on as if its settings were there.
* `storage_race`: `init()` publishes the list before it has filled it. Of two threads that come first
  the second puts a new list in the place of the one the first is filling, and the stores end up in
  another order; a file is then written to another directory than its row says after a restart.

### What else the models say

These follow from the actions as they stand. Where a document of the repository says otherwise it is
quoted.

Files and settings (`ConfigReload`, `PropertySources`, `DatabaseSettings`):

* An event is lost with the batch it is in when anything throws before it is handled: a handler of this
  or another file, an OVERFLOW; or when the thread is interrupted with events queued. Memory is then
  behind the file until the next edit. `unseen` marks these cases, and `EventsChecked` says that there
  are no others once an event was queued.
* No `WatchService` is closed. When no more can be made (inotify allows a user 128 on common systems),
  the loop throws, catches and logs without a pause, and nothing is watched for the rest of the process;
  `KeepsWatching` says that only this ends the watching.
* A refresh that cannot load the file leaves memory empty: handlers are told that everything was
  removed, and the next store writes the emptied memory over the file (`torn` in `NothingLost`). For
  `dspace.properties` the mark counts as taken away, and a process that has been installed all along
  refreshes its context (`torn` in `RefreshOnlyByMark`).
* A store during a refresh: see `settings_torn`; between clear and load, of a key that the
  file has, it leaves two values, a list, until the next check. `MemoryFresh` sets such keys apart (`unsaved`).
* An installed system that is started again has no session factory. The beans are created before any
  source is in the environment; `isInstalled()`, which asks the environment and not the file
  (DSpaceConfigurationService 58), says no, and the builders return null. `init()` then brings the
  default source, in which the mark is there from the start, so no change is ever told and nothing
  refreshes the context (`RefreshOnlyByMark`). `DSpaceDao.getSession()`, which "will return NULL" "if
  the configuration isn't correctly set" (DSpaceDao 33), throws a NullPointerException instead.
* It could not be otherwise without more changes: did `isInstalled()` say yes, the data source would ask
  for the source of the database module before there is a default source, and `addAfter` would end
  `Starter.main`. This is what `FirstContextSucceeds` catches when the model is made to look into the file.
* `doFinal()` comes when the installation was handed over, so the refresh may overtake it: it finds no
  driver class, fails, and leaves a static driver without settings. The next refresh (the mark is not
  yet remembered) takes it for complete: the session factory gets a data source without url. The same
  comes of a creation that finds the module's source missing. `disturbed` marks these in
  `FactoryComplete`.
* In that case the directory thread is the first to use the database module, through the services of
  the context it refreshes; the reloader it registers is in a list that no thread reads, and edits of
  `database.properties` are not noticed for the rest of the process (`crossed`).
* If installer and directory thread use the module first at the same time there are two memories of one
  file, each of which overwrites it: settings that were stored are lost from the file (`crossed`).
* A second reloader of one file is never found; which memory follows the file is a matter of luck.
* When a module's file cannot be made, `addProperty` returns false and stores nothing; the steps do not
  look at what it returns.

The web server and the storage service:

* `destroy()` after `start()` throws a NullPointerException, since it unregisters keys under which
  nothing was registered. So the halt handler stops the server without starting it again, the shutdown
  hook ends before it reaches the other services, and the service cannot be started again, which
  `WebApplicationServiceTest` (64-69) expects.
* If the server cannot be stopped, `destroy()` throws a ServiceException instead; the hook logs it
  (Starter 33-37) and comes to `DSpaceInstallService.destroy()`, which waits for the end of an
  installation: with an idle installer for ever, and the JVM with it. `ShutdownGoesOn` says that the hook
  gets that far, or to its end; a service that was initialised and never started (not by
  Starter) leads there as well.
* The first call of any method of the storage service throws, always (`InitThrows`). New bitstreams go
  to store 0, the first numbered one, whatever `assetstore.incoming` says.
* What `store()` returned need not have a row: `save()` swallows every exception (DSpaceDao 70), nobody
  in the repository ends a transaction, and a session may be aborted. The stored file stays.
* A session that is aborted leaves no row of a stored bitstream, although the interface says that the
  entry remains, marked as deleted (StorageService 60-62): it belongs to the same transaction as
  everything else.
* `retrieve()` looks neither at the row nor at its deleted flag: a deleted bitstream, or one whose
  `store()` failed, is handed out, whole or in part, while the interface says that it throws "if the
  bitstream does not exist, or is marked deleted" (StorageService 24-25). `ReadsWholeFiles` is about
  live ones.

The installation page and the scripts:

* The page can tell success although no installation runs: `statusAction` is always true, an answer
  that carries an exception counts as one, and a request that was dropped is answered with success.
  "DSpace installed successfully" (final.html.twig 42) means that the server answers.
* The page can tell an error although the installation runs, when the answer is lost; the progress bar
  stays under the dialog. The dialog's advice to refresh the browser leads to a 404 once the system is
  marked as installed.
* The wizard's objects are the session's: a second tab whose step has no object removes the first
  one's, and a timeout empties the list, so the request hands over less than the user entered
  (`FollowedWizardFeedsInstaller` is about steps that always have an object, in a session that lasts).
  Who did not follow the wizard may start an installation without objects.
* A method that has the name of an inherited one cannot be defined: `extend` throws a ReferenceError
  (object.js 28; the comments in 26 and 33 describe what should happen).
* `instanceOf` compares inits (object.js 61), which its comment calls "to the best of my knowledge"
  right (57). It recognises an object by the class that gave it its init and by all descendants of that
  class, siblings of the object's class among them; an ancestor above that class is not recognised.
  An object without an init is recognised by all classes without one.
  `RecognisedByInit` states exactly this.
* `create` or `extend` that is called without its class leaves `initializing` set (object.js 20, 77):
  what `new` makes from then on is not initialised, until the next `create` or `extend` resets the flag.
* A question pressed while its bar opens or closes calls its callbacks more than once, as `close()` does
  nothing then (`rushed`); a message that was clicked and touched while it opened cannot be closed any
  more.

The rest:

* A request that finds the installer RUNNABLE is dropped, and answered with success.
* A stop of an idle installer waits until an installation ends; one that comes after
  `notifyInstallFinish()` waits for ever; a refresh after an installation throws.
* A spurious wakeup of the idle installer kills its thread (the list is null), and no one who waits
  for the end of an installation is notified.
* For keys that the program stores, `HandlersTold` does not hold: between the two reads of a value a
  store is remembered without being told, a second registration hides a change from the first
  handler, and a value that changes its class is not reported.
* Auto-save writes over edits of the file it has not seen. `MemoryFresh` says that the two agree
  afterwards, not that the administrator's edit survived.
* A thread that finds the list of asset stores while another fills it fails with an index out of
  bounds. Its row is marked as deleted: nothing is lost.
* `delete()` of a bitstream that was stored in the same session throws a NullPointerException; the
  list of bundles of a new object is null.
* `PrimaryNeverDeleted` holds while no one makes a bitstream primary that another session deletes;
  the repository has no caller that sets a primary bitstream.
* A throwing handler ends the check of the other keys, whose changes are not told until the next edit;
  the key's own old value is not replaced, so its handlers are called once more. `OldValuesCurrent`,
  `HandlersTold` and `CalledForChanges` need handlers that do not throw.

### Fairness

Weak fairness of whatever a runnable thread does next: the JVM gives every runnable thread the
processor, a monitor that is released again and again is got in the end (each is held for a few steps
and by at most a handful of threads, and no liveness property has a thread competing for ever), a
step of the installation and a change handler return or throw. Nothing is assumed of the outside: no
request, edit, stop, shutdown, spurious wakeup or change of a property has to happen.
`AcceptedIsServed` is checked without spurious wakeups, `EventsChecked` speaks of
the time after the last interrupt (an interrupt drops the queue). A store that has changed memory saves
the file in the end. That an installation ends is not assumed for the shutdown: the hook may wait.

For the page: a browser calls the callbacks of finished requests and expired timeouts, a request is
handled or lost (jQuery calls `error` for it in the end), and a refresh of the context ends.
`OutcomeReached` rests on these and on the bound on losses while the server is up: were every answer
lost, the page would rightly go on asking. Nothing is assumed of the user, of the installation or of
the session. The settings and dialogs have no liveness property.

## 4. Proofs

All theorems hold for every value of the constants that satisfies the module's assumption.

**Installer** (`Invariance`, from which `TypeCorrect`, `InputsNeverTorn`, `WakeupNeverLost`,
`InstallationNeverInterrupted`; `PromiseKept`). Assumed: at least one step, and that the two special
values are no requests. `InputOfSameRequest` is not inductive: one has to know that outside
`install()` both lists are one request's (`ListsInv`), that inside it the request holds the monitor
the thread needs to read them (`MonitorInv`), and that the session of a request whose list is used is
fixed. `NoLostWakeup` rests on `HandoverInv`: a request that saw a live thread that was neither
BLOCKED nor WAITING is turned away, so nobody hands a list to a thread that has not begun to wait.
`LoopInv` and `ErrorInv` tie the loop to the log; they are what the refinement needs: each step of
`Installer` is a step of `InstallPromise` or leaves its `phase` and `log` alone. Nothing in it
depends on spurious wakeups, except `InterruptInv`.

**ConfigReload** (`TypeCorrect`, `MemoryStaysFresh`). Assumed: sets of keys and handlers, no value is
`Null`, `Many` stands for no text, and that the handlers registered at the start are different objects,
as every caller makes its own. `FreshInv`: memory and file differ, in a key no store is to save, only
while an event is queued or polled, a refresh is under way, or a change is known to be missed. A save
makes them agree and clears `unsaved`; a load does so for every key that was not stored since memory
was emptied, or fails and marks the file as unseen; a batch that is cut short marks it too. No bound on
edits, stores or `WatchService`s is used.

If no handler throws (`Calm`: `Throwing` is empty; a throwing handler does break these, see section 3):
`OldValuesStayCurrent`, `HandlersGetTold` and the action property `OnlyCalledForChanges`. None of the
three properties says anything of a check that is under way, so `CalmInv` has to: keys are left to be
checked only while the check holds the lock on `lookups`, and the value it took is the one in memory, a
store is still to be saved, or a change was missed (`CheckInv`); the old value of a key is the current
one, unless a check of that key is to come, a refresh or a store is under way, an event is queued or
polled, or a change was missed (`OldInv`); and of a key that only an administrator changes, which is
text in memory and in the file, both reads see one value, the handlers before `look.at` know the new
one, and the others the old one (`ToldInv`). A handler is in a key's list once, which is where the
assumption on the handlers is needed. Unlike `reload_safety`, the theorems allow failing loads, other
files' events and interrupts.

**WebLifecycle** (`TypeCorrect`, `LocksNeverCircular`). Assumed: main calls any sequence of init,
start, stop and destroy before it starts the reloader. `LocksInv`: only the directory thread keeps
`lookups` from one step to the next, and the monitor is kept only inside start and refresh.
`OrderInv`: the directory thread runs only when main has made its calls, holds `lookups` whenever it
calls the service, and the hook calls nothing but destroy, which is not synchronized. So the one
thread that could hold the monitor and want `lookups` is the one that has it. This is why the order
of two beans in `applicationContext.xml` (lines 19 and 20) matters: with the reloader first, TLC
finds the circle.

`RunningServerAlwaysKept` (the action property `RunningServerKept`) is proved for every program of
main that initialises no service it has not destroyed (`OrderlyMain`; Starter and the tests call
`init()` first or not at all). The property holds for a surprising reason, which the invariant
`KeepInv` spells out: `start()` files the connectors' handlers under keys that nobody registers
(`Filed`), so each `destroy()` from then on has at least one key left that makes it throw
(`FiledInv`). Hence the directory thread, which halts only a service that was started, never comes
past its `destroy()` to `init()` (`HaltInv`), and the hook never to the end of it. Before the first
`start()` there is no running server, and only main is at work (`ProgramInv`). `HeadInv` says which
method a thread is in.

**PropertySources and DatabaseSettings** (`SettingsTypeCorrect`, `SourcesStayCurrent`,
`NothingEverLost`, `FirstContextAlways`, `RefreshOnlyByMarkAlways`, `FactoryCompleteAlways`). Assumed:
the threads, modules and settings that the code has, by name (they are constants for the sake of
`PropertySources`); proved for any number of edits and restarts, with files that may or may not be
loaded. The steps of `getSource`, of a store and of a refresh keep `SourceInv` (who holds a
configuration holds one that was made), `SaveInv` (one thread saves a configuration at a time, and
unless the module is torn none saves one that is being refreshed) and `CopyInv`: until first uses
cross, a load fails or a store meets a refresh, a module has one configuration; what was saved is in
file and memory, unless memory was just emptied; and memory equals the file up to a check that is due
and a store that is being saved. `MainInv` is why the first context never fails and later uses of the
default source never create one: main makes it in `init()`, before any other thread runs. `MarkInv`
ties the mark in the file to the mark in memory and to what the reloader remembers, for restarts, as
long as `dspace.properties` is not torn: then memory loses the mark only between clear and load, when
no comparison is made. `FactoryInv` follows the driver through its settings; with `CopyInv` it shows
that a creation that began with all settings in the file finds them.

**InstallPage** (`TypeCorrect`, `OneChainAlways`, `PagePromiseKept`, in `InstallPageProofs`). Assumed:
at least one step, and that the two special values are no pages. `PageInv` adds to the count of a
page's requests and timeouts what the server has answered: a request on its way was not, one with an
answer was. It is inductive page by page, since an action of one page leaves the others' requests
alone. The refinement maps the page's requests to what it tells; each step is one of `PagePromise`'s or
leaves its variables alone.

**The wizard** (`FollowedWizardAlways`, in `WizardProofs`). `FormsInv`: the forms a page has behind it
are in the session while it lasts, all of them as long as its request, or the orphan of it, is on the
way. `FedInv`: so they are in what the installer was given by that page and in what its steps got.
Most actions keep both because they are `Quiet` for a page: they neither take from the session nor
add a request.

**Storage** (`Invariance`, from which `TypeCorrect`, `FailureAlwaysLeavesDeleted`, `PrimaryStaysLive`;
`LiveRowsKeepBits`, `ReadersGetWholeFiles`, `OneThreadKeepsBits`; `StoragePromiseKept`). Assumed: the
special value is no key, directory, row or call, keys are no paths, and the configured stores, of which
there is at least one, are directories. None of
the properties is inductive, since each speaks of what is committed and the hazards are in the
sessions before. `Inv` follows a key through its life: fresh, and known to nobody (`FreshInv`); in the
hands of the one thread that stores or registers it, with a deleted object in that thread's session
(`MakerInv`, `ObjectInv`); a row, whose file is whole if it is live (`RowInv`), of which sessions hold
copies, and which they write again only as deleted (`PendingInv`). So a failed call leaves an object that nobody will make live, whatever
becomes of the session, and `Complete` publishes no live row whose file is missing (`FileInv`). The
refinement is proved step by step: each step of a thread is one of `StoragePromise`'s, or leaves rows
and written files alone. It holds with any number of threads, also with those that race in `init()`.

*Where* the bits are is another question. That a live row's file is where the next process looks for it
(`BitsStored`) is false when two threads come first, as `storage_race` shows. `LiveRowHasBits` and
`ReadsWholeFiles` are about behaviours where that did not happen (`raced`). `RaceInv`: then at no time two
threads are between the test of the field and the end of `init()`, which is all that is missing in the
code. So the list is a beginning of the configured one (`ListInv`), also when `init()` threw half-way,
and whoever found an entry in it found the configured directory (`PlaceInv`). In `OneThreadKeepsBits`
there is one thread, hence no race, and `BitsStored` itself holds of every behaviour.

**The scripts** (`ScriptsProofs`). Dialogs (`DialogTypeCorrect`, `CalmQuestions`, `OnlyHasteSticks`):
`BarInv` says of each place of a bar what was bound and answered on the way there; presses and
gestures that come while the bar moves are `rushed`, and all others find the bar open.

Classes (`ClassTypeCorrect`, `InitAlwaysRunsOnce`, `InstancesRecognised`, `ExtendAlwaysIsolates`).
Nothing assumed but that there is a root, `init` is a name, and that it is not built in. `Lookup` and
`Ancestors` walk the chain of prototypes recursively, and an induction over data is out of reach here.
The proof makes it one over steps: `TreeInv` says that the recursion along `parent` has exactly one
solution for every name. That holds of the one class there is at the start; `extend()` adds a leaf, on
which nothing else depends, so the one solution of before, with one more value, is the one solution
after it (`ChainGrows`, `LineGrows`). With this, `Lookup` of an old class does not change
(`ExtendIsolates`), and a new class has its parent's init or one of its own, the latter only where
the parent has none (`InitInv`), which is what `instanceOf()` amounts to. The flag `initializing` is
set between calls exactly when the last one went astray (`ClassInv`), so the inits of nested calls run,
also after an `extend()` that threw, and only an object that `new` makes then has none.

Only model-checked: the liveness properties (`AcceptedIsServed`, `StopperReleased`, `EventsChecked`,
`KeepsWatching`, `ShutdownGoesOn`, `OutcomeReached`), since neither fairness (ENABLED) nor a leads-to is
in the prover's reach. Every invariant and every action property of the passing runs is proved, those of
`ConfigReload` named above under the hypothesis that the run has too, that no handler throws. The
violated properties are of course not proved.

## 5. Not modelled

* Authorization, objects, groups: a decision is a pure function of what is in the database, and the
  walks up the hierarchy read only. No two actors share a state there, and no document says what the
  decision should be beyond its code.
* The context per thread (`DSpaceContextService`): one variable, filled once and never cleared. It is
  what its interface documents; a pool that serves several users would need more, but no request
  handler asks for a context yet.
* `main.js` requires a module that does not exist (`lyncode/dao/harvest`), and no page loads it;
  `Operation.post`, which no script calls; `asset.js`, `url.js` and `config.js`, which join strings.
* Validation in the steps, the database's tables, mail settings: pure, Hibernate's, never read.
* What is left of the modelled parts is named with each module in section 2.

Rendering, parsing of parameters, accessors of entities, queries (Hibernate's), the file servlet,
utilities, third-party scripts and the build keep no state that two actors share.
