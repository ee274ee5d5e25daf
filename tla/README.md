# WaterTime: TLA+ models, model checks and proofs

WaterTime is an iOS application of small demonstrations (`src/iOS/WaterTime`), each
behind a row of one menu. It has no README and its test targets are the empty
templates, so this project reads the code itself. One row installs the crash recorder
KSCrash and crashes; the recorder is vendored (`src/iOS/Pods/KSCrash`), but it is most
of the C and C++ of the repository and the part with the hardest behaviour.

The project models the parts that keep state between callbacks, threads, calls or
launches, checks them with TLC on small instances, and proves what matters most with
TLAPS for every instance.

File names below are relative to `src/iOS/WaterTime`, those of the recorder to
`src/iOS/Pods/KSCrash/Source/KSCrash`.

## 1. Inventory

### Parts of the application

| Part | State | Operations | What is hard | What makes it correct |
|---|---|---|---|---|
| **Bounded queue**, `UI/BaseService/Swizzling/queue.c` | ring `buf`, `pos`, `length`, `closed`; mutex, one condition variable | create, put, get, close, length, free | threads blocked for two different reasons on one condition variable, spurious wakeups, wrap-around in `uint32_t`, close while threads sleep, asserts | first in first out, nothing lost or doubled, no lost wakeup, asserts that cannot fail except the documented one |
| **Wild-pointer catcher**, `NSObject+Swizzling.m` | the queue of kept memory, `unfreeSize`, `dict` | `myDealloc` (any thread), `deallocAllObjs`, every method of `Catcher` | the length is read under the lock and acted on after it; memory is reused | no double free, exact account, nobody sleeps in the queue |
| **GIF to video**, `UI/CoreVideo/GIFDownloader.m` | array of URLs in work, operation queue, video writer | send, download, clear the old file, convert, complete | main thread, five operations and the writer's thread share an unlocked array; every step can fail | one conversion per URL, one answer per request, a URL leaves the array when its work is over |
| **Reachability**, `Foundation/Network/NetState/Reachability.m` | callback and queue of SystemConfiguration, `reachabilityObject`, two blocks | start, stop, dealloc, callback, questions about the flags | callbacks on a serial queue while the main thread stops and releases; an unretained context; coalesced changes | the object lives while it notifies and is not called when it is gone, the last call is true, the answers to the questions agree |
| **Network state screen**, `UI/Network/WTNetworkStateViewController.m` | its Reachability, a label | load, blocks, button, dealloc | one answer is several reads of a changing network; leaving meanwhile | the label settles on the truth, nothing leaks, quiet after leaving |
| **Article text view**, `UI/UI/TextView/.../NTCArticleTextView.m` | text storage, dictionary location → view, views | type, delete, insert image, close button | keys go stale; a loop over unordered keys rebuilds the dictionary it reads; the button acts after an animation | text, dictionary and views agree when they can, and never show a forgotten or lose a cached view |
| **Wheel**, `UI/UI/View/WTCricleView.m`, `WTCricleCell.m` | angles, centres, `_drag_point`, `_is_drag_animation`, `_current_index` | pan began/moved/ended/cancelled per cell, `animationDidStop` | several fingers share one drag point; animations are replaced and report late; index arithmetic modulo the number of cells | cells stay a wheel, rest on their slots, turn the short way |

### Parts of the crash recorder

| Part | State | Operations | What is hard | What makes it correct |
|---|---|---|---|---|
| **Sentries**, `Recording/Sentry/*`, `KSCrashC.c`, the thread calls of `Tools/KSMach.c` | one crash context, `g_threads_are_running`, two exception threads, installed handlers | trap by exception port, signal, NSException or a call; suspend, record, uninstall, resume, pass on | two threads crash at once; the handler crashes; threads suspend each other in the middle of a loop | the process dies of its crash, one thread at a time records, user reports come back with every thread running |
| **State**, `Recording/KSCrashState.c` | counters and durations, the file that carries them | install at the start or from a screen, active/inactive, foreground/background, crash, terminate, save, load | a kill between two writes, a file that does not open, a failed write, a crash during a save | what the next launch reads about the last one is true |
| **Report**, `Recording/KSCrashReport.c`, `Tools/KSBacktrace.c`, `KSDynamicLinker.c`, `KSSignalInfo.c`, `KSMach_*.c` | the report file, section by section | standard and minimal report | stacks that are short, long or lack a link register; four processors with registers of their own; a stack pointer anywhere; images that are damaged; a user's handler in the middle | every frame is accounted for and named after the function that called, the parts of a thread agree with each other, sections stay in their places |
| **Introspection**, `Tools/KSObjC.c` and `KSCrashReport.c` | the memory of the crashed program | what a pointer is, classes, ivars, strings, search | dangling and overwritten objects, circles, UTF-16 cut in half | intact classes are read without a fault, what is shown stays in the bounds |
| **Readers and writers**, `Tools/KSMach.c`, `KSString.c`, `KSFileUtils.c` | none | copy what can be copied, test for text and names, find a number in a text, write and read whole files | memory that ends anywhere, text cut in a character, calls of the kernel that move less than asked | as much is copied as can be, only text is taken for text, a short write leaves a beginning |
| **JSON codec**, `Tools/KSJSONCodec.c` | nesting, the text so far | encoder call by call, decoder | a file that stops growing at any piece, strings refused half written | what was written is read back |
| **Demangler**, `swift/Basic/Demangle.cpp`, `Punycode.cpp` | the rest of the name, substitutions | parse, print | abbreviations count declarations; parentheses are left out | the tree the name was written for, words that tell names apart |

### How the parts interact

* The catcher is a client of the queue: `myDealloc` calls `ds_queue_length`, then
  `ds_queue_put`; `deallocAllObjs` calls `ds_queue_length`, then `ds_queue_get` that often.
* The network screen owns one Reachability and gives it two blocks; the blocks run on
  Reachability's serial queue and hop to the main queue.
* The GIF screen (`WTCoreVideoViewController.m`) makes one request of the shared
  downloader and plays the file in the handler.
* The text view screen creates one article text view; attachments report the close button to it.
* The menu (`ConfigFiles/WTMainTableConfigUtils.m`, `WTMainTableJMPController.m`) maps
  each row to one screen and pushes it. Screens do not know of each other.
* All of the screens share the main thread and main queue. `AppDelegate.m:31-53`
  makes a block of the main queue run the run loop for ten seconds, so that other
  blocks of the main queue may be late while events still arrive. The models let any
  number of events pass before a block runs, and so cover this.
* In the recorder a sentry fills the one crash context and calls `kscrash_i_onCrash`,
  which notes the crash in the state file and writes a report; the report writer asks the
  introspection about memory and hands every element to the encoder, which hands pieces of text to
  the file. The next launch reads the state file with the decoder; the report store runs the
  demangler over the names in a report.

### Parts without a model

`PROJECT.json` lists every part with its reason. In short: screens that make one call of
a system service and show the text; views that only compute frames (base screens, tab
bar, collection view layout, sticker view, blur); the text storage and the base text view of the
editor, which no screen uses or uses with their features off; `AssetHelper`, which is
third-party and not called; the Core Data template, which no screen opens; the empty
tests; the Mac window; the font screen (a timer that retains it), the URL protocol screen
(a process-wide flag) and the menu, small enough to read; ReactiveCocoa, which is linked and not used;
and of KSCrash the Objective-C interface, the report store, filters, sinks and installations,
which work on finished reports, the C++ exception and deadlock sentries and the zombie tracker.

## 2. Modules

| Module | Models | Uses |
|---|---|---|
| `ClosableFifo` | abstract: what `queue.h` promises, one step per finished call | |
| `DSQueue` | `queue.c`, one step per stretch between mutex operations; refines `ClosableFifo` | instance of `ClosableFifo` |
| `DSQueueDrain` | the life of a queue: producers, close, consumers that loop until NULL, join, free | extends `DSQueue` |
| `WildPointerCatcher` | `NSObject+Swizzling.m` over the queue, step for step | extends `DSQueue` |
| `GIFDownloader` | `GIFDownloader.m` on main thread, operations and writer | |
| `NetworkFlags` | the pure questions about flags and radio in `Reachability.m` | |
| `Reachability` | the notifier of `Reachability.m` | extends `NetworkFlags` |
| `NetworkStateView` | `WTNetworkStateViewController.m` over the notifier | extends `Reachability` |
| `ArticleTextView` | `NTCArticleTextView.m` with the button of `NTCArticleImageAttachmentView.m` | |
| `CricleView` | `WTCricleView.m`, `WTCricleCell.m` | |
| `CrashSentry` | the crash handlers and their threads, step by step | |
| `CrashState` | `KSCrashState.c` over several launches, the save field by field | |
| `Introspection` | what the report says of memory: `KSObjC.c` and `kscrw_i_write…Contents` | |
| `MachineContext` | the registers of a thread on the four processors, and what lies around its stack pointer: `KSMach_*.c` | extends `Introspection` |
| `CrashReport` | `KSCrashReport.c` with backtraces, symbols and the names of faults | extends `MachineContext` |
| `RecorderTools` | the pure readers and writers below the recorder: `KSMach.c`, `KSString.c`, `KSFileUtils.c`, tagged strings and names of `KSObjC.c` | |
| `JSONCodec` | the encoder, call by call, and the decoder | |
| `Punycode` | `Punycode.cpp` | |
| `SwiftDemangler` | the parser of `Demangle.cpp` | extends `Punycode` |
| `SwiftPrinter` | its printer | |
| `SwiftMangling` | external: how the compiler writes a name | extends `Punycode` |
| `SwiftNames` | the trees whose names are tried | extends `SwiftMangling` |
| `SwiftReadBack` | demangler, names and printer together | extends `SwiftDemangler` |
| `*Proofs` | theorems about the module of that name (`ScreensProofs`: about `Reachability` and `GIFDownloader`) | extend it and TLAPS |
| `MC*` | constants, inputs and symmetry for TLC; `MCQueueAndPair`, `MCScreens`, `MCCrashPath` and `MCRecorder` put several systems side by side, of which the variable `part` says at the beginning which one runs | extend or instantiate what they check |

`PROJECT.json` maps every definition that stands for code to its lines. Definitions whose
comment says *Mutant* are not part of a model: each is a plausible mistake in the
definition it names, and replacing that definition by it makes a property of the run
fail. They show that each property depends on the code.

### How state and actions correspond to the code

**DSQueue.** The ring variables are the fields of `ds_queue_t`. `pc[t]` is the place of
thread `t` in its call: `Lock` is `pthread_mutex_lock` (also the one hidden in
`pthread_cond_wait`), `PutWaits` and `GetWaits` are `pthread_cond_wait`, which gives up
the mutex and sleeps in one step; `SpuriousWakeup` is what POSIX allows. `PutStores`
and `GetTakes` are the rest of a critical section with `pthread_cond_broadcast` and
unlock: nobody else can look at the ring between them. A failing assert sets `aborted`
and stops the process. `pos + length` is computed modulo `UInt`, the width of
`uint32_t`. A fresh slot holds `Garbage`, since the buffer comes from `malloc`.
After an abort no step is possible.

**WildPointerCatcher.** `at[t]` is the place of a thread in `myDealloc` or
`deallocAllObjs`; the calls on the queue are those of `DSQueue`, interleaved with everything
else. `mem` says of each address whether it holds a live object, a caught one or
is free; `Alloc` reuses it. `dict` feeds the report only and is left out.

**GIFDownloader.** One request is one `sendAsynchronousRequest:` with its handler;
`at` is its place in the code. A call on the array has a beginning and an end. Two overlapping
calls of which one mutates are undefined behaviour for `NSMutableArray`: `Next` is
disabled from there on (`ArrayRace`) and nothing is claimed about such executions.
The pixels, the files and the URL cache are left out.

**Reachability.** `callback` and `attached` are the two registrations with
SystemConfiguration; `notice` is a watched change that was not delivered; `serial` is
the callback on the serial queue, with the places between which the main thread can
act: after the callback was picked, after it was entered, between the test of a block and
its call, and before the notification is posted. `Alive` is the reference count, reduced
to who refers to the object. Entering a freed object or calling a nil block is
undefined; it sets `broken` and the model stops. `wanted`, `stirred`, `late`, `lastCall` are
history.

**NetworkStateView.** `main` is the place of the main thread in `viewDidLoad`, `dealloc` or
`currentReachabilityString`, which is modelled question by question, each reading the flags
anew (`Ask2G` … `AskWiFi`).

**ArticleTextView.** `text` is the storage, one character per attachment; `cache` is
`_imageViewCache`; `shown` are the subviews. `Edit` is `shouldChangeTextInRange:` with the test of
`willProcessEditing`, and `RemoveView` is one round of its loop over the keys. `faded` and
`closing` are the button between its click and the end of its animation.

**CricleView.** `angle` is `current_radian` of each cell and `place` its centre, both in
whole positions. `ReviseCirclePoint` is `reviseCirclePoint` with the loop over
`animateWithDuration:…`; `AnimationEnds` and `LateStop` are the calls of
`animationDidStop:` for an animation that ran out and for one that was removed or
replaced.

**CrashSentry.** `Script` lists what each handler does in order; `handler[t]` and `at[t]` say
which thread is where in it, `loop[t]` is the index in the loop over the threads, one
`thread_suspend` or `thread_resume` a step. `suspended` are the suspend counts of the kernel,
`running` is `g_threads_are_running`, `context` and `reserved` are the fields of
`KSCrash_SentryContext` that decide anything, `reports` the files by report ID and kind. A fault is a message
to the exception port while the ports are ours, and a signal otherwise (`Trap`); both are external.
`Fault` is a crash of the handler itself while it writes. The executions begin where
`kscrash_install` returns, with any of the sentries whose installation the system may refuse missing.

**CrashState.** One process is one launch; `now` is the clock. A save is the sequence of its
writes, each of which may fail, and the process may be killed between any two; the save may also fail to open the file
(`OpenFails`), which then stays whole as an earlier launch wrote it. A load reads the fields up to where the file was cut, or
cannot read it at all. A launch begins inactive or in the background, where the recorder is installed at the start, or
active, as in this application, whose crash screen installs it when it is visited and adds its observers again at every
further visit (`InstallAgain`). `BecomeActive` to `Terminate` are the notifications of `KSCrashState.c` with the calls in `KSCrash.m` that make
them. History variables hold what really happened, for the properties to compare with: `lastEnd`, how the last launch ended;
`behind`, what a file that was not opened holds back; `misled`, that this launch could not read the file or read one that still
told of an earlier crash; `tainted`, that a count was lost for a reason the property names.

**CrashReport, Introspection.** All other threads stand still, so a report is one deterministic pass
over the crashed process, and the inputs vary: `mem` (what stands at each address, when it is
taken for an object, a class or characters), `threads` (program counter, link register, frames), `images`,
`cpu` with its table of registers, `crash` and `config`. A tagged pointer has a slot of the table of classes, an
array its entries or a store that is read without asking. Addresses of the stack are modulo `Space`, as the
code's sums are. `todo` is what is left to write, `reportFile` the elements written with the containers
each is in. Signals have the names of `KSSignalInfo.c`, which lacks two of them (`NamedSignals`). The user's handler may call the writer in any order up to `MaxUserCalls` times.

**JSONCodec.** One action per `ksjson_…` call; `AddBytes` is the callback that may fail from any piece on.
A double is printed with `%lg`: what is not finite gives a word the decoder stops at, the others lose digits, a table from
values to printed numbers (`Lg`). The decoder is a recursive reading of the text and runs when the document is done. `events` is what the caller
meant, `refused` that the encoder refused a value. An escape of the decoder is a function of the characters at hand (`UnescapeUnit`, `Pair`).

**RecorderTools.** Functions without state, each checked against a reference definition over all small inputs, once, in the
initial state *tools* of the run `recorder`.

**SwiftDemangler.** The recursive descent is unrolled: `goals` is the call stack as a sequence of what its
functions are still to do, a `demangle…` function is a row of rules, and a step chooses the first rule whose test
succeeds or does the work of one goal. A letter of a name is one token; a counted identifier and a number of one
digit are one each. `SwiftMangling` writes names from trees, which the repository does not contain; it
is external and written from the grammar in the comments and what the parser accepts.

External code is modelled from how this code uses it, and marked external: the scheduling of
pthreads, `malloc`, SystemConfiguration, GCD, `NSOperationQueue`, `AVAssetWriter`, UIKit's
text system and gesture recognizers, Core Animation, the kernel's exceptions and signals, the Swift compiler.

## 3. Runs

| Run | Instance | What it shows |
|---|---|---|
| `queue` | part *free*: 3 threads, 2 items, capacity 2, any call at any time; part *pair*: 2 threads that both deallocate and purge, 3 objects | mutual exclusion and no lost wakeup (`NobodyStuck`), which asserts can fail (`AbortsOnlyClosed`), `DrainedForever`, and `RefinesFifo`: the locked ring is a closable FIFO. In the catcher's use every dealloc returns and only a purge robbed by another one may stay inside (`PairReturns`) |
| `queue_blocked_put` | as *free* | **violation** of `BlockedPutIsAdded`, see findings |
| `queue_drain` | 2 producers with 2 items each, 2 consumers, owner, capacity 2 | under the documented protocol every item is at one place and each producer's order is kept (`DeliveredInOrder`), no assert fails and nobody is inside when the queue is freed (`ClosesSafely`), and every execution gets there (`EverythingDrained`) |
| `catcher` | 3 threads, 1 of them purging, 4 objects, limit 1, capacity 3 | memory is kept at one place and freed once (`KeptOnce`), `SizeIsKept`, and neither a dealloc nor a lone purge ever sleeps although both act on a stale length (`NeverSleeps`) |
| `catcher_leak` | 2 threads, 3 catchable objects; counted are the objects caught that no thread still has in hand | **violation** of `AtMostMaxKept`, see findings |
| `gif_refused` | as *gif* below | **violation** of `RefusedOnlyWhileProcessing`, see findings |
| `screens` | part *label*: off, WiFi, 2G, 4G and 3 changes; part *notifier*: the same networks, a client that starts, stops and releases in any order; part *gif*: 4 requests, 3 for one URL, 1 slot | a notifier is in force and exists from start to stop and at most one callback comes after (`NotifierMode`), the last call is true (`LastCallIsTrue`), the questions agree for all 128 sets of flags (`QuestionsAgree`); the label ends on the truth, except after a change of the radio technology alone, of which nobody is told (`LabelSettles`) and the screen leaves nothing behind (`LeavesCleanly`); one conversion per URL, covered by the array (`UrlsGuarded`), each handler called once (`HandlerCalledOnce`) and each request answered (`EveryRequestAnswered`) |
| `text_view` | 3 images, text of at most 5 characters | what stays true although keys go stale, and when a deletion keeps everything in step (`CacheInStep`); inserted images stand on a line of their own and the button takes nothing but its image (`EditsAreLocal`) |
| `wheel` | 6 cells, 3 positions per slot, fingers on 3 cells | the cells stay a wheel and follow a single finger (`TurnsAsHeld`); let go, they come to rest on the slots the short way (`ComesToRest`) |
| `crash_path` | part *handlers*: 4 threads, 2 crashes or user reports, 1 fault inside a handler; part *names*: some hundred mangled names | one thread at a time records (`RecordsAlone`), the report is about a thread that crashed (`CrashReported`), user reports leave nobody suspended (`NobodyLeftSuspended`) and return (`CallReturns`), the process dies of its crash (`CrashDies`); a name is read back as its tree (`ReadsBack`), and the words printed tell it from the others (`PrintsApart`) |
| `crash_sentry_reserved` | 1 crash | **violation** of `ReservedNotSuspended`, see findings |
| `recorder` | part *report*: six families of crashed processes; part *encoder*: any 4 calls; part *state*: 3 launches; part *tools*: one state | see the next table |

| Property of `recorder` | Says |
|---|---|
| `IntactClassesAreSafe` | while classes, strings and stores are intact, no pointer makes the recorder crash |
| `MemoryShownInBounds` | the search from an address ends within its limits and strings are shown in whole characters; the readers of `RecorderTools` keep to what can be read and agree with their references |
| `BacktraceTrue` | each frame is in the report or counted as skipped, an overflow is told from a long stack, and a caller is named after the function that made the call |
| `MachineShown` | the registers of a thread agree with the start of its backtrace and with the address of the fault, the dump of the stack with the words whose objects are shown |
| `SectionsInPlace` | sections come in their order, each in its container, also if the user's handler leaves containers open |
| `FaultNamed` | the fault is named by the code it was raised with, and its signal by name wherever the table of names has it: not `SIGTRAP` and `SIGEMT` |
| `WrittenIsRead` | what the encoder accepted is what the decoder hands out, doubles with the digits `%lg` leaves, up to the first double that is not finite, where the decoder reports an invalid character; a file that stopped growing is not taken for a whole one, and escapes are read as UTF-16 |
| `CrashedLastMeansCrash`, `CountersTrue`, `TimesTrue` | the next launch is told of a crash just when the last one crashed; launches are counted exactly and no session is invented; the times are those spent. The exceptions are named in the properties: see section 5 |

### Bounds and why they are enough

* **Capacity 2** is the least at which the ring has a full, an empty and an in-between
  state and at which `pos` wraps with items on both sides. **UInt = 2 × Capacity** is the least
  width the assumption allows: the sum `pos + length` reaches its last value. Three threads let two
  sleep for different reasons while a third one wakes them.
* **StealLimit 1, Capacity 3, 3 threads** is the tightest instance of
  `Capacity >= StealLimit - 1 + |Thread|`, the condition under which deallocs never
  sleep. The code has 1000 and 1024: it holds for up to 25 threads that deallocate at
  once. One object more than fits lets the limit be reached.
* **MaxConcurrent 1** instead of 5: with four requests the queue of waiting operations
  is never empty for long. Three requests for one URL let a third one come in between the first
  and the second one's events.
* **MaxChanges 3** lets one change be coalesced with another while a third one arrives during
  a callback. The networks tried are those between which the questions take different
  branches.
* **MaxLength 5, three images**: one image before, one inside and one behind a deleted selection,
  or two images with their newlines.
* **6 cells** as in the code; 3 positions per slot, since 1/3 and 2/3 of a slot lie on the two sides of
  the threshold; fingers on cell 0, which the index is computed from, and on two others.
* **Four threads, MaxEvents 2, MaxFaults 1**: the two exception threads of the recorder and two of the program, so that
  two can crash at once and a handler's own fault goes to the secondary thread. Three crashes at once are outside
  what the properties claim, see section 5.
* **MaxHops 3, MaxIvars 3, SearchDepth 5, StringBuffer 6, MaxBacktrace 3, MaxPrinted 2**: each one more than the
  longest chain, class, search, string or stack that fits, so that each limit is met exactly, missed by one and overrun.
  With **OverflowThreshold 5** and **GiveUpPoint 7** they keep the
  order of the code's 40, 150, 200 and give-up point. **PushedDistance 3, PoppedDistance 2, Space 12**: unequal, so that a swap
  shows, with room for a stack pointer that is near neither end, near one, or at it. **NameBuffer 4** cuts the one label.
  **MaxCalls 4, MaxLevel 3, WorkBufferSize 4**: a container in a container with a
  value, a string of two buffers, a double that loses digits and one that is not a number, and each of the pieces of a call refused once.
* **MaxLaunches 3**: a launch reads what the one before wrote after reading what another wrote.
  **MaxSessions 2, MaxCrashes 1**: a session comes back, a crash is reported. **MaxEvents 1** (of `CrashState`) bounds together the ticks of
  the clock, the files that cannot be opened and the repeated installations of an execution: one of them at any point of it. No
  property relates the clock to the file, and one failure suffices for a launch that is misled or not counted; the theorems hold for any number.

A value is in a symmetry set only where a safety property or a refinement is checked; the parts with fairness use values of
their own.

Deadlock checking is off in every run because each system may stop by right: all threads
asleep in an open queue that nobody fills, an abort, all requests answered, an idle screen, a dead process.
That no thread sleeps wrongly is what `NobodyStuck`, `EverythingDrained` and `PairReturns` say.

### Fairness

* `queue_drain`, part *pair* of `queue`: weak fairness for the steps of each thread (the
  system schedules it) and strong fairness for taking the mutex, which is held for a few instructions
  at a time. No fairness for spurious wakeups, and none that makes an object die or a purge
  start.
* `screens`: the serial queue and the main queue run what they are given. A
  user may press the button again and again, so serving the main queue needs strong fairness:
  the run loop serves it between two presses. No fairness for starting, leaving or changes. Weak fairness for each animation
  request that was sent: operations are scheduled, a download ends by
  timeout at the latest, the writer takes or refuses each frame. Sending is not fair.
* `wheel`: Core Animation reports its animations. Nobody has to lift a finger.
* `crash_path`: weak fairness of each thread's own steps (`Step(t)`), which a suspended thread has none of. No fairness for
  crashes, for user reports or for faults inside a handler.

## 4. Proofs

| Theorem | Statement |
|---|---|
| `DSQueueProofs!TypeCorrect`, `QueueLetsIn`, `AssertsCorrect`, `DrainedStaysDrained` | `TypeOK`, `NobodyStuck`, `AbortsOnlyClosed` and `DrainedForever` |
| `DSQueueProofs!QueueIsFifo` | `Spec => RefinesFifo`: the queue implements `ClosableFifo` |
| `DSQueueDrainProofs!ArrivesOnceInOrder`, `EndsSafely`, `DrainIsClient` | `DeliveredInOrder`, `ClosesSafely`, and that every execution of the drain is one of `DSQueue` |
| `WildPointerCatcherProofs!CatcherIsClient` | the catcher's steps are steps of `DSQueue`, so all of the above holds inside it |
| `WildPointerCatcherProofs!CatcherKeepsGoing`, `DeallocKeepsGoing`, `PurgeKeepsGoing` | `NeverSleeps` and its two parts |
| `WildPointerCatcherProofs!FreedOnce`, `KeptApartAlways`, `SizeAccounted` | `KeptOnce`, that no two slots or threads hold one block, and `SizeIsKept` |
| `ScreensProofs!ArrayGuards`, `ConversionsExclusive`, `WorkingIsRegistered`, `HandlerCallsCounted` | `UrlsGuarded`, its two parts, `HandlerCalledOnce` |
| `ScreensProofs!NotifierModeCorrect`, `NotifierStays`, `NotifierDiesStopped`, `LateCallbacksBounded`, `AnswersAgree` | `NotifierMode`, its three parts, `QuestionsAgree` |
| `ScreensProofs!LeavesNothingBehind` | `LeavesCleanly` |
| `ArticleTextViewProofs!TypeCorrect`, `CacheKeepsInStep`, `EditsStayLocal` | `TypeOK`, `CacheInStep`, `EditsAreLocal` |
| `CricleViewProofs!StaysAWheel`, `RestsOnSlots`, `SnapsTheShortWay` | `TurnsAsHeld`, and the parts `LetGoOnSlots` and `SnapsShortWay` of `ComesToRest` |
| `CrashSentryProofs!OneRecordsAtATime`, `AllResumed`, `DeathIsReported` | `RecordsAlone`, `NobodyLeftSuspended`, `CrashReported` |
| `CrashStateProofs!CrashIsRemembered`, `CountersKept`, `TimesKept` | `CrashedLastMeansCrash`, `CountersTrue`, `TimesTrue` |

They hold for every number of threads, items, requests, networks, images, cells, launches, sessions, crashes, installations and failed saves, and every
capacity and limit, under the named assumptions of the modules: `Capacity` positive,
`2 * Capacity <= UInt` (1024 and 2^32 in the code), special values distinct from items, a finite list of threads that names each once, and in which the two exception threads are different ones,
finitely many threads and objects in the catcher, room in the queue for one put of every thread over the limit where a theorem
says so. `SnapsTheShortWay` alone is for at most six cells, the number in the code: with more a cell may turn back by half a slot.

**Queue.** The inductive invariant `IInv` adds to the checked invariants that the slots
in use hold items (`StoredAreItems`) and that a put has its item until it stored it
(`PutHasItem`): without them types are lost at the next get. That no wakeup is lost is inductive only with
mutual exclusion, since a sleeper's reason can only be changed by the one thread inside.
Refinement needs lemmas about the ring read as a sequence: storing behind the last item appends,
advancing `pos` takes the tail; they rest on modular arithmetic and nowhere on the
instance.

**Drain.** Every step of the drain is a step of `DSQueue`, so its invariants hold. `DInv` adds where each
item is (not yet put, in the ring, with its consumer, handled) and that the owner's place bounds everybody's:
behind the join nobody is inside. The order of one producer's items is a statement about the positions of the ring
and what each consumer has seen; a get moves one item from the front of the one behind the end of the other.

**Catcher.** `CInv` ties where a thread is in the catcher to what it does in the queue
(`CLink`), and counts: `RoomForAll` says that the length plus the threads that passed the check
and have not stored yet stays below the limit plus the number of threads, each of which
passed on a length that was true when it was read; `PurgeFinds` says that a lone purger has no more gets
to make than items are there. Both are sums over threads in many places, so they use the cardinality
facts of the library. `SizeIsKept` is a sum over a finite set of objects. A sum is a recursive function over sets; that it changes
by the size of one object when one object joins would need induction, which is replaced by taking a smallest finite set for
which it fails.

**GIF.** `IInv` adds to the invariants that the main thread is between check and add
of at most one request (`MainIsSending`), the reason why check and add behave as one; and
that a request told of an old file is past that point (`StayedIsLate`).

**Reachability.** `RInv` is that callback, queue and self-reference go on and off together
(`OneMode`), and that a callback picked before a stop is the only one to come
(`PickedInTime`). For its screen `LeftInv` adds that the main thread starts the notifier only before the screen
is shown, so that one that is gone cannot find it started again.

**Text view.** `TextInv` is `TypeOK` (no attachment stands twice in the text, no view twice in the cache), that an image is
inserted once, that what is cached is shown, and what the flag of a clean view means (`CleanMeans`): each attachment of the
text is cached under its own place. The loop over the keys keeps only the first three while it runs.
That the button takes its image and newlines only (`EditsAreLocal`) is a lemma on the piece that `deleteAttachment` cuts out, whose ends
are tested for newlines when the animation is over.

**Wheel.** `WheelInv` is `RigidWheel` (angles and centres keep the distances of the numbers of their cells, modulo the whole
circle), `StandsOnSlots` for a wheel let go, and `HeldAtRest`, `FollowsFinger` for one that is held. The arithmetic is modular
throughout and rests on six lemmas about `%`.

**Sentries.** `RecordsAlone` is about two crashes without a report by hand; the invariant `Inv` is kept as long as that is so. `HoldsInv`: while
a thread holds the recording (`Holds`: from the end of its suspending to its removal of the handlers) every other is suspended or
`Harmless`: stopped by its fault, ended, or on its way out with the handlers removed, so that its signal ends the process.
This follows from the loop when it ran to its end (`LoopInv`). A handler that finds the threads suspended already skips the loop; then
`RunningInv` says by whom they were, and it can only run because that one resumes them on its way out. Then, as two crashed
and no more (`FewInv`), everybody else is harmless. `SecondaryInv` counts the suspensions of the secondary exception thread, which
must not come to run when the primary one wakes it: it had suspended itself, and is suspended by the primary thread once more. Each
action is first reduced to what it does to these notions (`Effect`), so that each part of the invariant is shown for nine effects and not
for twenty actions.

`NobodyLeftSuspended` is about at most two reports by hand and no crash. A report owes a thread at most one resume (`Owes`: from when its loop
has suspended the thread until its loop has resumed it), and in `ReportsInv` no thread is suspended more often than it is owed
resumes: by nobody (`Nobody`), by the reports of one thread (`One`), or by two that overlap (`Two`). Two may overlap in any order, since a
thread that finds the others suspended skips its loop and resumes them all the same; `Beside` says what each then finds: the one that
still runs its loop is suspended itself, or the other owes it everything that is left. When no report is on its way nothing is owed, and so
nobody is suspended. With a crash the property asks nothing, and a thread that crashed never comes back to its work (`SomeCrashed`).

`CrashReported` is about one or two crashes whose handlers work, without a report by hand (`Mild`), and adds `ReportInv` to the
invariant of `RecordsAlone`. Who writes does so about a thread that crashed, to a file nobody else has open (`FileInv`); the signal mask holds a
thread's own signal while its handler runs (`SigInv`); a lone crash finds no crash in the making, and so is written to the standard file
(`LoneInv`). `RepInv` tells three phases apart. In `Early` nothing is whole and nobody is on its way out: the handlers of signals are installed, or
both crashes are in handlers already (`Caught`), so no signal can end the process. In `Final` a handler of an NSException has written its
report but not yet raised its signal, and nobody else can run (`Quieted`). In `Good` there is the report the property asks for, and reports stay.
The steps are reduced to what they tell of these (`Tells`), as before.

**State.** `FileType` and `StateType` say what a file may contain after a cut or failed write. `Marked`, `Noted`, `Counted` and
`Timed` compare the fields in memory, in the file and what really happened. They had to be strengthened for the time within a save,
when the file says less than the memory, for a crash in the middle of another save, and for a file that is not opened: what it
says of a crash is of this launch unless `behind` says otherwise, and its counters are those in memory unless `behind` says that
it does not know of the launch. `Since` is the part of a period that is still to be added, `BeforeIt` the time before an
installation in the middle of one.

### What is model-checked only

* Liveness (`EverythingDrained`, `PairReturns`, `EveryRequestAnswered`, `LastCallIsTrue`,
  `LabelSettles`, the second half of `ComesToRest`, `CrashDies`, `CallReturns`): out of the prover's reach.
* What recursive definitions compute (`WrittenIsRead`, `ReadsBack`, `PrintsApart` and the properties of a report): induction over data is
  out of the prover's reach, and those modules use `RECURSIVE` operators where the code recurses.

## 5. Findings

* `queue_blocked_put`: `queue.h:54-55` promises that a put on a full queue blocks and is then
  added; if the queue is closed while it blocks, the second assert ends the process.
* `catcher_leak`: over the limit `myDealloc` overwrites the object but neither queues nor frees it;
  the comment at `NSObject+Swizzling.m:24` says that some are released then.
* `gif_refused`: after a failed download the URL is looked up where it should be removed
  (`GIFDownloader.m:93`), so later requests are refused as *already processing*.
* `crash_sentry_reserved`: `kscrashsentry_beginHandlingCrash` clears the whole context (`KSCrashSentry.c:228`), with it the list of
  `KSCrashSentry.h:65`, *threads reserved by the crash handlers, which must not be suspended*; the exception threads are suspended with the others.

Two comments are contradicted in situations that a property of a passing run states as they are, so that they have no run of
their own:

* `KSCrashState.h:70`, *if true, the application crashed on the previous launch*: after a user report; and in the second launch
  after a crash, when the first one could not open the file to write (`KSCrashState.c:256-262`). A launch that cannot open
  the file is missing in `launchesSinceLastCrash`, and a launch that cannot read it counts from zero (`CrashedLastMeansCrash`, `CountersTrue`).
* `KSCrashState.h:61-65`, the times *elapsed since launch*: installed from a screen, the first period in the foreground counts from
  the zero of the clock, because `appStateTransitionTime` is zero (`KSCrashState.c:369-372`). Installed *n* times, each later
  period counts *n* times, and each session (`TimesTrue` states the first; it and `CountersTrue` leave the second out).

Behaviour that no text of the repository contradicts, and that the models therefore
just have:

* *Application.* A callback picked before the last release enters a freed Reachability; a nil block is
  called when the screen is left between test and call; the label names a network in airplane mode, and keeps the
  name of a mobile network whose radio technology alone changed, since a notice comes for changes of the flags only; a
  frame that is not accepted leaves its request without an answer; stale keys remove the
  wrong view; inserting an image with the caret before the first character raises; two fingers make the wheel jump; a cancelled pan leaves it between slots.
* *Three crashes at once.* The second one, found while the first is being handled, removes all handlers; the signal of the
  third then ends the process without a report. Three user reports at once can leave threads suspended and can record together.
* *Demangler.* Metadata of types that are not nominal is not read; a closure type that cannot be read ends the whole name; a tuple label
  that begins with `X` is not taken for a label; the test for the beginning of an entity lacks `i`; the convention `D` of a comment
  (`Demangle.cpp:2121`) is a second `d` in the code (2144–2145), so `@unowned_inner_pointer` is never printed; a substitution's
  member looks at a node before the test that it is there (1407–1408); `decodePunycode` reports success on every failure. Printed names collide for a
  function type under a metatype and for a tuple of one without label; `PrintsApart` leaves those out.
* *Report.* The words searched for objects are those *near the stack pointer* by the comment at `KSCrashReport.c:1272`. With a
  stack pointer near an end of the address space the sum of 1243–1250 wraps, the two ends are swapped, and nearly all of the address space is searched;
  `MachineShown` leaves those stack pointers out. `SIGTERM` stands, with the codes of a trap, where `SIGTRAP` belongs (`KSSignalInfo.c:109`), and
  `SIGEMT` is missing: a breakpoint and an emulated instruction are reported with the signal's number and without its name (`FaultNamed`).
* *Codec.* A surrogate pair is combined without adding 0x10000 (`KSJSONCodec.c:913`), so characters above the basic plane are read as others;
  the encoder never writes such escapes. A double that is not finite is written as `nan` or `inf` (`KSJSONCodec.c:343-355`), and such a report
  cannot be decoded past it (1106-1124); a crashed program's memory holds such doubles easily.
* *Readers.* `isValidIvarType` passes over characters that no type has, up to the end (`KSObjC.c:519-547`). `ksfu_readBytesFromFD`
  (`KSFileUtils.c:80-97`) asks again and again when nothing is read, so a file that shrank after its size was taken is waited for without end.
* *Introspection.* A URL is read as if it were a string; the store of a `CFArray` is read without asking the kernel (`KSObjC.c:1487-1505`),
  which `IntactClassesAreSafe` therefore demands to be intact. The descriptions of numbers print integer and floating value the wrong way around; nothing calls them.

## 6. Running

    tlc -config MCDSQueueDrain.cfg MCDSQueueDrain
    tlapm DSQueueProofs.tla

and likewise for the other `MC*` and `*Proofs` modules.

## 7. Plan

Done in this order, most important first: queue and its abstraction, protocol of the queue,
catcher over the queue, GIF downloader, Reachability with its screen, text view, wheel; crash recorder (sentries, state,
report, introspection, codec, demangler); proofs of the queue, its protocol, the catcher, the downloader, the notifier and its screen,
the text view, the wheel, the recorder's state, the recording of two crashes, what is reported of them, and reports by hand.

Next:

1. `ArticleTextView`: `synchronizeToDisk`, which writes the attachments in the order of the text.
2. `DemoScreens`: the menu that pushes and pops one screen at a time, with the font screen's
   timer (which retains the screen until it disappears), the flag of the URL protocol screen and the
   overlay of the blur screen: what a screen leaves running when it is popped.
