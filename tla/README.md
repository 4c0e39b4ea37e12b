# Messboard verification

TLA+ models, model-checking runs and TLAPS proofs for the programs in `src/`:
a message board server (`src/e188147/server.c`, the project the repository is
named for), a server that locks regions of a map
(`src/Sources/emir/e188141-hw2/hw2.cpp`), the same service as two Linux system
calls (`src/Sources/emir/e1881416/maplock536.c`), a frame buffer driver built on
them (`src/Sources/emir/e1881416 (1)/main.c`) and a directory synchroniser
(`src/Sources/emir/synchronize.c`). Everything in a module is translated from
that code; the `map` of `PROJECT.json` names the lines.

Line numbers without a file name are lines of `server.c` in the sections about
the messboard, of `hw2.cpp` in those about the region lock server, and so on.

## 1. Inventory

### 1.1 The messboard server (`src/e188147/server.c`)

One process accepts connections and forks an *agent* per client. All agents
share a System V memory segment and one process-shared semaphore `sem`. An
agent loops: `recv`, `sem_wait`, `servecommand`, `sem_post`, `send` (413-454).

| part | state | operations | interacts through |
|---|---|---|---|
| message board | `messages` (text area), `indexes` (where each message starts), `currentIndex` | SEND (139-201), LAST (258-288) | shared memory, under `sem` |
| follow registry | `followList` (hash table, linear probing, tombstones), `followCount`; `follow`, `numberOfFollow` private to each agent | FOLLOW, UNFOLLOW, FOLLOWING, BYE, the lookup of SEND (203-257, 289-391) | shared memory under `sem`; the private list is copied on `fork` and never shared |
| agents | program counter, the reply | accept loop (593-612), agent loop (413-454) | `fork`, the semaphore |
| notifications | pending SIGINT, notifier threads | `kill` in SEND (249-255), `notify` (123-128), `NotifierThread` (76-121) | signals, threads, the semaphore, the client's socket |
| start-up | arguments, segment, socket | `main` (464-592) | before any agent exists |

What is hard: marks of earlier laps of different lengths are swallowed, moved
and dropped while a new lap is written; a removal in an open-addressing table
may cut lookups off; the private list, the table and the counter are three
records of one fact; signals merge and threads start late; a process may end
while one of its threads holds the semaphore; a notifier sends to its client
with the semaphore taken, and the client may not read.

Correctness: the lap being written is intact and LAST returns it; table,
counter and lists agree and answer like a plain set of pairs; critical sections
exclude each other; every command is served, whatever clients do; the latest
message reaches every client that follows one of its words. (The code falls short
of "whatever clients do", see section 3.)

### 1.2 The region lock server (`hw2.cpp`)

A process per client again, a shared `Environment` with a table of
`RegionLock`s (a slot has an active flag, owner, id, type, rectangle and a
condition variable), `size`, `nextLockId` and a mutex; a second table of
`RegionWatch`es with its own mutex.

| part | state | operations |
|---|---|---|
| locks | `regions`, `size`, `nextLockId` | TRYLOCKR/W (541-640), LOCKR/W (641-740), UNLOCK (741-788), leaving (517-540) |
| listings | none | MYLOCKS (789-816), GETLOCKS (817-852), `sortVector` (240-276) |
| watches | `watches`, listener threads | WATCH, UNWATCH, WATCHES (853-965), `checkWatchesRevise` (340-368), `ListenRegion` (376-396) |

What is hard: a client waits on the condition variable of the *slot* of the
lock that blocks it, and the slot may be let go and used for another lock before
the client runs; ids are taken before the wait and given back on failure; the
loops run until they have seen `size` active slots; a listener thread that gets
SIGPIPE ends the process while its main thread waits or holds the mutex of the
locks. The watches are told after
the mutex of the locks has been released and from a slot that may have changed;
a listener thread reads arguments from the stack of a loop that goes on, tests
its slot without the mutex, and sends to its client with the mutex taken.

Correctness: locks never conflict, ids are unique, the counter is exact, nobody
sleeps at a slot that does not block it, nobody sleeps for ever at a free area
unless a process died with the mutex,
the listings name exactly the locks they should, in order. The commands about
watches answer as a list would; who keeps its watches is told of its own only;
nobody who waits is left asleep when its watch goes; the mutex comes free again
unless a client does not read or a process ends while it sends.

### 1.3 The map lock system calls (`maplock536.c`)

A linked list of locks under one mutex; `map_lock` sleeps on the *completion*
inside the lock that blocks it, after the mutex has been released;
`map_unlock` unlinks the lock, completes it and frees it at once. `MAP_TRYLOCK`
does not wait; a signal ends a wait. What is hard: sleeping processes use
memory that has been freed and may have become another lock.

### 1.4 The directory synchroniser (`synchronize.c`)

The program prints the `cp`, `rm` and `ln` commands that make two trees equal:
their union in the latest versions (`synchronizeFolders`, 407-708) or, with
`-i`, their intersection in the oldest (`intersectFolders`, 109-403). A call of
the recursive function lists both directories and then goes through them in six
loops, for the directories, files and links of either side.

What is hard: the commands are meant for a shell, which may run them while the
walk goes on, so that entries listed before are gone or changed when a loop
looks them up (and a failed `lstat` is not noticed); a link is replaced by a
file with two commands; a pair of a link and a file is met by two loops; `ln`
gives new times. Correctness: the right version of every path on both sides in
the end, never gone from both on the way, and trees that are alike stay so.

### 1.5 The frame buffer driver (`main.c`)

| part | state | operations |
|---|---|---|
| device | size, operation, memory of the frame | RESET, SETSIZE, SETOP (266-311), under a lock on the whole frame |
| files | a list; each has a window and whether it is active | open, release (37-75), SETWINDOW (318-333) without a lock, `checkWindowsAndCrop` (220-233) |
| reads and writes | the place in window and frame | `fb536_read`, `fb536_write` (77-212), under a lock on the window |
| locks | a list, in the file beside it | `lock_lib`, `unlock_lib`, which are `map_lock` and `map_unlock` as functions |

What is hard: the area to lock is computed before the wait (89, 148, 267, 279,
304); SETSIZE frees the frame and publishes the new size before the new memory is
there; windows are set field by field, and files join the list, without a lock,
also while the cropping is at them. Correctness: accesses to a pixel exclude each
other when one of them writes; nobody touches memory that is not the frame's;
windows are cropped to the frame.

### 1.6 Left aside

The course examples directly under `src/Sources/` show one system call each and
belong to no project. `src/server.c` is byte for byte `src/e188147/server.c`.
Build files and load scripts hold no logic.

## 2. The modules

| module | models | kind |
|---|---|---|
| `MessageBoard` | SEND's placement of marks and text, LAST's reply | detailed |
| `SendLoops` | the two loops of SEND round by round, on the state of `MessageBoard` | operators |
| `FollowRegistry` | a set of (agent, word) pairs with a limit | abstract |
| `FollowTable` | hash table, counter, private lists; implements `FollowRegistry` | detailed |
| `MessBoard` | agents, semaphore, signals, notifier threads, over `FollowRegistry` | composition |
| `Rectangles` | `isIntersecting`, `isBlocking`, and what they are meant to decide | operators |
| `LockedMap` | a map of locks without slots, lists or waiting | abstract |
| `RegionLocks` | the locks of `hw2.cpp`; implements `LockedMap` | detailed |
| `LockListings` | MYLOCKS, GETLOCKS and `sortVector` on the state of `RegionLocks` | operators |
| `WatchList` | a list of watches and one answer at a time | abstract |
| `RegionWatches` | the watches of `hw2.cpp` with their threads; implements `WatchList` | detailed |
| `MapLock` | the two system calls; implements `LockedMap` | detailed |
| `FrameBuffer` | the driver and what it uses of the locks beside it | detailed |
| `Synchronize` | the walk, the printed commands, the shell that runs them | detailed |
| `...Proofs` | TLAPS proofs of the module named before | proofs |
| `MC...` | values for the constants | model |

An operator whose comment starts with *Slip:* is a mistake the code could have
made in the definition that follows it. No specification uses it; put in the
place of that definition it breaks a property, which shows that the property
depends on that piece of the code.

### 2.1 MessageBoard

A command runs between `sem_wait` and `sem_post`, so SEND is one action. A cell
of `messages` is abstracted to the number of the message that wrote it, 0 for
NUL; `sent` records the lengths and exists for the properties only. `Swallow`
and `Compact` are the two loops (169-184) in closed form; `SendLoops` has the
loops round by round, and `LoopsAgree` says that both compute the same marks in
every reachable state and for every length. The code touches `indexes[maxnmess]` and
`indexes[maxnmess + 1]`, past what it asked `shmget` for; `shmget` gives whole
pages of zeros, so the model has these two integers (they would be missing only
if the array ended right before a page boundary). LAST changes nothing and is
the operator `LastReply`; an empty message is an empty line of it, unless nothing
stands before it (274).

### 2.2 FollowRegistry, FollowTable

A word stands for its spellings in either case. `Home` is any hash function.
The probes of the code, which go round the table, are sets: `Before(h, s)` is
what a probe from `h` visits before `s`. A probe from slot 0 that nothing stops
never ends (the code compares with its first slot before it wraps, 323-327,
364-368); this is the variable `hung`. BYE with text behind it, such as
`BYE\r\n`, is the action `BYEText`: `servecommand` treats it as BYE and the
agent does not. It is left out of `Next` and added by `NextByeText`, so that
`Spec` and `ByeTextSpec` tell apart what holds with it and what does not. Agents whose clients go away without BYE leave their entries
(`Disconnect`). The refinement maps the entries of the table to the abstract
pairs.

### 2.3 MessBoard

Every agent has a main thread with a program counter and counted notifier
threads at each of their three steps. `Kill` sets `pending`: SIGINT is not
queued, two merge. `HandleSignal` starts a thread. `Die` ends a process with all
its threads and leaves the semaphore as it is. The registry is the abstract one,
justified by `TableImplementsRegistry`; the board is the sequence of messages,
justified by `LapIntact`, since a notifier reads only the latest. An agent that
gets `BYE` is assumed to get it without text here.

A client may close its connection, or keep it and read no more (`deaf`). A send
to a client of the second kind may still find room in the buffer of the socket,
so the step can be taken, but nothing promises that it is: `ReplyStuck` and
`NotifierStuck` take such sends out of the fairness. A reply that blocks holds
nothing; a notifier that blocks holds the semaphore (`Stalled`), and then
everybody who waits for it waits. `EveryCommandServed` and `SignalsHandled` have
this exception next to that of a process that ended with the semaphore
(`Orphaned`). Neither is idle: without either of them both properties are
violated, the second already by a client that follows a word and stops reading.

### 2.4 Rectangles, LockedMap, RegionLocks

Coordinates are integers, areas are given by their edges, and edges belong to
the area, as in the comparisons of the code. `SharePoint` says what two areas
in conflict are; that the code's case distinction decides it is proved. What
runs under `envlock` is one action; a command that waits is several, because
`pthread_cond_wait` gives the mutex back, and it may return without a broadcast
(`SpuriousWake`). A slot that is let go keeps its lock and is not active. The
loops over the table end when they have seen `size` active slots (`Seen`), so
that a wrong counter would show. The report to the watches after each command
does not touch the locks and is left to `RegionWatches`.

A process ends in two ways. `Leave` is BYE, the end of the input, or SIGPIPE as
the main thread answers: it happens between commands. `Killed` is a listener of
the same process that gets SIGPIPE as it reports to a client that has closed
(287, 390): it ends the process wherever the main thread is. While that thread
waits at a slot or has just been woken, only its own request goes (`Vanish` in
`LockedMap`). While it holds the mutex, in a command or as it looks again, the
mutex goes with it: it is not robust (162-172), and `envlock` is "lost" for good,
so that nobody takes another step that needs it. What the dead process had
written of its command nobody can read any more, so the table is left as it was.
A broadcast that never returns because a process died in the wait at that slot,
which POSIX allows, has the same effect as a lost mutex. Every client may be
killed at any time: that it must have a watch for it is left to `RegionWatches`.

`LockListings` adds the two listings, which change nothing, as operators on this
state, so that they are checked in each of its states: with slots let go in
between and filled in any order. A loop is a recursive function of the number of
its rounds: `InSlots` goes up the table, `Least` over the locks that are left,
`sortVector` moves the least of them again and again. `sortVector` is also
compared with the order it is meant to give (`Precedes`, defined without the
code's condition) on all lists of up to three locks that agree in some of their
five numbers. Nothing keeps a client from asking for an area of negative width
or height, which the comparisons may find near a lock it shares no point with; so
`ListingsExact` asks for a common point where both areas have points, and for
the rest only that GETLOCKS names locks that are held, each once and in order.

### 2.5 WatchList, RegionWatches

A thread is a pair of its client and a number, 0 for the main loop. Under the
mutex `wlock` a command changes the table and then sends; the change is one
step, which takes the mutex, and `Send` is another, which gives it back. While
a send is under way every other thread waits, and that send need not return: a
client is "reads", "deaf" (its buffer may be full: the send may or may not
return) or "gone" (SIGPIPE ends the process, and the mutex stays taken). A
listener goes through "created", "tests" (the loop condition, read without the
mutex), "enters" (not yet in the wait), "waits", "woken", "tells". `Start`
reads the arguments from where the *last* WATCH of that client left them.

`Report` is `checkWatchesRevise`. It may be called with any lock at any time by
any process that serves: the table of locks is not part of the module, and this
covers UNLOCK, which reads its slot again after the mutex of the locks was
released (787). `watchID` is raised together with the insertion, which nobody
can tell from raising it after the send (891-892). Several lines of WATCHES are
one answer. The mutex `sendLock` of a process adds nothing: who waits for it
waits for a send of the same process to the same client.

`stirred` and `missed` exist for the properties. A listener woken by nobody
tells its client of an old report, or of none, and one whose slot was let go
between its test and its wait sleeps on; `TellsTruth` and `NoneLeftAsleep` say
that nothing else goes wrong, for clients that keep all their watches. A client
may ask for a rectangle whose edges are the wrong way round; the comparisons then
call it near rectangles it shares no point with, and `TellsTruth` asks for a
common point only where both rectangles have points (`HasPoints`).

### 2.6 MapLock

`heap` is the memory `kmalloc` hands out for locks, `head` the list. A process
that has to wait goes through "called" (mutex released, not yet asleep),
"sleeps", "woken" and "returned". Freed memory keeps its contents until a new
lock is put there. A process that wakes and finds a new, incomplete lock in the
memory sleeps again in a queue nobody has ("lost"); so does one that slept on
already when a new lock was made in the memory, since `init_completion` empties
the queue (`Stranded`).

### 2.7 FrameBuffer

A call is a record: where it is, what it does, its file, its argument, the lock
it asks for, and its place in the window. `Ask` computes the area; `Obtain` is
part of the first step behind the lock, which no other step can tell from the
grant itself. Of `lock_lib` the module keeps its effect on a caller, with the
wait that a signal ends (`Interrupted`); its list and completions are those of
`MapLock` again. A read or write goes on pixel by pixel (`Copy`), looks at the
window after each, as the code does, and leaves at the first that is outside of
the frame, or when the buffer of the user faults. The offset of a file is chosen
at each read, which covers `llseek` and two calls on one file. Contents of pixels
are left out.

SETWINDOW checks against the size and then stores x, y, width and height, each in
a step of its own (`SETWINDOW`, four times `Assign`), and holds no lock: two calls
on a shared file may mix their windows, and the mixture may lie beyond the frame
and stays. SETSIZE frees the memory and stores the width (`Free`), stores the
height (`SetHeight`), and gets new memory (`Allocate`); then `checkWindowsAndCrop`
goes through the files (`NextFile`), looks at the width and the height of each
(`Look`), stores what it cuts in a later step (`Shorten`), and looks at the corner
(`Test`). SETWINDOW, open and release go on beside all of this. open reads the
size in one step and joins the list in the next; a file that joins while the
cropping is under way is not seen by it.

What stays together in one step: the two numbers of the size as open copies
them and as SETWINDOW checks them; a corner and a length as the cropping compares
them (225, 227), and with them the corner it reads again for the difference (226,
228); the corner in its last test (229). Between such reads only another call
that writes to the same window, or one that replaces the size, could come, and a
window that either has disturbed is `askew` whichever way the reads fall. The
files that the cropping goes to are those in the list as it begins; `release`
waits until it has left the file.

`overtaken` and `askew` exist for the properties. A call is overtaken when the
area it locked is not that of the window or size it works with: because they
changed before the lock was granted, because SETSIZE is at work beside a window
that is not in the old frame, or because SETWINDOW or the cropping changed the
window of a shared file on the way; and a SETWINDOW or open is when the size it
went by is replaced before it ends. Between calls that were not overtaken the
locks keep what they promise (`AccessesExclude`, `FrameSafe`, proved);
`FramebufferProtected` drops the exception and is violated. A file is askew when
the call that set its window was overtaken, or when two calls were writing to the
window at a time: two of SETWINDOW, or one and the cropping that stands at the
file. `WindowsCropped` says that every other window is right whenever nobody is
at work on it.

### 2.8 Synchronize

A tree is a function from paths to entries; an entry has a kind, a time, a size
and what is in it. `SynchronizeAssumption` asks for finitely many paths, each
with the directories it is in, and for entries of these types; which entries a
path may have in the beginning (`Holds`) is otherwise free. `frames` is the stack of calls: each keeps its listing of
both directories, the loop it is in and the entries that loop has still to
take, in any order (`readdir` promises none). `Visit` is one round of a loop;
the six `Sync...` and `Intersect...` operators are what the bodies print, by the
listing for whether the other side has the name and by a fresh `Lstat` for what
it is. `Lstat` of an entry that has gone returns anything. `Execute` runs the
next printed command at any time (`cp`, `rm` and `ln` are external, and each is
one step), `StartAgain` stops both and begins anew. The lookups of one round are
one step: between them the shell could only run commands about that same path,
and none is pending when the lookups matter.

`base` and `strayed` exist for the properties. The result is judged by the trees
before the *first* run in union mode, so that a run that was cut off must not
spoil the next; with `-i` by those the run found. Two kinds of paths are
excepted. Where one side has a directory and the other something else, the
program prints nothing, and `hw1.pdf` excludes the case. And `ln -sf` onto a link
to a directory, or onto a directory, writes *into* the directory, and the path
stays as it was (`strayed`).

## 3. The runs

Constants are small sets; model values where only equality counts. Deadlock is
not checked: in every model clients may stop sending, and bounds on history
stop it (`CHECK_DEADLOCK FALSE` in each cfg).

| run | question | bounds, and why they are enough |
|---|---|---|
| `message_board_laps` | Does the lap being written stay intact over several laps? Is LAST exact within it? Do the loops end, and are the closed forms right? | 4 slots, 8 characters, lengths 0, 1, 2, 3, 5, 8 messages: laps that end for want of slots and of room, messages that swallow several marks, that end at a mark, and empty ones |
| `last_loses_messages` | *Violated*: "Get the last n messages in the board" | as above, without empty messages |
| `follow_table_commands` | Do table, counter and private lists agree, and do commands answer like the registry? | two agents, three words, two of which collide and one of which wraps round, 4 slots: the table fills up and fills with tombstones |
| `bye_text_hangs` | *Violated*: no probe runs for ever, when BYE may come with text behind it (`ByeTextSpec`) | 3 slots |
| `mess_board_exits` | Mutual exclusion, delivery and progress with agents that end anywhere and clients that stop reading: is every command served and every signal handled, unless a process ended with the semaphore or a notifier is stuck with it? | two agents, two commands each, one word: an agent can be signalled, can end, and can lose its reader, in every step |
| `region_locks` | Safety, liveness and refinement of the region locks; are the listings exact? | three clients, three slots, three ids; areas of which one covers another and one touches at a corner: slots are reused while a client waits at them, and each client can be killed in each state, with the mutex or without |
| `region_watches` | Do the commands answer like a list, are the right clients told, is nobody left asleep, and does the mutex come free? | two clients, two slots, two WATCHes: two listeners of one client with one set of arguments, two at one slot, slots taken over from another client; two areas, and a lock that covers one and does not meet the other |
| `frame_buffer` | Do accesses exclude each other, is the memory there, are windows cropped, whatever is overtaken excepted? | two processes, two files, one or both shared; a frame of one pixel and one of two rows of two; windows on a row, on its last pixel, and an empty one at its edge: the first two overlap, and mix to a window that begins inside of the frame and goes over its edge; a read or write of three pixels from either of two offsets, which goes over the ends of rows and windows. Processes and files are symmetric (2 million states, about 100 seconds) |
| `frame_unprotected` | *Violated*: "All kernel structures should be protected against race conditions including framebuffer data" | a frame of one pixel that grows to a row of three, and a window on the last of them |
| `map_lock_calls` | Safety and refinement of the system calls, with freed memory in use | three processes, three addresses, one interruption; processes and addresses are symmetric (nothing orders or names them, and the run has no liveness property) |
| `synchronize` | Do the commands leave the union in the latest or the intersection in the oldest versions (`Result`), however they and the walk interleave and wherever they are cut off? | a directory with one entry and one entry beside it, on both sides every combination of files and links with two times and two sizes, of the same length and another target, of the same size and other contents: every comparison and every tie; two runs, the second on what the first left |
| `map_lock_lost` | *Violated*: "request blocks until the area can be locked" and no longer | two processes, two addresses, no interruption |

The four disagreements that the violated runs show are spelled out under
`findings` in `PROJECT.json` with the sentence they contradict.

Seen while modelling and not given a run: one client that follows a word and does
not read stops the whole server, though the assignment asks for shared data that
are "deadlock free" (`src/ceng536-hw1-2017.pdf`, page 1): the notifier's send (115)
blocks with the semaphore taken, which is the exception `Stalled` of
`EveryCommandServed`; LAST repeats or tears messages when a
lap ended for want of room and the slots behind it are unused (265-273); an
agent killed by SIGPIPE in a notifier orphans the semaphore as one that exits
does (253, 440); an agent that exits after BYE while its notifier thread is in the
critical section takes the semaphore with it, which the exceptions of
`EveryCommandServed` name; of two messages sent before a notifier thread gets the
semaphore the first is never delivered (81), so that `LatestDelivered` speaks of
the latest; a notifier tells a client of each word of its list, whether it
is in the message or not (81-117); the words of a client that goes away without
BYE stay counted for ever (428). In `hw2.cpp`: a listener between its
test and its wait misses the broadcast of UNWATCH and sleeps on, at a slot that
another client may take over (383-385); the arguments of a listener are on the
stack of a loop that goes on, so that two listeners may wait at one slot (886);
the first report after WATCH may come before the listener waits, and is lost; a
client that has no watch gets no answer to WATCHES. In the driver: SETWINDOW on
a file that another call goes through, and any area computed before a wait,
leave accesses without a lock that meets them (89, 148, 328); a window of width
0 makes `read` divide by zero with the lock held (102); a window whose corner is
at the edge of the frame may reach over it (224-229); `c` and the pixel are
signed, so that ADD never gets to 255 (171); sizes of 10000 are accepted (276);
the operation belongs to the device and not to the file. In `synchronize.c`: with `-i`, if the
shell is stopped between the `rm` and the `cp` that replace a link by a file
(345-346), the next run takes the file for one that only one side has and
removes the last copy; `ln -sf` onto a link to a directory writes into that
directory (627), so the trees stay different. In `maplock536.c`: a wait
that is interrupted leaks its lock (104-108); a reversed rectangle, whose edges
are swapped, meets others in the code though it has no points. `RegionLock::operator=` (96-106 of
`hw2.cpp`) ends without `return`, which is undefined in C++; the models take
the build in which the assignment takes place.

## 4. Fairness

`MessBoard!FairSpec`: weak fairness of every step the server takes by itself: an
agent that has a command goes on, a pending signal is handled, a notifier
thread runs, because the kernel schedules every thread that can run. `sem_wait`
needs no more than weak fairness: the commands of the clients are finitely many
(`MaxCommands`), so the semaphore is in the end free for whoever still waits;
the code does not promise a turn against clients that never stop sending. The
error path of `send` (`Broken`) is strongly fair: one send to a client that has
gone may succeed, the next one fails, so an agent does not write to nobody for
ever.
A send to a client that keeps its connection and does not read (`ReplyStuck`,
`NotifierStuck`) is under no fairness: it may return or not. Clients need not
send anything.
`RegionLocks!FairSpec`: a process that was woken gets the mutex in the end, as
long as it is not lost with a process that was killed (`Recheck` is not enabled
then, and `WaitersServed` excepts it); nobody need send a command or unlock.
`MapLock!FairSpec`: a process in the kernel that can run does; nobody need make a
call or send a signal.
`RegionWatches!FairSpec`: a send to a client that reads returns, and a process
that sends to a client that is gone is ended; no thread need ever be scheduled
otherwise, and nothing is assumed of a send to a client that does not read.
`FrameBuffer` has no liveness property: a reader at a pixel may wait for its
user's page for ever. `Synchronize` has no liveness
property: its walk is bounded by the trees, and `TypeOK` bounds the stack. No
fairness is assumed of a client anywhere: neither that it sends, nor that it reads,
nor that it stays.

## 5. The proofs

All theorems hold for every value of the constants that the named assumptions
allow. The assumptions are those of the `ASSUME`s in the modules; where a
theorem needs more it says so.

**MessageBoardProofs** (`BoardAssumption`). `TypeOK`, `LoopsStop` and
`LapIntact` for any number of slots and characters and any messages. The
inductive invariant `LapInv` adds `LapSorted` to them: the marks up to the
current slot are in order, without which a message could write over an earlier
slot. The lemmas follow the code: `SwallowKeeps` and `CompactKeeps` say what
each loop leaves alone, `MarksKept` puts them together, `SendCells` says what a
message leaves in a cell. `Compact` takes over the *first* mark behind a run,
so its type needs a least element; `Smallest` gets it from the
well-foundedness of inclusion on finite sets. `LastWithinLap` follows from
`LapInv`: LAST visits the slots of the lap from the first one asked for on
(`VisitedWithinLap`), and what `strncat` copies out of a slot that holds a
message with NULs behind it is the message (`FragmentOfHeld`).

`LoopsAgree` is about recursive functions, and needs induction over the rounds.
The induction theorems of the library take an operator as a parameter and cannot
be used; induction over *sets* can: a set of numbers that has 0 and, with a
number, the next one, has them all (`AllNumbers`), because what it lacks would
have a least member (`Smallest`). With it a function for every recursion over the
numbers exists (`RoundsExist`), so that the recursive functions of the loops are
what their definitions say. The while loop is at slot k after k rounds, or
at the first mark it does not swallow (`WhileSwallows`); a round of the for loop
takes one slot more into `Compact` (`ForRoundCompacts`). Of the board this uses
only the types and that the mark behind the last slot is 0.

**FollowTableProofs** (`TableAssumption`). `TypeOK`, `AllReachable` and
`NoDuplicates` for `Spec` and for `ByeTextSpec`; `CountExact`, `NeverHung`,
`ListsAgree` and the refinement `ImplementsRegistry` for `Spec`, since
`bye_text_hangs` shows that BYE text breaks them. The heart of the invariant
`Correct` is that an entry is reachable from its home slot and that every entry
of a living agent is in its list; the counter is a cardinality, so each command
needs the change of a set by one element.

**MessBoardProofs** (`ServerAssumption`). `MutualExclusion` for any agents,
threads and signals, also when processes end. The invariant `Exclusion` says
that the critical sections that are occupied plus the semaphore are at most
one; with a death the sum goes down and never up. `TypeOK` and `LatestDelivered`
are theorems too. `Delivery` makes the latter inductive: a client that is
connected has a running agent (`ConnectedRuns`), the agent's own list has every
word the registry has for it (`ListHoldsRegistry`), and what is due of the latest
message is about words of that list (`DueIsListed`), so that the thread that
answers the last signal finds them.

**RegionLocksProofs** (`LocksAssumption`, `NoLockAssumption`). All the safety
properties of `RegionLocks` and its refinement of `LockedMap`. `LocksInv`
joins them: `SizeExact` is needed for the loops to see every slot, that for
`NoConflict`, and that ids of waiting clients differ from those of the table
for the refinement, where a grant needs a fresh id. `NoneStranded` is
inductive because a slot is let go only together with its broadcast. Processes
that are killed, with the mutex or without it, only take requests away, and map
to `Vanish` or, if they waited for nothing, to a stutter.

`ListingsExact` follows from `LocksInv` with no hypothesis about areas
(`ListingsStayExact`). `SizeExact` gives that the loops see every active slot,
`UniqueIds` that no lock is in two slots, so the list of the locks of some
slots has each of them once (`InSlotsLists`). That `sortVector` sorts is proved
for every list and not only for the samples (`SortVectorSorts`,
`SortVectorOrders`): after k rounds the result is in order, nothing that is left
comes before any of it, and the two together are a rearrangement of the list
(`SortedSoFar`); the inner loop returns the least of what is left
(`LeastIsLeast`), whatever strict order it compares with; and the long condition
of the code is the lexicographic order of the five numbers (`LesserIsPrecedes`).
The inductions are those of `MessageBoardProofs`. That GETLOCKS lists what
shares a point is `IntersectingSharePoints`, the converse of what `NoConflict`
needs: it holds of areas that have points only.

**FrameBufferProofs** (`FrameBufferAssumption`). All four properties of
`FrameBuffer`. `FrameInv` says, beside the types: a file in use is open, and in
at most one call while it is opened (`FilesInUse`); what a call asks for is what
it holds, and every lock on the whole frame begins at the origin and is for
writing, so that two of them block each other whatever size they were computed
from (`Stages`, `OneOnFrame`); locks that are held do not block each other
(`Apart`); without a SETSIZE at work the memory has the size (`Memory`). For
calls that were not overtaken it adds that the lock is on the present window or
frame, that the place is within the window (`FreshFrame`, `FreshWindow`), and
that such a reader and such a call on the whole frame do not meet
(`FreshApart`), which holds because a window that is near the frame meets it
(`WindowMeetsFrame`). The exception in `overtaken` is thus exactly what the
argument needs.

`WindowsCropped` is not inductive, since a window is written in several steps and
by whoever holds the file. `WindowsInv` follows it through them: a call that sets
a window and was not overtaken asks for one that fits the present size
(`Fitting`); of a window that it alone writes to, what it has stored is what it
asked for (`Stored`); a window with two writers is askew from the first store of
the second on (`Mixed`); of a window that the cropping stands at, the sides it
has looked at end within the frame, and the length it is about to store is the
room there is (`Looked`); a window that nobody writes to, and that the cropping
has not yet to come to, is right (`RestCropped`), while only a SETSIZE at work
leaves files it has yet to come to (`DueLater`).

**MapLockProofs** (`MapLockAssumption`). `TypeOK`, `MemoryKept` and the
refinement of `LockedMap`. `MapInv` adds to them that ids and addresses tell the
places of the list apart (`IdsApart`), that exactly the processes in the kernel
have a lock of their own to put in, and that a lock in use is not complete
(`Waiting`). A
process that sleeps at a lock holds a pointer to it that may be stale; nothing
is said of that pointer but that it is an address, and nothing more is needed,
because what it does to freed memory never reaches a lock in the list. `IdsApart` gives
the bound on the length of the list (no more places than addresses) and, in
the refinement, that a release takes one lock out of the abstract map. That the
list and the memory agree after a removal is about places: `Without(i)` removes
one and shifts those behind it.

**RegionWatchesProofs** (`WatchesAssumption`). `TypeOK`, `NoneLeftAsleep`,
`TellsTruth` and the refinement of `WatchList`. `WatchesInv` has two parts. Of the table: the counter is exact, so
that a loop sees every active slot; ids of one client are distinct and below
its next one; and a client has no more slots than ids (`IdsInv`). The last of
these is what makes "keeps all its watches" a fact that can only become false:
once a watch is let go the count stays behind the ids for ever, so whatever is
shown of a client that keeps its watches survives the UNWATCH of others. Of the
threads: who tells holds the mutex (`HolderSends`); a sleeper that was not
missed is at an active slot (`Sleeps`), since the slot is let go together with
the broadcast; a listener about to tell is at an active slot, its client's own
if the client keeps its watches (`Tells`); the arguments from which a listener
starts name such a slot (`ArgumentsHold`).

**SynchronizeProofs** (`SynchronizeAssumption`). `TypeOK`,
`VersionNeverLost` and `Result` for any trees, any number of new starts and any
lag of the shell. `WalkInv` is the walk: the calls go down one path (`Walk`), and no
command is printed about a path that a call has yet to come to (`Commands`,
`Ahead`), so that what the walk finds in a directory is not changed behind its
back above the entry it is at. From it follows the depth: the prefixes of a path
are as many paths (`DepthBounded`). `VersionsInv` is about the paths of which a
version is to be kept. `VersionNeverLost` alone is not inductive: that `rm` and
the copy after it leave a version needs that the other side has it. So for files
and links (`FileKept`) each side has its entry of the beginning, nothing, or a
kept version (`Values`); what is copied is a kept version (`Copies`); of what is
removed the other side has the kept version, as a file, and nothing will be
copied from the side that loses it (`Removals`); and since lookups come late,
what a call has listed is there until the loop over the links has been at it,
and what it lists on one side only is the kept version (`Finds`). For
directories it is enough that one of them stays; with -i no `rm -rf` of a path
that both sides have is printed, and all listings agree on it (`Intersected`).
The comparisons of the code (`Better`) are shown to choose as the homework's text
(`MoreRecent`) does, for all times and sizes (`Decided`).

`Result` adds that the walk leaves nothing out and does nothing twice; it takes
two more invariants. `OnceInv` says what is decided and by whom. Nothing comes
from nowhere (`Origin`). Calls list and commands name only what is in a
directory of both sides (`Parents`), so a command finds a directory to write in.
A directory that is to be kept stays on every side that had it, and is copied
only as a whole (`DirectoriesStay`). Two files that only their contents tell
apart are let alone (`TwinsStay`). Of a file or a link one loop of one call
prints (`Once`): which one is fixed by the kinds of the two entries (`Due`), and
while its commands are pending no other loop is due, neither with what stands
there now nor with what the commands will leave there; without this a loop over
the links that comes after the shell has run a command of the loop over the
files could print again. `CompleteInv` says that every path is accounted for: a
path of which a version is kept is agreed, or a pending command brings it
(`Fixing`), or a call on the stack will come to it or go down to a call that
does (`ComesTo`); with -i, a path that one side lacks has gone, or a pending
command removes it (`Removing`), or a call will (`WillRemove`). A command at the
head of the script that brings or removes a path does not fail and does not
write beside (`ExecuteBrings`, `ExecuteRemoves`); a visit hands the path on, to
a command or to the call it enters (`VisitComplete`, `VisitLeaving`); and a call
that begins comes to everything below its directory (`EnterComing`,
`EnterLeaving`), which is also why a new start, after a cut at any place, ends
the same way. With no call and no command left, only "agreed" remains.

Only model-checked: liveness under fairness (`WaitersServed` of the region
locks, `EveryCommandServed`, `SignalsHandled`, `MutexFreed`), which the prover
does not do. Every invariant and every refinement that a run checks is a theorem.

## 6. Not modelled, and why

- Text: prefixes, `strtok`, brackets around words, printing. A word is a value.
- `malloc` in a signal handler (126), `realloc` of the reply (269), the private
  list with 8 bytes per word (307): heap layout, below the abstraction.
- Doubles of `hw2.cpp`: integers compare alike. The limit of 100000 slots, at
  which `getFirstAvailableInd` returns nothing defined.
- What a notifier has already sent when its client stops reading: it tells the
  client of all its words in one step, or of none.
- `kmalloc` that fails; other users of freed kernel memory.
- In the synchroniser: directories that cannot be opened (`l1` and `l2` stay
  uninitialised), names that need quoting, allocations that are too short
  (430), a command that is cut off in its middle.
- In the driver: contents of pixels and the arithmetic on them; the pointers of
  the list of files, which `open`, `release` and the cropping change without a
  lock; `llseek` and the calls that only read; several minors, which share
  nothing but the locks; loading and unloading; `vmalloc` that fails.
- `WATCH` when `pthread_create` fails (the watch stays without a listener).

## 7. Plan

Done: the messboard server whole; the region lock server with its locks,
listings and watches; the system calls; the driver; the synchroniser. Proofs of
every safety property and every refinement that the runs check.

Next, in this order:

1. `RegionLocks` and `RegionWatches` together, so that reports are about locks
   that were granted or let go; the state space of both is the obstacle.
2. The list of files of the driver with its pointers.

Runs are kept to a dozen questions; a new one takes the place of the run that
asks the least, or joins one that already explores its state.
