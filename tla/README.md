# dvbServe in TLA+

dvbServe receives digital television with one or more DVB tuners and passes
programs on to whoever asks: UDP and multicast receivers, files, and web
clients. It is a multi-threaded C program whose threads share tables, lists and
buffers, some under mutexes and some not. These modules model the parts where
that matters, check them with TLC on small instances, and prove of most of them
that their safety properties hold for every size.

All sources named below are under `src/DVB/`.

## The system

### Threads

| Thread | Started in | What it does |
|---|---|---|
| main | `main.c` | starts the servers, tunes each tuner once (`dvb_init`), sleeps |
| telnet | `socketserver.c` | one `select` loop: users, lines, commands; runs `session_telnetStart...`, `session_stop` |
| web | libmicrohttpd | one per connection: `/stream`, `/live`; runs `session_addNew`, then reads the destination's buffer |
| hardware, one per tuner | `dvbhardware.c:696` | reads the stream, assembles tables, files programs, scans while idle, `session_write` |
| reaper | `session.c:638` | every 100 ms tears down the sessions without destinations |
| buffer, one or two per session | `destination.c:55` | copies the session's buffer and passes it on to the destinations |

### Components

**PID filters of a tuner** (`dvbhardware.c`: `pids[]`, `tunerLockMutex`).
State: 32 slots, each a PID and a demux handle. Operations: `AddPID_to_Demux`
(under the mutex), `removePID_from_Demux` (no mutex), the clearing loop of
`dvbs_tune` (mutex) and `dvbt_tune` (none). Hard: scans of the table by one
thread while another frees or claims slots. Correct if no PID is listed twice,
no slot is taken over, a filter passes what its slot lists, and the table is
empty while a satellite tuner is retuned.

**Tuner and hardware thread** (`dvbhardware.c`). State: `currentState`,
`refcnt`, `sequence`, `last_sequence`, `curr_frequency_ptr`, `fe_params`, all
without a lock. Operations: tuning by main, clients and the scan; reading up to
five packets; filing of programs (`channel_addPAT`) under the current frequency;
the scan of `frequency_ll`. Hard: a retune between reading a packet and filing
what it says; clients racing for an idle tuner; a scan racing with a client.
Correct if programs are filed where they belong, PIDs do not outlive their
session, a live session's tuner is left alone, and the scan goes on for ever.

**Sessions** (`session.c`). State: `sessions_ll`, and per session a state, a
buffer, a list of destinations. Operations: `session_addNew`, `session_stop`,
`session_stop_type`, `session_write`, the reaper. Hard: sessions are searched,
shared, stopped and freed by different threads, buffer threads are detached.
Correct if what is in the list may be used, and sessions go when nobody listens.

**Destinations** (`destination.c`). State: kind, buffer, `expired`. Operations:
`destination_create`, `destination_process`, `destination_close_type`,
`destination_close_all`, `destination_getDatafromBuffer`. Hard: three kinds of
threads free destinations; overflow dumps buffers. Correct if nothing is freed
twice, and the stream arrives in order, at most once, in whole packets.

**Web server** (`webserv.c`). A request creates a destination and joins a
session; a callback reads the destination until the client goes, when another
marks it expired.

**Channels and frequencies** (`channels.c`). `frequency_ll` and `channels_ll`,
filled by the hardware threads and searched by `session_addNew`. Correct if a
program is filed under the frequency it was received on.

**Telnet console** (`telnetservermanager.c`, `socketserver.c`). State: the
descriptors the loop selects on, and per user a name, a line buffer, the stage
of the login and the bytes of a negotiation still to be skipped. Operations:
connecting, disconnecting, `telnet_process` for each byte. Hard: descriptors are
reused, a failing `recv` leaves the user's entry behind, negotiations arrive
amid what is typed. Correct if a connection has its own entry, commands run only
after a login, and no byte of a negotiation becomes part of a line.

**Linked list** (`linkedlist.c`). State: nodes, header, footer, count, lock; an
iterator for the thread that walks. Operations: append, insert, walks with
removal. Hard: a removal relinks by the iterator's own copies of the pointers.
Correct if the list stays linked both ways and the walk misses nothing.

**Programme guide** (`utils.c`: dates of the event table; `database.c`: SQLite
behind check-then-insert; filled by `process_eit` and `channel_addSDT_Info2`).
Hard: days into dates and back into seconds; several tuners that file the same
rows; restarts. Correct if the start stored is the start broadcast, and rows are
not stored again.

**Configuration**, **start-up** (`main.c`).

### How they interact

    web, telnet --session_addNew--> sessions --tune, AddPID--> tuner, PID table
    hardware    --session_write---> session buffer --buffer thread--> destinations
    hardware    --channel_addPAT--> channels <--search-- session_addNew
    hardware    --tune, AddPID----> tuner, PID table           (scan)
    reaper, session_stop --removePID, refcnt----> tuner, PID table
    hardware    --addevent, addchannel--> database

Locks are taken in the order users < commands < `sessions_ll` < {destination
list, `tunerLockMutex`, session buffer} < destination buffer, and
`frequency_ll` < `channels_ll`; no cycle was found in the code.

The hazards are listed one by one, with their lines, in `PROJECT.json`.

## Modules

| Module | Models | Abstract or detailed |
|---|---|---|
| `DemuxTable` | PID filters, one shared access per action | what `Tuner` uses of the table |
| `Tuner` | one tuner and all who drive it | implements `DemuxTable` (`DemuxTableSpec`) |
| `Ownership` | what session.c and destination.c promise of a destination | abstract |
| `Sessions` | sessions and destinations: lists, memory, locks | implements `Ownership` (`OwnsDests`) |
| `Pipe` | what a session promises one destination | abstract |
| `Delivery` | buffers and sending, byte by byte | implements `Pipe` (`PipeSteps`) |
| `ItemList` | what a list promises its users | abstract |
| `LinkedList` | `linkedlist.c`, node by node | implements `ItemList` (`AListOfItems`) |
| `Login` | what the console promises a connection | abstract |
| `Console` | the select loop and the telnet users, byte by byte | implements `Login` (`KeepsLogin`) |
| `EitTime` | dates of the event table, as pure functions | |
| `Guide` | filing of events and channels in the database | uses `EitTime` |
| `...Proofs` | theorems about the module of that name | |
| `MC...` | the constants TLC uses | |

`Tuner` is composed with `DemuxTable` by `D == INSTANCE DemuxTable`: each step
of a tuner operation that touches the table is an action of that module.
`Sessions` and `Tuner` model the two halves of the same functions:
`session_addNew` and the teardown appear in `Tuner` with their calls into one
tuner (reference count, PIDs, tuning) and in `Sessions` with their lists and
memory, where a tuner is a choice between "took one", "shares one", "none".

Operators whose comment begins with "Seeded fault" are plausible mistakes in
the code, used to see that each property can fail; no specification uses them.

### DemuxTable

`pids`, `filter` (what the demux handle of a slot passes), `open`, `lock`, and
for each thread the call it is in (`pc`, PID, loop index). One action is one
access to the table or one ioctl. `AddPID_to_Demux` is `CallAdd`, `LockForAdd`,
`DupScan`, `FreeScan`, `ClaimSlot`, `StartFilter`; `removePID_from_Demux` is
`CallRemove`, `FindSlot`, `StopFilter`, `FreeSlot`; the tunes are `CallTune`,
`LockForTune`, `StopForTune`, `FreeForTune`, `EndTune`. Two teardowns never run
at a time (both callers hold the lock of the sessions); this is the guard of
`CallRemove`, and `Tuner` shows it for its callers. The demux devices are taken
to have been opened at start. A refused filter closes the handle and leaves the
PID in its slot, as the code does.

### Tuner

Tunes are split at each access the others can meet: table, `fe_params`, frontend,
`sequence`, `curr_frequency_ptr`. `refcnt++`, `refcnt--` and `sequence++` are a
read and a write. `FE_SET_FRONTEND` is given `fe_params` as another `dvbt_tune` may have
left them, and may fail, in which case neither tune stops. The DVR
device is a short queue of packets, each with the transponder it came from; a
packet comes from any filter that runs. `session_write`, when it meets the
program table of a live session, makes `process_pmt` list and filter that
session's stream. Assumed: main's tune is over when the first scan is due (0.1 s
against 5 s); single words are read and written atomically, in program order.

### Ownership and Sessions

Memory is a set of addresses with "free" or "allocated"; freed memory keeps its
contents, and is handed out again only when nobody refers to it any more. That
is the likeliest outcome of what C leaves undefined, and the runs that show a
use after free need no more. A critical section of a list is one action, except
that buffer threads stay inside the destination list's lock while they send.
A null pointer (`crash`) ends the program: a session ordered for a telnet user
without a destination, or a buffer thread that runs before the session has its
list of destinations. The telnet thread may give `session.start.url` any kind of
URL: `TelnetKinds` says which, as `WebKinds` does for the web clients. The lists are sequences here; that `linkedlist.c` makes
them so is `LinkedList`'s business.

`Ownership` says who may free a destination: the client that made it carries it
(`Take`), gives it to one session (`Give`), and that session alone frees it
(`Free`), only for a reason, which is a new live client or the end of the web
connection (`End`), and never while a connection reads it (`MayFree`); with
`session.stop` in use any reason does. A destination nobody owns any more is lost in
two ways only: no tuner was found for it (`Forget`; the code frees nothing then,
`session.c:466`), or its session was freed with the destination in its list
and the session's address is used again (`Open`). A client carries a destination from
its making to the end of `Build` or `Join` (`Carries` in `Sessions`); `OwnersOf` maps
the clients' calls and the lists to owners.

### Pipe and Delivery

Bytes carry numbers, so that order, loss and duplication can be seen. `Pipe` is a
queue that may lose its newest or oldest bytes, but only when less than a packet
of room is left. `Delivery` has the session's buffer, the threads' copies and the
destination's buffer. `session_write` tests for room before it takes the lock
(`HwCheck`, `HwWrite`). UDP sends one datagram of three packets for each time
round the loop, multicast all there is in one datagram, which stops working when
there is more than fits one, until the buffer is dumped; files get whole blocks;
a web connection reads what it likes once there is enough.

### ItemList and LinkedList

`Nodes` are the addresses of `linked_node`, `used` those allocated. An append or
insert is one action under the lock; a walk is `CreateIterator`, `Iterate`,
`RemoveCurrent`, `ReleaseIterator`, by the holder of the lock. `order` and `pos`
are history variables (nothing reads them but properties). `scan`, `find` and
`remove` by value are left out: no list of the program is given a compare
function, and without one they return at once.

### Login and Console

One byte is one action, since callbacks hold the lock of the users throughout.
A connection ends by hanging up (the user is dropped), by `quit`, by too many
failures, or by an error of `recv` (the entry stays until its descriptor is
accepted again, when `telnet_onconnect` drops it). `malloc`'s memory holds any
line. `phase` is the environment: where each client is in a negotiation, three
bytes or a subnegotiation shorter than the guard of 50 bytes that the code
counts. Lines are shorter than the buffer, `MAX_TELNET_STRING`. What a command
does is left out; `ran` records that one ran, and for whom.

### EitTime and Guide

`EitTime` translates the arithmetic of `EITDecodeMjd`, `session_timegm` and
`EITConvertStartTime`; doubles become exact fractions, and truncation gives the
same (`NoQuotientIsWhole`). Seconds since 1970 are a pair of day and second,
since TLC's integers have 32 bits. In `Guide` a day passes at a time and
hardware threads file events of the day: SELECT, then INSERT, with restarts
between any two statements. Either may fail. A SELECT that cannot be prepared
ends the call; one that fails as it runs (`sqlite3_step`) goes unnoticed, its
column reads as 0, and the row is inserted as if it were missing; the history
field `answered` of a row tells. Assumed: the process has the file to itself.

## Runs

| Run | Instance | Shows |
|---|---|---|
| `demux` | 3 slots, 2 PIDs, 3 threads, satellite, filters fail | no duplicates, no overwriting, filters match, quiet tune; every call returns the mutex |
| `tuner_session` | 1 client, 2 frequencies, 3 slots, 3 tunes, satellite; 323,000 states | retunes are quiet, no scan begins under a live session, what was read before a retune is not filed under its frequency, `DemuxTable` is implemented |
| `tuner_share` | 2 clients, 1 frequency, terrestrial; 525,000 states | sharing: every variable keeps to its type, no orphaned PID |
| `tuner_scan` | 1 client, 2 frequencies, 1 slot; 991,000 states | once the client's session is torn down the scan asks for every frequency again and again |
| `sessions_safety` | 2 sessions, 2 destinations, a live client, the telnet thread with UDP and http:// destinations; 1,024,000 states | lists hold only what may be used; one live viewer |
| `sessions_served` | 1 session, 2 destinations, a web client that streams, the telnet thread with live:// destinations; 66,000 states | destinations survive their readers, `Ownership` is implemented, empty sessions and expired destinations go, `session_addNew` returns |
| `sessions_bufthread` | as `sessions_served` | violation: see Findings |
| `sessions_join` | as `sessions_served` | violation |
| `delivery` | each kind, 1 or 2 buffer threads, 6 packets | buffers are not overrun, at most once, whole packets, `Pipe` is implemented, a backlog drains |
| `linkedlist` | 4 nodes, 2 items, 1 thread; 436,000 states | linked both ways, nothing dangles, `ItemList` is implemented |
| `console` | 2 descriptors, lines of 2 characters, 1 account; 167,000 states | an entry each, negotiations are skipped to the byte, `Login` is implemented |
| `guide` | 2 tuners, every day from 1959-12-31 to day 65535; 365,000 states | starts are counted and stored right, no tuner stores a row again, but after a query that failed |

### Bounds

- `MaxFilterPid` 3: enough for a slot before and behind the one a thread looks
  at; with two PIDs and three threads each pair of operations overlaps with a
  third. The proofs need no bound.
- `MaxTunes`, `MaxDrift`, `RingSize` in `Tuner`: three tunes are main's, the
  scan's and a client's; the reference count may drift through lost updates,
  and no session starts once it is `MaxDrift` from 0. `SequenceWidth` is 8 where
  tunes are bounded (no wrap) and 1 in `tuner_scan`, which has no other bound and only asks
  which frequencies are tuned to: neither the number of the tune nor the one
  slot matter to it (`DupScan`, `FreeScan` and a full table still happen). In `tuner_share` there is one frequency and
  one tune, main's: the clients meet on the same frequency, so that the state
  goes into the reference count and the table. `Returning` are the clients that
  come back after their session: in `tuner_session` the one client does, in
  `tuner_share` each of the two has one session.
- `Sessions`: with two sessions and two destinations one of each is torn down
  while another is set up; addresses are reused. Liveness is checked with one
  session, since it is about one session's end. The safety properties are proved
  for any number (below).
- `Delivery`: sizes keep the code's inequalities, scaled down: a datagram is
  smaller than its mark, a block no multiple of a packet, the destination's
  buffer holds more than the session's, the largest datagram is smaller than
  the buffer. `MaxBytes` (6 packets) fills both buffers over their ends.
- `LinkedList`: four nodes put a removal at the header, at the footer and
  between two neighbours, and a second removal behind each. One thread walks at a
  time, so that a second one adds nothing (and the proofs are for any number).
- `Console`: `MaxLine` 2 and one character give lines that are empty, the name,
  the password, or `quit`; `MaxFailed` 1 for the code's 2; `SkipGuard` 3 for the
  code's 50, the least with which a subnegotiation has any content; two
  descriptors let one be reused while the other is in use.
- `Guide`: the days go from 36933 (1959-12-31, before any broadcast there is) to
  65535, the last of a 16-bit number, in two stretches that begin at `FirstDays`
  and end at `LastDays`, since TLC follows no behaviour beyond 65535 steps. Rows are filed on
  the day on which a 32-bit count of seconds ends (`FilingDays`), at the last second
  it counts, at the next one, and with the time left open (`Broadcast`). One row may
  follow a query that failed (`MaxUnanswered`), two if both tuners' fail at once; conversions are checked on all
  these days, and proved for every day and time.
- Symmetry is used in `tuner_share` (clients, with their PIDs), `sessions_safety`
  (addresses) and `console` (descriptors), all without liveness.

Deadlock checking is off where the modelled bounds, or clients who need ask for
nothing, let the system stop; `demux` and `console` have it on.

### Fairness

A thread inside a call keeps running (weak fairness of its steps). The hardware
thread looks at the clock every time round its loop, packets or not, so a scan
that is due is not starved by data: strong fairness of `HwScan`. The locks of
the lists are taken by polling threads that sleep between walks (`usleep` in the
reaper and the buffer threads), so a waiting thread gets them in the end: strong
fairness in `Sessions`. In `Delivery`, sending fails for a while but not for
ever: strong fairness of a step that sends. Clients are never obliged to come,
go, or read.

### Findings

- `sessions_bufthread`: "Stop thread.." sets a flag, and the session is freed
  while its buffer threads may still be asleep; they wake up and read it.
- `sessions_join`: a session found is used after the lock is released, when the
  reaper may have freed it.

Seen while modelling, in the models, and not stated as a property because the
repository promises nothing that could be contradicted by a run:

- "Resetting Sections buffers" (`dvbhardware.c:828`) resets nothing; packets of
  the earlier transponder still in the device are filed under the new frequency.
- Two clients can both find the reference count 0 (`session.c:421`); the second
  one retunes the tuner under the first.
- `if ((write_data=1))` assigns (`destination.c:287`), so that `file_write_time`
  of `config.ini` has no effect: every block is written as soon as it is full.
- `start_time` is an `int` (`database.c:48`): starts from 2038-01-19 03:14:08 on
  are stored as negative numbers, though still each as its own.
- `sqlite3_step` of a SELECT is not looked at (`database.c:63`, `:109`): when it
  fails, the row counts as missing and is stored again.
- `dvbt_tune` takes no mutex (`dvbhardware.c:952-954`): of two at a time one may lose
  its `sequence++`, or give the frontend the other's frequency.
- A scan begun just before a client marks the tuner busy retunes it
  (`dvbhardware.c:755`).
- A removal that comes between the listing of a PID and its filter
  (`dvbhardware.c:1155`, `:1204-1205`) leaves the filter running in a free slot, and the PID,
  added again, is filtered twice.
- `session.start.url` takes live:// (`session.c:162`): a viewer brought by telnet and
  one brought by a web client at the same time may both stay.

Properties that hold only with a restriction name it: `ScanSparesSessions` is
checked and proved for one client, and of scans that begin after the tuner is marked busy;
`ScannerVisitsAll` for one client at most (two can lose an update of `refcnt`, and the
tuner then stays busy), and of frequencies asked for, received or not; `InFlightGuard` for
satellite tuners; `NoDuplicatePid` of the list, not of the filters;
`LiveIsExclusive` as long as one thread alone brings live destinations; `OncePerTuner` of
rows whose SELECT did not fail as it ran; `HttpDestSurvives` without `session.stop`;
`NegotiationsAreSkipped` for negotiations within the guard; order in `Pipe` for
one buffer thread (a session that takes its tuner starts two). What holds without them is `AtMostOnce`, `ListedAreLive`,
`ListedDestsAreAllocated`, `NoOrphanPid` and all of `DemuxTable`.

## Proofs

The inductive invariants were checked by TLC on the runs' instances before they
were proved. The assumptions on constants are the named ASSUMEs of the modules.

### The table of PID filters, and the tuner that uses it

`DemuxTableProofs` proves, for every `MaxFilterPid > 0`, every set of threads and
PIDs, both kinds of tuner, and filters that fail or not:

| Theorem | Says |
|---|---|
| `Inductive`, `TypeCorrect` | `Spec => []IInv`, `Spec => []TypeOK` |
| `NoDuplicates` | no two slots list a PID (what runs in a free slot is left open) |
| `ScansStand` | what `AddPID_to_Demux` has seen still holds when it acts on it |
| `FiltersMatch` | a filter passes the PID its slot lists |
| `TuneIsQuiet` | `dvbs_tune` sets the frontend with an empty table |
| `SlotsAreNotOverwritten` | no step turns one PID of a slot into another |
| `NobodyReturnsLocked` | whoever owns the mutex is still inside: no way out, early or late, keeps it |

They follow from `IInv`, which adds to the properties what makes them inductive.
`MutexHeld` says that a call past its lock owns the mutex. `ScanStands` is the
heart of the matter: slots behind a scan may be freed by a removal, but a PID
that was not there cannot appear, since only a claim lists a PID and claims need
the mutex. `TuneClears` is the same for the clearing loop of a locked tune: the
slots passed stay empty and stopped. `NoDuplicatePid` then follows at the only
step that lists a PID, and `FilterMatchesSlot` at the only step that starts a
filter. The assumptions are that there is a slot, that 65535 is no PID anybody
asks for, and that "nobody" is no thread.

`TunerProofs` proves, for any number of clients, frequencies and slots:

| Theorem | Says |
|---|---|
| `UsesTable` | every behaviour of `Tuner` is one of `DemuxTable` (`DemuxTableSpec`), whose theorems therefore hold in it |
| `RetunesAreQuiet` | a frequency is published only with the table empty and every filter stopped (`RetuneQuiet`) |
| `NoPidOutlivesItsSession` | what was filtered for a session is out of the table once the session is torn down (`NoOrphanPid`) |
| `TypeCorrect` | `Spec => []TypeOK` |
| `ReadBeforeRetune` | on a satellite tuner, what was read before a tune counted up is not filed under that tune's frequency (`InFlightGuard`), as long as the counter of tunes has not gone round |
| `ScanSparesTheSession` | with one client, no scan begins from the moment the tuner is marked busy until its session is torn down (`ScanSparesSessions`) |

Each step of the tuner is a step of the table or leaves it alone (`TableStep`);
for that, the lists of PIDs a thread has still to add must hold PIDs
(`ListsOfPids`). `RetuneQuiet` needs the table's invariant and `JobsInCalls`: a
tune past the clearing is still inside its call, at the place where
`TuneClears` of the table says that all is cleared.

`NoOrphanPid` needs an account of who may still add a PID of a session, since
`removePID_from_Demux` walks the table once, without the mutex. `Adders` gives
it: the program table's PID is added by `session_addNew` alone, before the
session is in the list, and the stream's by `process_pmt` under the list's lock,
which a teardown holds from its first step to its last (`Locked`). So nobody adds
what a removal looks for: `RemovalPasses` says that the slots it has passed stay
without it, and `Listings` that a PID in the table has a session, and is being
removed once the teardown has come to it. Slots freed by a tune in the middle of
the walk only help. The assumptions are that no two clients have a PID in common
and that no service information PID is a client's (`PidsAssumption`), and that the
hardware thread tears no session down (`ActorsAssumption`).

`TInv` is the invariant behind the types. That a program is filed under a
frequency of `frequency_ll`, and never under none, is not local: it holds because
until main's tune has published one (`Starting`) no filter runs and no packet
comes, and a frequency once published is only replaced by another (`Started`).
`frequency_ll` is taken to hold frequencies, and `NoFreq` to be none
(`BoundsAssumption`).

`InFlightGuard` follows from `Numbered`: no pointer the thread has copied comes
from a tune later than the number it compares. That a tune publishes its own number
needs the mutex (`OneCounts`: one tune at most is between reading `sequence` and its
end), and so holds of `dvbs_tune` only. Once the counter has gone round
(`NoWrap` fails), an old number may look like a later one, so the theorem is
about behaviours in which it has not.

`ScanSparesSessions` rests on `Counted`: the count is 1 exactly while the session
of the one client holds the tuner, and a tuner that is taken is marked busy. It
is here that one client is needed: with two, an update of the count lost between
its read and its write leaves 0 behind while a session is live, the reaper or
`session.stop` marks the tuner idle, and a scan begins under it.

### The sessions

`SessionsProofs` proves, for any number of sessions, destinations, channels and
clients, with `session.stop` and without it:

| Theorem | Says |
|---|---|
| `Inductive`, `TypeCorrect` | `Spec => []IInv`, `Spec => []TypeOK` |
| `ListsHoldTheLiving` | whoever takes the lock finds whole, running sessions (`ListedAreLive`) |
| `DestinationsAreAllocated` | a destination is in one list at most, and allocated while it is (`ListedDestsAreAllocated`) |
| `ReadersAreSafe` | without `session.stop` a destination outlives its reader (`HttpDestSurvives`) |
| `DestinationsHaveOwners` | every behaviour is one of `Ownership` (`OwnsDests`) |
| `OneLiveViewer` | as long as one thread alone, web or telnet, brings live destinations, one at most is in the list of sessions (`LiveIsExclusive`) |
| `NobodyKeepsTheSessions` | whoever owns the lock of the sessions is still walking the list (`SessionsLockIsUsed`): none of the three walks has a way out that keeps it |

`ListedAreLive` speaks of the moments when nobody has the lock; `Listed` says
what a teardown under the lock may have done to the one session it works on, and
`Owners` and `Walks` that there is one such teardown, and where it stands.
`Building` keeps a session that is not complete yet out of the list and out of
everybody else's hands. `Destined` follows a destination from `session_addNew`,
where one client carries it, into one list: it needs both halves, since a
destination already in a list must not be added to a second one. `Read` ties the
reader to the kind: those who free unexpired destinations without `session.stop`
free live ones only. The proof has one lemma per action, and lemmas before those
for what a step does to the records (`Moving`, `Discarding`, `Shrinking`).

For `OwnsDests` each action is a step of `Ownership` or leaves its state alone (the
lemmas `...Owns`, of which `QuietOwns`, `DiscardOwns` and `FreeOwns` serve the
threads, `Giving` and `ReturnReads` the calls). `Owning` is what `Destined` means
there: what a client carries, or a list holds, has that one owner. Two
facts are added to `IInv`. `Fresh`: a session being built has no destination before
its builder gives it one, because nobody else has found it; otherwise filling its list would
take a destination from somebody. `OnlyHttpIsRead`: only destinations of /stream are
read, so that the end of a call never ends a reading. That a buffer thread
may work for a session already freed, and a client join one, is no obstacle: they free, and
fill, the list of that session and no other.

`LiveIsExclusive` looks at the list only, and the new destination comes into it
long after `session_stop_type` has turned the others out and given the lock back.
`Alone` bridges the gap. `TurnedOut` says that behind the walk nothing is live,
and, from its end until the new session is listed or joined, nothing at all;
`Apart`, that what other threads bring meanwhile is not live, that a session
about to be listed brings one destination, its client's, and that nobody joins a
session that is still being built. With a second thread that brings live
destinations `Apart` fails, and both may stay.

### Delivery

`DeliveryProofs` proves, for every size, mark, set of buffer threads and kind of
destination:

| Theorem | Says |
|---|---|
| `BuffersHold` | no buffer is overrun (`NoOverrun`) |
| `IsAPipe` | with one buffer thread, every step is a step of `Pipe` or a stutter (`PipeSteps`) |
| `OneThreadKeepsOrder` | as long as there is one buffer thread, the stream arrives in order |
| `DeliveredOnce` | no byte is delivered twice, with any number of threads (`AtMostOnce`) |
| `PacketsStayWhole` | datagrams hold whole packets (`WholePackets`) |
| `TypeCorrect` | `Spec => []TypeOK` |

The inductive invariant is `IInv` of `Delivery`. Its conjunct `RoomSeen` is about
the test for room that `session_write` makes before it takes the lock: the
answer may be out of date, but only because the buffer has been emptied, so that
"there is room" stays true, and "there is none" is harmless, since then nothing
is lost that was there. `TempEmpty` says that a thread that is about to copy has
passed on what it had. The refinement maps the way of a byte to `dbuf`, the
thread's copy and `sbuf`, in that order; each action has a lemma of its own
(`WriteIsPut`, `CopyIsStutter`, `ProcessIsDeliverOrLose`, `ReadIsDeliver`). The
assumptions are those named in `Delivery`: sizes are positive, a datagram is no
longer than the mark at which it is sent, a packet fits the session's buffer, a
UDP datagram is a whole number of packets (`DatagramAssumption`; the code sends
three), and the buffer threads are finitely many.

`PipeProofs` proves `Ordered`: what a pipe has delivered, followed by what it
still holds, is numbered upwards. `OneThreadKeepsOrder` carries that over:
`IsAPipe` makes a behaviour with one thread one of `Pipe`, whose theorem then
speaks of `dbuf`, the copy and `sbuf`.

With two threads order is lost, and two invariants say what is not. `Apart`
(theorem `BytesAreApart`): every buffer holds a byte once, no byte is in two of
`sbuf`, `dbuf`, what was sent and the threads' copies, and none has a number yet to
come. `AtMostOnce` alone is not inductive, since a byte in two threads' copies, which it
does not speak of, would be delivered twice. `InPackets`: every buffer is a whole number
of packets long and each of its bytes stands where it would in a packet
(`Aligned`), which is what is left of order when two threads mix their copies, and what
dumping a buffer keeps. `TypeOK` bounds the lengths of the buffers by what was received;
as they hold each byte once, that is the pigeonhole principle
(`OnceIsShort`).

### The linked list

`LinkedListProofs` proves, for any number of nodes, items and threads:

| Theorem | Says |
|---|---|
| `Inductive`, `TypeCorrect` | `Spec => []Inv`, `Spec => []TypeOK` |
| `LinksAreWell` | `WellLinked` |
| `NothingDangles` | `NoDangling` |
| `Refinement` | `AListOfItems`: every behaviour is one of `ItemList` |

`Inv` is `TypeOK`, `WellLinked` and `IteratorStands`; the last one, that the
iterator's copies are those of the node it stands on, is what
`linkedList_iterator_remove_internal` relies on when it relinks by them. For the
refinement a list is the sequence of what its nodes, in order, point to.

### The console

`ConsoleProofs` proves, for any descriptors, characters, accounts and bounds:

| Theorem | Says |
|---|---|
| `Inductive`, `TypeCorrect` | `Spec => []IInv`, `Spec => []TypeOK` |
| `EntriesAreOwn` | a connection has one entry, its own (`OneEntryEach`) |
| `SkipsNegotiations` | `skipChars` is 0 just when the client types (`NegotiationsAreSkipped`) |
| `LoginIsKept` | the console implements `Login` (`KeepsLogin`) |

`NegotiationsAreSkipped` tells a skipped byte from one that is not, and is no more inductive than
a clock that only knows noon: `Skipping` says how many bytes are
still to be skipped at each point of a negotiation (`StillToSkip`), in a
subnegotiation the guard less what it has had, so that the guard never runs out before
its end. `OneEntryEach` is needed by everything else: an action changes the
entry of its descriptor, and the others' only stay theirs if there is one for each
(`Updated`, `Removed`). For the refinement, a connection without an entry is "closed", and what
`Login` calls its stage, name, line and failures is read off its entry. Each
action is a step of `Login` for its own connection (`StepOfLogin`), and no step at all
for the others (`Elsewhere`), whatever entries failed connections left behind.
The assumptions (`BoundsAssumption`, in `Console`) are that the guard is at least 3 and that
"nobody" is no descriptor.

### The programme guide

`GuideProofs` proves, for any tuners, services, times of day and days:

| Theorem | Says |
|---|---|
| `NoQuotientIsWhole` | the quotients of `EITDecodeMjd` are never whole, nor their numerators multiples, so that exact fractions are cut off where the code's doubles are |
| `StartsCount` | on each of the 65536 days, at every time, the detour over the date ends at the right second (`StartsAreCounted`) |
| `StoredOncePerTuner` | no tuner stores a row again, but after a SELECT that failed as it ran (`OncePerTuner`) |
| `TypeCorrect` | `Spec => []TypeOK` |
| `EventsKeepTheirStart` | an event is stored under its start until 2038, and under that of no event of another start afterwards (`StartsAreStored`) |

`StartsCount` is about the calendar. A day counted from 1 March 1900 is
1461 q + 365 r + k: q periods of four years, r years of the period, k days of the
year that begins in March, and `Years` shows that the first quotient of
`EITDecodeMjd` finds the year, `Months` that the second finds the month and the day; the few days
before that are `EarlyDates`. On the way back `session_timegm` counts a
leap day for each leap year since 1970, which is a cardinality: `LeapDays` gives
it by a bijection between those years and the multiples of four
(`LeapYears`: the years 16 bits of days reach know no exception). `Timegm` puts
the two together; the days before 1970 have years before 1970 (`EarlyTimegm`), whose
starts the code takes to be unknown. `Digits` is the same for the time of day, two
decimal digits at a time.

What makes `OncePerTuner` inductive is `OwnMissing`: a thread about to insert a row
after an answered query has none of that key yet, because no other thread inserts
rows for its tuner; and `Firsts`: such a row is therefore its tuner's first.
The last two follow from `Filed`: a row, and the row a thread is about to look
for, keep the start of the event they came from. `IntTimes` is the arithmetic:
32 bits tell apart all the times that 16 bits of days reach from 1970 on, and the
unknown one. The assumptions are that days have 16 bits (`DaysAssumption`), and that
hours, minutes and seconds broadcast are two decimal digits each, or the time is left
open (`BroadcastAssumption`).

### Only model-checked

Liveness (`LockIsReleased`, `ScannerVisitsAll`, `EmptyIsReaped`,
`ExpiredIsFreed`, `AddNewReturns`, `Drains`), which is out of the prover's reach
(of `LockIsReleased` and `AddNewReturns` the safety half is proved,
`NobodyReturnsLocked` and `NobodyKeepsTheSessions`: no way out keeps a lock; what
is left is that a thread inside one keeps running and that one waiting gets its turn),
and the two violated statements of the findings. Every other property of the runs is
a theorem.

## Not modelled

- Sessions that share PIDs (a second session of a channel, a stream of two
  programs): in `Tuner` each client has its own. That a teardown takes a shared
  PID from the other session is what the code does, and nothing denies it.
- Start-up (`main.c`): a fixed sequence of calls. That the servers take requests
  before `dvb_init` is done is listed as a hazard.
- Program maps of more than 32 streams, and telnet lines longer than the buffer:
  C leaves open what happens beyond the arrays' ends.
- Parsing of sections by libdvbpsi, names of channels, durations of events, which
  are converted and not stored, `tokenize` and other work on strings, the table
  of telnet commands, filled once, the bandwidth counters, and everything printed.
- Opening of devices, sockets and files; short and failed writes of a file
  (`destination.c:291-297`), of which no property speaks; reading of the initial file;
  `configuration.c`, which reads the command line and has no state afterwards.
- Third-party code (iniparser, SQLite, libdvbpsi, libmicrohttpd, FFmpeg), which
  is nearly all of the repository's lines, and `imageConvert.c`, disabled by
  `#if 0`.
