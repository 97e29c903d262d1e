# A verification project for MyMusicPlayer

MyMusicPlayer is a copy of parts of the music player cmus: its player core
(`player.c`), its list windows and file browser (`window.c`, `browser.c`), its
curses user interface (`ui_curses.c`), the client that controls a running
player over a socket (`main.c`), a reader of APE tags (`ape.c`) and headers.
The rest of the program (plug-ins, ring buffer, playlists, server, iterators)
is not in the repository.

This directory holds TLA+ modules translated from that source, the instances
TLC checks, and proofs that TLAPS checks.

## How to run it

    tlc -config MCPlayer_safety.cfg MCPlayer.tla     # and every other run of PROJECT.json
    tlapm PlayerProofs.tla                           # and every other *Proofs.tla

| module | uses | what it is |
|---|---|---|
| `PlayerOps` | | the state the threads of `player.c` share, and one operator per static function |
| `Player` | `PlayerOps` | the three threads, their mutexes, the calls, and the properties |
| `Transport` | | what the user is promised: an abstract player that obeys one command in one step |
| `PlayerTransport` | `Player`, instance of `Transport` | the refinement mapping |
| `PlayerProofs` | `Player` | the inductive invariant of the player; its safety, references, wake-ups and the status shown |
| `TransportProofs` | `PlayerProofs`, `PlayerTransport` | `Player` implements `Transport` |
| `MainLoop` | | the select loop of the user interface among the player's threads, signals, keys and clients |
| `MainLoopProofs` | `MainLoop` | its inductive invariant |
| `WindowOps` | | one operator per function of `window.c` |
| `Window` | `WindowOps` | a window under any sequence of its functions, and the properties |
| `WindowOpsProofs` | `WindowOps` | what each function of `window.c` keeps, for every window |
| `WindowProofs` | `Window`, `WindowOpsProofs` | five theorems, all that the run checks |
| `Browser` | `WindowOps` | the file browser in its window, on a file system that changes |
| `BrowserProofs` | `Browser`, `WindowOpsProofs` | its invariants and six theorems |
| `Remote` | | the client, the socket and the server |
| `RemoteProofs` | `Remote` | its inductive invariant |
| `Format` | | `format_str`, which fits a text into columns |
| `Scale` | | `scale_samples`: which part of the buffer is scaled, and the arithmetic |
| `Ape` | | the search for an APE tag and the lengths of its items |
| `HelperProofs` | the three above | their invariants, and the arithmetic of samples |
| `MC*` | | values of the constants; `MCHelpers` composes `Format`, `Scale` and `Ape`, one of them (`helper`) in a behaviour |

## How the source is read

The repository does not compile as it stands: it has misspelt identifiers
(`onsumer_status`, `browser_win->sle`), missing arguments and stray
characters. Such a place can only be read one way, and is modelled as the
identifier it means. Where the text compiles and only means something
unexpected, it is modelled as written:

- `ms_sleep` calls itself instead of `ns_sleep` (`utils.h:168`). The constant
  `SleepOutcomes` says whether a sleep returns (`TRUE`) or never does
  (`FALSE`, what is written). `player_safety` allows both; the runs about
  progress take `{TRUE}`: with `{FALSE}` a thread that sleeps never sees that
  it should end, and TLC finds `ExitCompletes` violated.
- `player_seek` ends after its checks with both mutexes held (`player.c:1145`).
- `window_set_sel` counts in a variable it never initialised
  (`window.c:307`): the initial value is any of `StackValues`.
- the loop of `window_changed` that should fill empty lines compares the
  wrong way round and never runs (`window.c:223`).
- `window_scroll_up` is defined twice; the second definition is modelled.
- `scale_sample_int16_t` and `scale_sample_s24le` are modelled with their wrong
  branches (`player.c:140-150`), `ape_parse_one` with the step that goes by
  `key_len` (`ape.c`), and the flags, timeouts and returns of the main loop as
  they stand.

What is used but not in `src/` is modelled from its use and marked external
in PROJECT.json:

- the ring buffer (`buffer.h` declares it): a number of filled chunks, one
  chunk that is partly filled, and the file they were read from.
  `buffer_fill(0)` closes the partial chunk.
- input and output plug-ins: their states, and every answer that `player.c`
  distinguishes. `ip_read` at the end of the file returns 0 again.
- `cmus_get_next_track`: a request that the main thread answers in its select
  loop (`ui_curses.c:2034`) while the caller waits.
- the iterators of a window: cyclic through the head of the list, returning 0
  on arriving there.
- `load_dir`: directory entries in any order; each is examined with `stat`,
  so that a directory without search permission lists nothing.
- the server at the other end of the socket: one answer per complete line,
  ended by an empty line.

## Inventory

### Player core (`player.c`) — partly: all but the values of position and bitrate

*State.* `producer_status`, `consumer_status`, `producer_running`,
`consumer_running`, the plug-in `ip`, the ring buffer, the device and its
format `buffer_sf`, the current track `player_info_priv.ti`, the status shown
to the user; two mutexes, a condition variable for each thread.

*Operations.* `player_init`, `player_exit`, `player_stop`, `player_play`,
`player_pause`, `player_pause_playback`, `player_set_file`,
`player_play_file`, `player_seek`; `producer_loop`; `consumer_loop` with
`_consumer_handle_eof`, `_prebuffer`, `_change_sf`.

*Interactions.* The main thread takes both mutexes for a command. The producer
fills the buffer that the consumer empties. At the end of a file the consumer
asks the main thread for the next track, with both mutexes held.

*Hard.* Three threads; tests made without a mutex; a consumer that gives up
and retakes a mutex; devices and files that fail at any point; the end of a
file meeting a command; progress of everybody.

*Correct means.* The two halves agree on the status; the device is open, paused
and in the right format exactly when the status says so; sound of one file is
never played as another's; nothing is lost at the end of a file; no plug-in is
used before it is open or after it is closed; a wait is always ended; a paused
player keeps its place; commands return, and an exit ends both threads.

### player_info (`player.c:451-504, 1095`) — partly

*State.* the copy of file, status, position, bitrate and buffer fill that the
user interface reads under its own mutex, a flag for each that says it has
changed, and an error message. *Interactions.* Every thread of the player
publishes; the main loop takes a snapshot and clears the flags. *Hard.* A
change between the snapshot and the drawing; an error reported by one thread
with the status of another. *Correct means.* What is published is shown; the
status shown is the player's. Modelled are what is published when
(`MainLoop`) and the published status against the player's own (`Player`,
`pl.status`); not the values of position and buffer fill, nor the memory of
the tracks that both sides hold.

### Soft volume and replaygain (`player.c:60-348`) — partly

*State.* `scale_pos` against the read and write positions of the buffer, the
volumes. *Hard.* What a device did not take is offered again, and must not be
scaled again; rounding, clipping, widths. *Correct means.* Every sample is
scaled exactly once, to the nearest sample there is. Which volume a track asks
for (`update_rg_scale`) is floating-point arithmetic and left open: the volume
changes to any value at any time.

### List window (`window.c`) — modelled

*State.* `head`, `top`, `sel`, `nr_rows`, `changed`. *Operations.*
functions that move, page, scroll, select, resize, and react to rows that
vanish and lists that are replaced. *Interactions.* The owner of a list calls
them before it frees a row; the user interface draws when `changed` says so.
*Hard.* Top, selection and the last line move together and stop at different
ends. *Correct means.* No iterator points to a freed row; the selection is on
the screen; the screen shows what the window says.

### File browser (`browser.c`) — modelled

*State.* `browser_head`, `browser_dir`, `browser_win`, `show_hidden`.
*Operations.* load a directory or a playlist, change directory, go up, enter,
delete, reload, search. *Interactions.* Calls the window; is drawn by
`update_browser_window` (`ui_curses.c:1013`); other programs change the files
under it. *Hard.* A load can fail in four system calls, each after other state
has changed; directories disappear between two calls. *Correct means.* List,
window and `browser_dir` belong together; a row stands for the file it shows.

### cmus-remote client (`main.c`) — partly

*State.* the socket, the answer being read. *Operations.* `read_answer`,
`write_line`, `send_cmd`, the password, the loops of `main`. *Hard.* A stream
cut anywhere; a server that ends; two ends that wait for each other. *Correct
means.* In step with the answers, all of them shown, nothing sent after a
refusal, an end. Option parsing and connecting are not modelled: they are one
pass over the arguments with no state to get wrong.

### User interface main loop (`ui_curses.c`) — modelled

*State.* the snapshot of player_info, the current view and the windows'
`changed` flags, the last line with its message and mode, `cmus_running`,
`ctrl_c_pressed`, `needs_to_resize`, the timeout and the ready descriptors.
*Operations.* a round of `main_loop`: `update_info`, `update`, resize, `select`
with or without timeout, mixer, clients, keys, finished jobs and the consumer's
request; what a command of each kind does to this state; `yes_no_query`.
*Hard.* Signals and publications at any point of a round; a `select` without
timeout; a request that only this loop answers. *Correct means.* The screen is
up to date when the loop waits, and everything that asks for its attention gets
it.

### Key decoding (`ui_curses.c:1829-1933`) — partly

What a key does in each mode is in `MainLoop`. The bytes of a character are
not modelled, see *Not modelled*.

### Views, formatting and colours (`ui_curses.c`) — partly

*State.* none between calls. `format_str` has a loop whose position, remaining
width and ellipsis must agree (`Format`). The redraw of the browser is in
`Browser`, which view is drawn when in `MainLoop`; titles, colours and terminal
set-up are layout.

### APE tags (`ape.c`) — partly

*State.* the file position, which is given back; the part of the preamble seen
so far. *Operations.* the search at the end and through the file
(`find_ape_tag`), `ape_parse_one`. *Hard.* Reads cut anywhere; lengths that
come from the file. *Correct means.* What is found is a preamble; nothing is
read behind the tag. The text of keys and values is left out.

### Helpers (`utils.h` and other headers) — partly

`ms_sleep` is in `Player`, `min_i` in `WindowOps`. The rest converts numbers,
allocates memory or wraps a system call.

PROJECT.json lists the components again, with every hazard found at its line.

## The models

### PlayerOps and Player

`PlayerOps` has the record `pl` of everything the threads share and an operator
for every static function of `player.c` that changes it. An operator whose
outcome depends on a plug-in (opening can fail, reading gives data, an end or
an error) returns the set of possible results. `Player` has where each thread
is, who holds which mutex, and one action per step.

A step is what a thread does between two points where another can act on what
it sees: taking a mutex, sleeping, waiting, one read, one write, and the places
where `player.c` looks at shared state without its mutex (`player_pause` and
`player_pause_playback`, `consumer_loop` between `op_write` and
`buffer_consume`, `_consumer_play` after a lost device). What runs under both
mutexes and calls nobody is one step: no other thread reads that state then,
except for the status published by `player_error`, and the steps are cut where
that matters (the place `"reopen"`).

| in the model | in the code |
|---|---|
| `cmutex`, `pmutex` | `consumer_mutex`, `producer_mutex` |
| `pl.waiting` | threads inside `pthread_cond_wait`; a broadcast empties it |
| `main = "lock_c"`, `"lock_p"` | `player_lock` before its first, its second mutex |
| `main = "checked"` | `player_pause` after its unlocked test (`player.c:1008`) |
| `cons = "starved"` | the consumer found no data and takes `producer_mutex` (`player.c:808`) |
| `cons = "request"`, `"reply"` | inside `cmus_get_next_track`, before and after the answer |
| `prod = "first"`, `"second"` | the two rounds of `producer_loop` |

Left out: rounds in which a plug-in answers EAGAIN (they change nothing; the
model assumes it does not do so for ever), spurious wake-ups (they only let a
thread look once more at a condition that is still false), the sound's
position, and device write sizes: `op_write` writes at least one unit of the
`space` it was offered.

### Transport

Three values of a status, a track, whether it was played to its end, and one
pending request. A step begins a request, obeys it, ends a track that was
played as far as it could be read, or loses the device. `PlayerTransport` maps
the player to it:

| of `Transport` | in `Player` |
|---|---|
| `status` | `consumer_status`; *playing* while the consumer reopens a lost device, which is stopped only for the time of one step of its own |
| `track` | the loaded file; none when the producer is unloaded |
| `played` | end of file reached and the buffer empty |
| `request` | the call, from its beginning until it has both mutexes |
| `over` | `player_exit` is joining the threads |

So each `player_*` function takes effect in one step, the one in which it has
both mutexes, on the state that it finds then. For `player_pause` the
unlocked test is not that state; an abstract pause of a stopped transport
therefore starts it, as the code does.

### MainLoop

`main` is where the main thread is, from `top` of a round to `select` and the
handling of each ready descriptor. `player` and `request` are the player's
threads as the loop sees them: they publish, and ask for the next track.

| in the model | in the code |
|---|---|
| `player = "reopening"` | between `_consumer_status_update(CS_STOPPED)` and the end of `_consumer_play` in `consumer_loop` (`player.c:791-793`, `839-841`) |
| `player = "reading"` | `op_open` has failed there: `CS_STOPPED`, and a producer that goes on |
| `Status` | `consumer_status`, which `player_error` copies (`player.c:403`): *stopped* for both of these |
| `request` | where `_consumer_handle_eof` is (`player.c:741-766`): `OpenTrack`, `NoTrack`, `ChangeFormat`, `Prebuffer`, `NextTrackShown`, each with what it publishes, errors included |
| `priv.player`, `info.player` | history: what the player was doing when the status was published. The loop reads no more of it than `Status` |

A player command is one step of the main thread and publishes all that the
function may publish on its way: a status, the new file, comments read while
prebuffering, an error. It has to wait while the consumer reopens its device,
whose mutex the consumer holds.

Lines and windows are abstracted to what is old in them: `old` has, for each
line, the fields in which it differs from what is published, `oldWin` the
windows that the screen does not show as they are. `behind` (the fields
published since the last snapshot) and `term.lost` (a SIGWINCH came between
the `ioctl` and the reset of the flag) are history variables.

What the user, the terminal and the player do at once is more than one run can
hold, and mostly independent. `env` picks one of four environments at the
start: the player's threads with keys, the commands that reach them and
queries; the player's threads with clients, resizes and a polled mixer; the screen with
its resizes, views, windows, clients and jobs; the last line with its modes,
messages, queries, Ctrl-C, resizes and mixers. The theorems hold for any set of
environments.

### WindowOps and Window

A list is its number of rows, an iterator the number of its row, 0 for the
head. `Window` lets any function be called in any state, with any argument up to
`MaxStep`, and has the history variable `screen`, what was drawn last. A second
one, `doubt`, records that a function was called that does not keep what the
others do, in the state in which it does not:

- `LosesSelection`: `window_set_sel` (a search, a load), which counts in its
  uninitialised variable; `window_page_bottom` and `window_page_middle` when the
  line they go to is below the end of the list. The selection is in doubt
  until the list is replaced.
- `MovesRowsOnly`: `window_goto_bottom` when the last row is selected already.
  The rows drawn are in doubt until the next redraw.

### Browser

Paths are sequences of names, the file system a set of paths. A load is a
step for each system call of `do_browser_load`, so that other programs can
act between them when `Interference` is `TRUE`:

| in the model | in the code |
|---|---|
| `Stat` | `stat`, and what kind of file it is |
| `MapPlaylist` | `mmap_file` and the loop over its lines |
| `OpenDir` | `dir_open` and `free_browser_list` |
| `ReadEntry` | one `dir_read`, its filter and the insertion |
| `ChangeDir` | the end of the directory, `chdir`, `window_set_contents` |
| `LoadFails`, `LoadSucceeds` | what each caller does with the result |

`unread` is what `dir_read` has still to give, in any order; an entry that is
gone when its turn comes is skipped, one that has come after `dir_open` is not
given. The first load is that of `browser_init`, with any working directory. An
entry remembers the path it was made for (`from`), which is what the
properties compare with. `stale` says that the window holds iterators to freed
entries; the program's behaviour is undefined from then on, so handlers that
would use them are not modelled further, and `WindowOnList` forbids it.

### Remote

A byte is text or a newline. Each `read` returns any number of bytes that have
arrived, up to its buffer. The server reads a byte at a time, answers on each
newline, and may end at any moment, or the connection to it break. A read then
finds the end of the stream, or fails, and what was on the way is lost
(`ReadFails`): before the answer or behind any part of it. The client goes on
as if the answer had ended there, with the number of bytes it has as its
length (`main.c:34-36, 54`); `failed` remembers it. A write to a connection
that is gone fails, or succeeds once more. A read that fails while the
connection lives is not modelled: no signal of the client is caught, and what
else `read` returns on a blocking socket ends the connection. `WriteLine` sends a
line in the pieces that `fgets` or `snprintf` make of it for a buffer of
`LineSize` (`Piece`, `Remainder`).

### Format, Scale, Ape

`Format` has the loop of `format_str`: a character is its width (0 to 2), a
position in the output the number of columns in front of it.

`Scale` counts positions in frames of two channels. `times` and `asked`
are history: how often each sample was scaled, and which channels should have
been. `scaling` is the condition of `player.c:834`, `soft_vol || replaygain`:
without it the device's position goes on and `scale_pos` stays behind, which
`BUG_ON(scale_pos < consumer_pos)` (`player.c:253`) does not allow later. The
functions that turn the two on, `player_set_soft_vol` and `player_set_rg`, are
declared (`player.h:78-79`) and not in `src/`. `SetScaling` does what that
assertion expects of them: it brings `scale_pos` up to the device if it is
behind. This is an assumption and no finding: with a setter that left
`scale_pos` alone the assertion would fail, and with one that always set it to
`consumer_pos` what the device has not taken yet would be scaled twice. The arithmetic is that of the C code on words of `NrSamples` values, with
its conversions (`Signed`), its truncating division (`Quotient`) and its
wrong branches.

`Ape` has the file as a sequence of symbols, among them those of the preamble,
a read that returns some, the end or an error, and for the items only their
lengths, which are any of `Word` values. `last` is the end of what
`ape_parse_one` has looked at.

A definition under the comment *Fault* in any module is no part of the model:
it is the one after it with a plausible bug, used to see that the properties
notice (PROJECT.json, `mutants`).

## The runs

### Player

`player_safety` has every function, every plug-in failure, sleeps that return
and sleeps that do not, and all safety properties at once. Two files of
different formats and a stream that shares the format of one reach every
branch of a change of file: same format, other format, no file. Two chunks let
the buffer be empty, part full and full; one chunk of prebuffering makes its
limit reachable before and at a full buffer. Two writes of device space
let `consumer_loop` go round more than once.

| property | what it says |
|---|---|
| `TypeOK` | the types; the ring buffer never holds more than its chunks |
| `StatusesAgree` | the device plays only what the producer reads; one is paused exactly when the other is |
| `DeviceMatches` | open, paused and format of the device follow from the status and the file |
| `BufferBelongs` | buffered sound is that of the loaded file |
| `TailPlayed` | the next track is asked for only when the last byte was played |
| `UsedPluginOpen` | whoever reads a plug-in finds it open |
| `NoBugOn` | the assertion of `_prebuffer`, and a consumed chunk is still there |
| `TiMatches` | the track shown is the track loaded; references are neither lost nor leaked |
| `NoLostWakeup` | no thread sleeps on a condition that is true |
| `StatusNeverOverstated` | the one wrong status is *stopped* for a player that plays |
| `PausedKeepsPlace` | only a function call moves a paused player |
| `IsTransport` | every behaviour is one of `Transport` |

`player_liveness` (without `player_seek`): every call returns unless it meets
the circular wait (`CallReturns`), and for that it has to get mutexes that
every earlier one gave back; `player_exit` joins both threads
(`ExitCompletes`).

Deadlock is not checked in the player runs, because the program ends and
because the code does have a deadlock: it is what `player_circular` shows.

### Window

`window_all` has every function and any value of the uninitialised variable.
Iterators stay in the list (`TypeOK`). As long as nothing is in doubt, the
selection is on the screen (`SelVisible`), what has moved is drawn or will be
(`ScreenCurrent`), no movement scrolls past the end of the list
(`NoNewEmptyLines`) and `scroll_offset` rows stay around the selection
(`OffsetKept`). Lists of 0 to 5 rows in windows of 0, 1, 3 and 4 lines cover
lists that are shorter than the window, as long and longer, with a
`scroll_offset` of 1 that half a window exceeds or not; stack values of -2, 0
and 3 make `window_set_sel` count too little, rightly and too much.

### Browser

`browser_nominal`: every directory can be read and entered, and files change
between commands only; list, window and `browser_dir` belong together
(`WindowOnList`, `RowsOfDir`), what is played or deleted is what the row
stands for (`ActsOnSelected`), and directories come before files, each in the
order of their names and none twice (`Sorted`, at every step of a load). The tree
has a file and a directory, a playlist, a hidden file, and the same name in two
directories, without which a row could not stand for the wrong file.
`browser_races`: files come and go in the middle of a load; loads end, and the
selection is kept. Three levels of directories let `browser_up` fail and try
again before it arrives at a list in which the row to select is not the first.
There are no other files since the interference multiplies the states.

### Remote

`remote_ok`: two series of commands and one of stdin lines, with and
without a password; answers of no line, one and two lines; pieces of 1 to 3
bytes, so that the two newlines that end an answer arrive together or apart,
after text or alone; a server that ends, and reads that fail, at any point.
As long as no read fails the client stays in step with the answers (`InStep`)
and shows all of them (`ShowsAnswers`); it never shows anything else; and it
ends (`Finishes`). Nothing is sent after a refusal (`NoCommandRefused`), which
is taken as accepted only in the one case the code leaves open: the read
fails behind its first byte, and `read_answer` returns 1.

### Main loop

`main_loop` has two views (one of two windows, one of one), a mixer with
descriptors and one that is polled, and the four environments: 414 180 states,
three minutes. Every descriptor, command, signal and thread is in
one of them; the player's threads are with player commands in two, with
queries in one and with resizes and clients in the other, and not with Ctrl-C,
which ends in the same two steps wherever it is handled.

| property | what it says |
|---|---|
| `ShownBeforeWaiting` | when the loop goes to wait, lines, windows and last line are as in the snapshot |
| `ResizePending` | windows of a size that is not the terminal's are asked to be resized |
| `ChangesPickedUp` | what the player publishes is copied, unless the loop is `Unaware` |
| `ErrorShown` | an error of the player, also one on the way to the next track, reaches the last line, with the same exception |
| `RequestAnswered` | the consumer gets its next track |
| `QuitSeen` | a signal to end is noticed, unless nothing wakes `select` |

The exceptions are in the properties (`Stuck`: the loop waits for the user in
a query, or for the player's mutexes in the circular wait of
`player_circular`; `Idle`: it waits without a timeout; `Unaware`: it does so
on a status that was published while the player was without its device).
`Unaware` is not a corner that the model leaves out but the consequence of
what `player_status` finds: `player_error` publishes *stopped* for a player
that is reopening its device (`player.c:403, 791-793`), nothing publishes that
it plays again, and the loop, which sets its timeout by that status
(`ui_curses.c:1958`), waits beside a player that plays. Positions, titles and
the next error are then not seen until a key, a client or the end of the
file. That no other state of the player has this effect is what the two
properties show.

### Helpers

`helpers` has fields of 0 to 8 columns, so that the ellipsis fits not at all,
exactly, and with room around it, and texts of characters of every width;
buffers of four frames with writes that are cut anywhere; samples of three bits
with volumes of none, less, one and more; files with a preamble at the
beginning, in the middle, behind a part of itself, cut off and at the end, read in
pieces of up to 3 symbols, which is less than the preamble; tags of up to 24
bytes with lengths of three bits, that is, up to the size and beyond.

| property | what it says |
|---|---|
| `FieldFilled` | a field is filled exactly, and only a text that does not fit is cut |
| `ScaledOnce` | every sample that was due was scaled once for each channel that asks for it, also when scaling is turned off and on; the `BUG_ON` holds where samples are scaled |
| `NearestSample` | what scaling makes of a sample is the nearest there is, where the code is not wrong |
| `SearchExact` | what the search stops at is a preamble; it passes one over only if that begins right behind a part of another |
| `ItemsInBounds` | nothing is read behind the tag |

### What the code does not keep (runs that expect a violation)

| run | what TLC shows |
|---|---|
| `player_status` | a read error reported while the consumer reopens a lost device publishes *stopped*; the device then plays and nothing corrects it, and the main loop waits without a timeout |
| `player_circular` | the consumer asks for the next track with both mutexes held while the main thread, which would answer, waits for them in `player_stop` |
| `window_select` | `window_set_sel` moves the top of the window past the last row |
| `browser_delete` | after a failed `browser_up` the old rows are shown under another directory, and a deletion removes the file of that name there |

Found while modelling, with no sentence in the repository that they contradict,
or shown by changing one constant of a run above:

- A directory that can be read but not entered (`NoSearch = {/a/b}` in
  `browser_nominal`): `do_browser_load` frees the list, reads the new one, and
  fails in `chdir`; the window keeps pointing to the freed entries
  (`browser.c:184`).
- `entry_cmp` (`browser.c:54-58`) says that the parent comes before every
  directory, and that every directory comes before the parent. It is no order,
  and whether `../` is shown first depends on the order `readdir` gives the
  entries in. The others are sorted all the same.
- A command longer than 511 bytes (`Arguments` in `remote_ok`) is sent without
  its newline, and client and server wait for each other (`main.c:71`). So is
  a last line of stdin without a newline (`main.c:387`). An argument that holds
  a newline would be two commands for the server and one for the client;
  `RemoteAssumption` excludes it.
- `player_seek` returns with both mutexes held (`player.c:1145`): with `"seek"` in
  `Calls` of `player_liveness`, `CallReturns` is violated by the next call.
- `window_goto_bottom` may leave the old rows on the screen (`window.c:408`);
  `window_page_bottom` and `window_page_middle` put the selection on the head of
  a list that ends above their line (`window.c:552`); the last lines stay empty
  when a window grows at the end of a list (`window.c:223`).
- `ms_sleep` never returns (`utils.h:168`).
- 16-bit samples that are not negative are not scaled, and a result that is too
  low becomes the highest sample (`player.c:140-150`). The loop of
  `scale_samples_s24le` for the right channel alone does not go on to the
  next sample.
- `ape_parse_one` never returns an item, and behind a value goes on by the
  length of the key instead of the value's. The slow search passes over a
  preamble that follows a part of itself.
- `format_str` writes its ellipsis of three columns into narrower fields, too.
- The main loop does not notice a SIGWINCH between `ioctl` and the reset of
  `needs_to_resize`, nor a signal to end between the test of `cmus_running`
  and `select` (until something else wakes it).
- A player that lost its device and could not reopen it still reads its file. It is
  *stopped* for the main loop, which therefore waits without a timeout, and
  shows what the producer publishes (an error, for one) only after the next
  key. After the wrong status of `player_status` the same is true of one that
  has reopened it and plays on.
- A read that fails in the middle of an answer ends the answer for the client
  (`main.c:34-37`): the text shown is cut, and if it was the last answer the
  exit status is 0. A refused password of whose refusal one byte was read is
  taken as accepted; the next write or read then fails.
- `buffer_fill_changed` is read by nobody: the buffer fill on the screen is the
  one of the last other change.
- `u_getch` ends each of its loops with `bit = 0` and takes every byte for the
  first of a long character (`ui_curses.c:1912`).

## Fairness

- *Player.* Strong fairness for each thread's steps. Weak fairness would let a
  mutex be taken by the same thread for ever; in the code the holder sleeps at
  least 10 ms or waits on a condition variable before it asks again, so a
  waiting thread gets it. Nothing makes the user call a function: the steps
  that begin a call are not under fairness. The main thread answers a request
  for a track only when it is in its select loop.
- *Browser.* Weak fairness of the steps of a load: the main thread does not
  stop in the middle of a function. None for other programs.
- *MainLoop.* Weak fairness of the loop's own steps and of a `select` whose
  timeout is over. Strong fairness of `select` returning while the consumer
  asks for a track: the byte in the pipe makes it return, however often
  signals interrupt it. Weak fairness of `op_open` in `Reopen`, which returns,
  and of a consumer that has its answer and goes from one place of
  `_consumer_handle_eof` to the next. None for
  keys, clients, signals, for a player that plays on, nor for `ioctl`, which may fail
  for ever.
- *Remote.* Weak fairness of the client and of the server's reading. None for
  the server's end.

## What is proved

For every set of tracks and formats, every buffer size, every subset of calls
and options (`ChunksAssumption`, `FormatAssumption`, `CallsAssumption`,
`OptionsAssumption`, `BoundsAssumption` and the other assumptions of
`PlayerOps` and `Player`):

- `TypeCorrect`, `StatusesAlwaysAgree`, `DeviceAlwaysMatches`,
  `BufferAlwaysBelongs`, `TailAlwaysPlayed`, `PluginAlwaysOpen`,
  `AssertionsHold`: seven of the invariants of `player_safety`.

None of them is inductive. `DeviceMatches`, for one, does not say that the
mutexes keep the producer from changing the file while the consumer opens the
device. The inductive invariant is

- `ProducerInv`: which plug-in state goes with which `producer_status`; sound
  in the buffer implies an active producer and the same file; a partial chunk
  implies room for it and no end of file;
- `DeviceInv`, `FormatInv`: device and format against `consumer_status`;
- `LockInv`: which mutexes a thread holds at each of its places;
- `PlaceInv`: what a thread relies on between two of its steps, for example
  that the chunk it is about to consume is still there.

Each operator of `PlayerOps` has a lemma that says which part it keeps and
which it leaves alone (`SameDevice`, `SameProducer`); each action of `Player`
is one step of the proof that cites those lemmas.

For what threads tell each other, `PlayerProofs` adds `TellInv` on top of that
invariant: a thread that
sleeps on its condition has nothing to do (`Wakes`); each track has one
reference if it is shown and one more while a function has it in its hands
(`Owes`); the track shown is the one loaded (`Shown`); the status shown is the
player's own, or *stopped* for one that plays (`Honest`). Most operators are
`Quiet`: they make nobody wait and leave the track alone. From `TellInv` follow
`TiAlwaysMatches`, `NoWakeupLost` and `StatusNeverTooHigh`.

`NoOtherCircle` is about the mutexes and joins: with the circular wait of
`CircularWait` excluded, no thread waits for itself and no two or three threads
wait for each other (`WaitsFor`, `NoCircle`). It rests on `LockInv` and on what
the main thread holds (`MainHolds`), and is stated for players whose `Calls` do
not contain `seek`: `player_seek` can return with both mutexes held, see the
violations above. It is the safety half of `CallReturns`; without its two hypotheses TLC
finds circles.

`TransportProofs!PlayerIsTransport` is the refinement: the initial states map to
initial states, and under the player's invariant each action of `Player` maps to one
step of `Transport` or to none. `PausedAlwaysKeepsPlace` is the action property.

For every list length, window height, `scroll_offset` and step, with every
function of `window.c` and whatever is on the stack:

- `WindowProofs!TypeCorrect`: no iterator ever points to a row that is not in
  the list;
- `SelectionVisible`: until the selection is in doubt, it is between the top and
  the last line;
- `ScreenIsCurrent`: until anything is in doubt, what is drawn is the window or a
  redraw has been asked for;
- `NoNewEmptyLinesCorrect`, `OffsetKeptCorrect`: as long as the selection is not
  in doubt, no movement scrolls past the end of the list, and a step that
  moves the selection keeps `scroll_offset` rows before the edge.

The lemmas are in `WindowOpsProofs`, one or two for each function of `window.c`,
about any window: it keeps the iterators in the list and the selection on the
screen, and if it does not set `changed`, it left rows and selection as they
were (`Keeps`, of which `Quiet` is a part); it does not go down past the end
(`NoEmptier`); `window_up` and `window_down` keep the offset (`OffsetAbove`,
`OffsetBelow`). `SelVisible` is needed for all of these: a function that finds
the selection off the screen would move the window without noticing. With
that, each theorem is one case per action. The browser uses the same lemmas.

For every tree of files, every name, filter, order of `readdir`, window height and
stack value, `BrowserProofs` proves

- `BrowserTypeCorrect`: every variable keeps its type; top and sel are rows of
  the list that the window was given last, or its head;
- `SortedCorrect`: the list is ordered at every step of a load, although
  `entry_cmp` is no order;
- `SelectionKeptCorrect`: `browser_up` selects the entry the user came through
  and `browser_reload` the one that was selected;

these three also when files change in the middle of a load and directories
cannot be read or entered. Where files change between commands only and
every directory can be entered (`~Interference`, `NoSearch = {}`),
`WindowOnListCorrect`; where moreover every directory can be read
(`NoRead = {}`), `RowsOfDirCorrect` and `ActsOnSelectedCorrect`. The hypotheses
are those of `browser_nominal`, and none can be left out: without each TLC
finds a behaviour in which `chdir` fails on a list that has been replaced, or
`browser_up` stops half way, see the violations above.

`BrowserInv` is inductive in every case: what a load is about (`LoadInv`: going
up means going to the parent of `browser_dir`), and that a window with rows is on
the list unless it is stale (`WindowInv`). `Sorted` needs that the entries
still to come have other names than the ones in the list (`UnreadInv`), and a
lemma that the order goes through every entry but the parent. `SelectionKept`
needs that the wanted row is selected until the list is freed (`ReloadInv`).
`OnListInv` says that a load that has begun to free the list will succeed,
`RowsInv` that the list on the way is already that of the directory to come.

For every set of views, mixers and environments, `MainLoopProofs` proves the inductive
`LoopInv`: what was published since the snapshot is flagged for the next one, and
what else a line shows that is old is about to be drawn (`LinesInv`); a window
of the view that is old has its flag set (`WindowsInv`); the last line shows the
mode and message (`BottomInv`); a size that was read is applied, or asked for
again (`SizeInv`). It implies
`ShownBeforeWaiting` and `ResizePending`.

For every buffer size, every set of commands, input lines and answers,
`RemoteProofs` proves `RemoteInv`: in an answer, what was read is shown, the
rest is in the socket, and `got_nl` and `len` say where it was cut
(`Answering`); between commands nothing is left (`Waiting`), unless a read has
failed. It implies `InStep`,
`ShowsAnswers` and `NoCommandRefused`.

Of `HelperProofs`, `FieldAlwaysFilled` holds for every width and text,
`AlwaysScaledOnce` for every number of frames and every order of reads, writes,
volumes and scaling turned off and on (by setters as `SetScaling` assumes them),
`ItemsStayInBounds` for every size and width of the lengths, and
`SearchAlwaysExact` for every preamble and every file: the search stops behind
a whole preamble, and passes over only such as begin right behind a part of
another. `NearestSampleCorrect`
holds for every width of samples and every volume: half a unit added away from
zero and a division towards zero leave a multiple at most half a unit from the
exact product (`QuotientRounds`), which is the nearest (`NearestMultiple`),
also after clipping (`ClippedNearest`). For 16 bits the product has to fit
32, which is why `ScaleAssumption` has `SOFT_VOL_SCALE` no larger than the
number of samples: both are 65536 there.

Only model-checked is liveness under fairness, which the prover does not reach:
`CallReturns`, `ExitCompletes`, `Finishes`, `LoadEnds` and the four of
`MainLoop`. What the runs that expect a violation check is false.

The theorems of `HelperProofs` are about the specification of each helper alone;
the run `helpers` has the three in one module, one of them in a behaviour.

## Not modelled

- The values of position, bitrate and buffer fill: arithmetic on counters that no
  decision of the code reads; when they are published is in `MainLoop`.
- The memory of tracks and of their comments, which both the player and the
  user interface reach (`metadata_changed`, `player.c:392`; `player_file_changed`,
  `player.c:1097`): listed as a hazard. References are counted in `Player`.
- The choice of a gain (`update_rg_scale`): floating point.
- The bytes of a key in `u_getch`: as written, no two bytes make it do anything
  different that a property could tell apart.
- Option parsing and connecting of the client, which is one pass over arguments;
  the text of commands, keys, comments, titles; colours, terminal set-up and
  character sets.
- Plug-ins, ring buffer, playlists, commands and server beyond what the source
  here shows of their use.

## Plan

Done, in this order: player core; window; browser; client; the transport that the
player implements; the main loop with the publication of player_info; format,
volume and APE tags; and the proofs of every safety property that a run checks.
What would add most next:

1. Player and main loop as one module: the consumer's request and the two
   mutexes are in both, and `player_circular` is their meeting.
2. The browser's window is one of `Window`: a refinement of `Browser` to
   `Window`, step by step, of which the lemmas of `WindowOpsProofs` are the half.
