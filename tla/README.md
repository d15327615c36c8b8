# A verification project for LedX

LedX drives strips of addressable LEDs from a web page. An ESP32 (`src/Arduino/LedX3/LedX3.ino`)
opens a WiFi access point, serves the page from flash, and listens on a WebSocket. The page draws a
scene on a canvas, picks the pixels of the canvas that correspond to each strip, and sends them 20
times a second. The page exists twice: as the firmware serves it (`src/Arduino/LedX3/*_js.h`,
`ledx3_html.h`) and, newer, in `src/Web/AudioContext`. What the two share is mapped to the copy that is
served; the local videos exist in `src/Web` only. Lines named as `connection.js`, `global.js` and
`canvas.js` are those of `src/Web`. Everything under `src/Arduino/libraries` is third-party; of the
WebSockets library the path of the server is modelled too, because `webSocketEvent` runs inside it
and what it does to a slot decides what the pages see.

This directory holds TLA+ models of the parts where something can go wrong that a test would hardly
reach, TLC configurations that check them on small instances, and TLAPS proofs of what holds for all
instances.

## 1. Inventory

| Component | State | Operations | Talks to |
|---|---|---|---|
| `WsConnection` (connection.js 1-138) | `deviceInfo.status`, `this.ws`, `this.nodes`, retry timers, the `retries` each handler captured | `init`, `wsConnect`, `onopen`, `onmessage`, `onerror`, `onclose`, `sendWsMsg` | sockets and timers of the browser; `paint` reads status and nodes; `connectDriver` |
| Frame codec (canvas.js 1133-1234, LedX3.ino 103-125) | byte array and cursors, `leds[][]` | `pixelsToMsg`, `setMatrixColor`, `WStype_BIN`, `FastLED.show` | template of a driver in, LEDs out |
| Modules (connection.js 300-347, canvas.js 888-1009, 1152-1192) | rectangle and direction of a module, loop counters | walk of a module, picture of the walk | feeds the codec |
| Template storage (connection.js 141-298, LedX3.ino 71-102, 183-222) | `masterTemplate`, `localStorage`, EEPROM | edit, Guardar, store, greet | the connection, in both directions |
| Playlist (global.js 281-424, 702-795) | `loadedVideos`, the `<li>` items, `currentDrag`, flags `playing`, the `<video>` element | add, up, down, drag, remove, click, NEXT, PREVIOUS, PLAY, STOP, `ended`, promise callbacks | the `<video>` element that the background painter copies |
| Stream sources (global.js 426-471, 796-949; canvas.js 84-308) | `srcObject`, `audioStream`, toggle radios, `BkgPainter.type` and its states | start and stop of camera, screen, audio, microphone | the same `<video>` element |
| Driver panels (global.js 951-1168) | HTML of a driver, `globalMIdx`, module arrays with holes | add, remove, update module, select order and template | the template of a `Driver` |
| Frame pacing (canvas.js 1010-1129, global.js 626-670, timeout-worker.js) | `lastTick`, statistics | `paint`, `FPS.tick`, worker interval | calls codec, connection, `uiNotification` |
| Server (LedX3.ino 56-133, 224-279; WebSocketsServer_Generic-Impl.h, WebSockets_Generic-Impl.h) | five client slots with handshake flags and `cWsRXsize`, `leds[][]`, `newWsData` | `handleNewClients`, `handleClientData`, `handleHeader`, `handleWebsocketCb`, `readCb`, `clientDisconnect`, `webSocketEvent`, `show`, `setup` | TCP connections of the pages; EEPROM; the strip; all pages share `leds[][]` |
| EEPROM format (LedX3.ino 183-222) | 3072 bytes | `saveTemplate`, `hasTemplate`, `readTemplate` | called by the server's events |

What is hard in it:

* **Concurrency.** Everything runs in one thread on each side, but the page interleaves socket
  events, timers, promise callbacks, a worker's messages and the user; several sockets may be alive
  at once and all write the same status; the element's callbacks settle after newer clicks.
* **One thread for all pages.** The device blocks up to five seconds in the middle of a message, tears a
  connection down while it handles an event of it, and uses a slot again for the next page.
* **Failure.** Connections end at any point; the page is reloaded; the device restarts with its EEPROM;
  a template may be lost on the way or arrive on a connection the page has already given up.
* **Duplication of state.** A template exists in the page, in every browser's localStorage and in the
  EEPROM; a playlist exists as an array and as page elements; the order of LEDs exists as a walk
  and as a picture.
* **Boundaries.** Headers of two bytes in base 20, arrays of a fixed size, loops that count down,
  modules over the edge of the canvas.

What makes each component correct is stated in section 3, next to the run that checks it. The
hazards are listed, each at its line, in `PROJECT.json`.

## 2. Modules

| Module | Models | Abstracts |
|---|---|---|
| `Link` | what the connection promises the rest of the page: one link, idle, dialled or up, and a set of live drivers | everything else |
| `WsConnection` | the class of that name with the browser's sockets and timers, the device's greeting, the user and the repaint of the status | message bodies other than the id; counters |
| `FrameCodec` | one frame from `pixelsToMsg` to `leds[][]`, channel by channel, on both sides | colours are pixels of a small byte; a channel's pixels are an input |
| `ModuleScan` | the walk over one module, cell by cell, and the picture of it | colours |
| `TemplateStore` | where a driver's template lives and travels | a template is a value, its JSON round trip is `Compact` (holes of removed modules disappear) |
| `WsServer` | the device as a server: connections, slots, handshake, the blocking reader, events, LEDs and restarts | bytes are the parts the reader waits for; a handshake is three lines; sending always succeeds |
| `EepromFormat` | the bytes of a stored template | nothing but the size of the EEPROM and of a byte |
| `Session` | what the server promises its pages: greeted once, messages applied in order and at most once, lost with their connection | slots, bytes, thread |
| `Playlist` | array, page items, flags and video element | file names, progress bar |
| `StreamSources` | the four live sources: toggles, requests, streams and their events, the `<video>` element, type and states of `BkgPainter` | which camera, which audio effect, what is drawn; the microphone's stream, to which nothing in the page refers |
| `DriverPanels` | the panels of the drivers: templates, their elements, inputs and attributes, the counter of module indexes | which channel is in view; a module is a function from fields to numbers |
| `MC...` | constants and symmetry for TLC | |
| `..._proofs` | theorems and proofs | |

Correspondence of names: an action has the name of the handler it models (`onopen`, `onerror`,
`saveDriver`, `receive` for `WStype_TEXT`, `then` for the callback of `playVideo`), a variable that
of the field. `PROJECT.json` gives the lines of each definition. Definitions whose name ends in
`_something` (`onclose_keepsStatus`, ...) are deliberately wrong versions, used to see that a
property notices the mistake; no specification refers to them.

Some choices a reader should know:

* *End of a socket.* A browser delivers it as one task: `readyState` is already CLOSED, then
  `error` if the connection failed, then `close`; nothing runs between the two. So `SocketEnds` is
  one action which applies `onerror` and then `onclose`, or `onclose` alone. This is why the CONNECTING
  that `onerror` sets for a retry is never seen.
* *Socket names.* A socket that has ended is forgotten and its name reused, so the state is finite.
  `SocketToSpare` is a bound: the user clicks Reconectar only while two names are free, one of
  which is left to a timer that is due.
* *Positions* in `Playlist` count from 1, those of the code from 0; an item that is nowhere on the
  page counts as the first, as the code's loop has it.
* *Reading past the payload.* The decoder may read one byte behind it; the server library ends every
  payload with a zero byte, which `payload` returns.
* *Templates have as many channels as the metadata.* The constructor of `Driver` falls back to the
  code's template otherwise (connection.js:152), so the `continue` of canvas.js:1144 is not reached.
* *The `<video>` element.* Assigning `src` or `srcObject` starts its load algorithm, which discards
  the events and rejects the `play()` promises of what was loaded before; `srcObject` has precedence.
  So no `loadedmetadata` of a stopped camera is ever late, but the handler stays and runs for the next
  thing that is loaded. `StreamSources` has this in `Load` and `loadedmetadata`.
* *The event `inactive`* of a stream comes some time after its last track has ended, by
  `track.stop()` too, as Chrome has it; a browser without it is one where `ending` is never emptied.
* *Refusals* are one action: the user's no, a missing device, and the exception of a page without
  `navigator.mediaDevices`, which is the page the device serves over http.
* *Plain use.* `plain` of `StreamSources` is history: it becomes false when the user acts while
  something is under way, chooses a camera while another stream is attached or while the camera's toggle
  is shown off, chooses an effect while no sound is drawn, or starts a video while a stream is attached.
* *Restored items.* `restored` of `Playlist` is history too: a drop of a text or a file after the item
  dragged last was removed puts that item back on the page and disorders the array (global.js:416). The
  model follows the page up to there.
* *Templates in `TemplateStore`* are values and storing one is atomic: `EEPROM.write` changes a buffer and one
  `commit` writes it. `EepromFormat` has the bytes. Texts fit (BOUND `Fits`): a longer one overruns
  `buffer` in `webSocketEvent`, which is undefined behaviour, before it overruns the EEPROM.
* *The thread of `WsServer`.* `pc` and `at` say where `loop()` is. One action reads one part (head, extended
  length, mask, payload) in `handleWebsocketCb`, so other connections, losses and restarts interleave with the
  parts of a message, and nothing else of the device does. `newClient` includes the check of
  `clientIsConnected` that frees the slot; `messageReceived` includes what the library does after the
  event. `remoteIP`, the first call of `webSocketEvent`, may tear the connection down; the event goes on.
* *Lost connections.* A page that leaves is noticed by `connected()`; one that falls silent is not, and
  its slot stays. What the page sent and the device did not read is dropped when the connection is lost.
  A connection that both sides have ended is forgotten and its name used again.
* *Browsers* send a handshake in one segment, neither ping nor fragment, answer the ping of the handshake,
  and send nothing after a close frame. BOUND: a page sends a message when its last one has been
  delivered, and has at most `MaxPending` that are not applied; the device sees the same arrivals.
* *A restart* is a power cycle or the watchdog after a panic. `leds[][]` starts dark; the strip keeps its
  light unless it lost its power.
* *Panels.* `shown` is what the inputs of a panel show, `written` what its HTML says: `innerHTML +=` for a new
  driver writes all panels anew, so classes survive (`open`, `offered`) and what the user typed, checked or
  selected does not (`stale` is history: the panel was written over other inputs). Two drivers in one page
  are what happens when the page stays open while the computer joins the access point of another device.
* *FakeNode.* `init` of `src/Web` registers a fake node and dials nothing, that of the served page dials.
  The runs have the served page; see section 3 for what the other does.

## 3. Runs

| Run | Instance | What it shows |
|---|---|---|
| `embedded` | 3 sockets, 2 devices, 2 retries, any user | `ConnectingIsTrying`, `ConnectedHasDevice`, `SingleRetryChain`; `AttemptsEnd`, `DriversComeBack` under fairness |
| `patient` | the same, the user clicks only on an up-to-date page | `StatusIsExact`; the component implements `Link` |
| `frames` | 2 channels, 2 LEDs, base 2, two-bit bytes; a driver with one, longer, channel; counts 0, 1, 2, 4, 5, 9 and all colour orders | `LedsShowImage`, `NoBleed`, `NoForeignPixels` |
| `walk` | 8 directions, sizes 0..4 by 0..4, nine positions on a 3 by 3 canvas | `EveryCellOnce`, `StripIsContinuous`, `SourcesAreDistinct`, `PreviewUpToMirror` |
| `templates` | 2 browsers, 3 templates, one in flight on the open connection and one late per browser | `PageAndDeviceAgree`, `FreshPageShowsDevice` |
| `streams` | 2 streams at a time, one unanswered request per source, any user | `DrawnIsAttached`; in plain use `StopReachesAll` and `ToggleShowsSource` |
| `playlist` | 3 videos, one undecodable, 2 promise callbacks outstanding | `OrderAgrees`, `FlagIsSource`, `EndIsFollowed` |
| `shared` | 2 slots, 2 connections, one frame and one text, up to 2 messages under way per page | `OneHolder`, `OnlyAskersTalk`, `InSync`, `NoWedgedSlot`, `ShownUnlessPending`; the device implements `Session` |
| `device` | 1 slot, 2 connections, texts of 1 and 3 characters (one unprintable), long and oversized frames, pong, close; base 2, two-bit bytes | `StoredIsLast`; `StayersAreGreeted`, `InboxIsRead` (every message is read and the last frame shown) under fairness |
| `panels` | 2 drivers of one channel, up to two modules, two fields with two values, two template names and two colour orders | `PanelIsTrue`, `EditIsLocal` |

Runs that are expected to find a violation, each a disagreement between what the program does and
what it says:

| Run | What happens |
|---|---|
| `streams_paint` | click the toggle of the shared screen, start a local video while its prompt is open, share the screen, click a toggle before it is loaded: `stopStream` takes the screen off the element, which loads the video again; the screen's `onloadedmetadata` (global.js:850) runs for the video, the painter goes to SCREEN with PLAY, and `paint` throws in every frame from then on (`PaintHasStream`). The camera's handler (global.js:817) does the same and selects CAMERA |
| `device_full` | every slot taken, one more page: `newClient` returns a null pointer and `handleNewClient` discards that instead of the connection; the device panics and every page loses its link (`NeverPanics`) |

Three more behaviours of the connection are in the model without a run of their own. With `FakeNode = TRUE`
(`src/Web`) the handlers return before they touch the status, so after one click on Reconectar
"Conectando" is final (connection.js:70). A stale Reconectar or a retry can open a second socket; when the first one
ends the page shows "Desconectado" while `this.ws` is open (connection.js:58). And as `paint` draws the
status once per node (canvas.js:1117), a page that never heard of a driver shows neither the status nor
the button.

One behaviour of `TemplateStore` is such, too. Guardar without a connection logs "New template saved, sent" and
sends nothing, because `saveDriver` ignores what `sendWsMsg` returns (connection.js:206-208); as `localStorage`
has the template by then, the same one cannot be saved again. That is why `PageAndDeviceAgree` excludes
pages with a save that went astray (`missed`).

One of `DriverPanels`, too. When the panel of a second driver is appended, the inputs of the first go back to
what its HTML says, while its template keeps the edits made since (global.js:1155). The panel is `stale` from then
on, until the page is reloaded, and the next edit of a module reads back every field (global.js:996) and
writes the old values of the others over those edits. `PanelIsTrue` exempts the inputs of stale panels, and `EditIsLocal`
says of an edit in one only that it writes what the panel shows, with one other field.

Three exemptions of this kind are in other properties: a channel whose count of pixels wraps its header
(`HeadersFit`, canvas.js:1193) is outside `LedsShowImage`, a list disordered by a drop after a removal
(`restored`, global.js:416) outside the properties of `Playlist`, and requests that cross each other or a second
camera over a running one (`plain`, global.js:816 and 276) outside `StopReachesAll` and `ToggleShowsSource`. The models
have all three.

`PreviewUpToMirror` states a disagreement as well: for rows that start on the right (`ZIGZAGH_BC`,
`ZIGZAGH_DA`) the LEDs are fed mirrored with respect to the line the page draws, because `pixelsToMsg`
(canvas.js:1175) takes the first row's direction from a width that `getPixelModule` has negated.

*Bounds and why they are enough.* Three sockets let an old one, the current one and a third overlap:
the handlers relate at most the ended socket, `this.ws` and a timer. Proofs cover any number. Base 2
with two-bit bytes makes counts of 8 and more wrap, as 5120 do in the code; a count of 9 is therefore
a wrapped header, 4 and 5 overflow the array of a frame, 0 to 2 fit. Sizes up to 4 contain both
parities, one line, and no cell at all, in both dimensions. Two browsers are enough for a stale copy
and a foreign save; three templates for an edit, a return to the previous one and the hole that
JSON drops. Three videos distinguish next, previous and wrap-around. Two streams at a time are one that is
attached and one that was overwritten, or one of each of `srcObject` and `audioStream`; ended streams
are forgotten and their names reused, so a run has any number of them. One request per source
leaves up to four unanswered at once.

Two connections are one that is served and one that waits for its slot, or two that share the LEDs; names
are used again, so a run has any number of them one after the other. One slot is where a page can find none
free; two are where a slot lower down is freed while a higher one is used. Texts of one and three
characters leave the rest of a longer template behind a shorter one; base 2 makes the length of three use both
bytes. The proofs cover any number of slots, connections and bytes.

Two drivers are the one that is edited and the one that appears; one module may come with a template and
one be added, so that an index taken from the wrong counter meets one in use. The proofs cover any number of
drivers, channels and modules.

*Symmetry* is used in `templates` (clients), `panels` (drivers), `playlist` (playable videos), `streams` and `shared` (connections), for safety
only. `streams` also has a VIEW: out of plain use what the toggles show influences neither a step nor
a property, and states that differ in it alone are explored once.
`shared` has one that leaves out the bytes of the EEPROM, which neither a step nor a property of that run reads.

*Fairness* (`WsConnection!FairSpec`). Weak fairness of: timers that are due (the event loop runs
them), the end of an opening or closing handshake (the browser times both out), the IDENTIFY on a
socket that stays open (TCP delivers it), the repaint (a worker posts every 5 ms, global.js:561). A
click, a failure of a connection that is open and a reload are never forced.

(`WsServer!FairSpec`.) Weak fairness of the thread (`loop`, the five-second timer of `readCb` included), of
the delivery of what a page that is still there has sent, and of the restart after a panic (the watchdog);
strong fairness of `noClient`: handling a new connection takes the thread a moment and accepting one takes
a handshake of the network, so `handleNewClients` does not loop for ever. A page that falls silent is never
forced to be noticed. `StayersAreGreeted` is what `WsConnection` expects of a device: the fairness it assumes
of IDENTIFY is derived here from that of thread, network and watchdog.

*One lit frame.* The run `shared` sends one frame, so TLC does not see one lit frame replace another before it is
shown; the theorem `LastFrameIsPending` covers any frames.

*Deadlock* is checked except where the system may rest: a walk that is finished, a page whose list is
empty of choices, and stores nobody touches (`CHECK_DEADLOCK FALSE` in those configurations).

*Environment assumptions.* `Playlist` has no camera or screen attached to the element: that a local
video and the streams disturb each other is in `StreamSources`, which has the element but not the list.
`WsConnection` takes the page not to be served over https, so that the constructor of `WebSocket`
does not throw.

## 4. Proofs

TLAPS checks all of the following for any value of the constants that satisfies the named
assumptions of the module.

**`WsConnection_proofs`**: `TypeCorrect`, `RetryChainIsSingle`, `ConnectingIsNeverIdle`,
`ConnectedIsBacked`, `PatientStatusIsExact`, `PatientImplementsLink`. The retry chain is its own
inductive invariant together with the types. `ConnectingIsTrying` is proved without the fake node
(with it the invariant fails, see section 3). `ConnectedIsBacked` needs `DisplayInv`, that
an open socket whose greeting has been read has its device among the nodes, and that nodes are greyed
out only by an end that also leaves CONNECTED. `PatientStatusIsExact` needs `OneSocket`: no socket but
`this.ws` is alive and, while one is, nothing is due. The refinement maps `Devices` to `Nodes`,
`status` to `phase` and `nodes \ lost` to `live`: each action maps to one of `Link`'s or to a stutter.

**`FrameCodec_proofs`**: `TypeCorrect` (bytes stay bytes: a header's high byte is reduced by the
store, the low one because the base is at most the size of a byte) and `DeviceShowsImage`. The
inductive invariant has a half per side. `EncoderInv`: the part of the array before the cursor holds,
for each channel done, its header and its pixels, as far as the array reaches, and the rest is zero.
`DecoderInv`: the decoder's cursor is where the encoder put the next channel as long as every channel
before fitted, and the channels done show their image. It rests on lemmas on division by the base,
on `Taken` and on positions inside a channel.
`PixelsStayPut` (`NoBleed`) and `ForeignChannelsStayDark` (`NoForeignPixels`) need three parts more. `TailInv`:
behind what was packed the array is zero. `CutInv`: the decoder is at a channel that starts in the array, or
behind them all, or has less than a pixel to come; and what it has shown is a prefix of each channel's
image. `LostInv`: the frame of a lost driver is read as empty headers of two bytes each.

**`ModuleScan_proofs`**: `TypeCorrect`, `WalkNumbersCells`, `WalkIsContinuous`, `PixelsFeedOne` (`SourcesAreDistinct`)
and `PreviewTellsWalk` (`PreviewUpToMirror`), for any rectangle, negative positions included. The proofs give each cell
coordinates, its line and its position on the line, turned on odd lines. By `WalkInv` what has been
visited is exactly what lies behind the counters in these coordinates, so cells are distinct, complete when the loops
are done, and neighbours when consecutive. Different cells inside the canvas have different places in its pixel
array, so no pixel feeds two LEDs. `Numbered` says that the place of a cell in `out` is its line times the width plus
its position; the corners of the line `BorderPainter` draws are the ends of the first three lines, so they have the
places at which the walk turns.

**`DriverPanels_proofs`**: `TypeCorrect`, `PanelsAreTrue` (`PanelIsTrue`) and `EditsAreLocal` (`EditIsLocal`), for any
drivers and templates. The inductive invariant has `CounterIsAhead` (every index in use, by whatever driver, is
below `globalMIdx`), `ElementsAgree` (elements, attributes and modules have the same places), `OpenIsTrue`,
`UnsavedIsOffered`, and `InputsAgree` (unless it is stale, a panel shows its template). An edit reads all
fields of a module back, so that it changes one field follows from `InputsAgree`, and that a new
module overwrites none from `CounterIsAhead`.

**`StreamSources_proofs`**: `TypeCorrect`, `DrawnIsThere` (`DrawnIsAttached`), `PlainUseLosesNone`
(`StopReachesAll`) and `ToggleIsSource` (`ToggleShowsSource`), for any number of streams and requests. `DrawnIsAttached` is inductive together
with the types, which say that the element loads exactly when it has something to load. `StopReachesAll`
needs `OneRequest`: in plain use at most one request is unanswered, and what its answer will
overwrite is empty. `ToggleShowsSource` needs more (`ToggleInv`): whatever is asked for or runs has its toggle on,
and no event `inactive` of an older stream of the same kind is still to come that would switch it off; and what
the painter draws has switched the other toggles off.

**`TemplateStore_proofs`**: `TypeCorrect`, `FreshPagesShowDevice` (`FreshPageShowsDevice`) and
`PagesAndDeviceAgree` (`PageAndDeviceAgree`), for any browsers and templates. `PageAndDeviceAgree` speaks of moments when
nothing is under way; what leads there is `LastArrives`: for the only browser that saves, the template
that arrives last is the one it stored locally last. That needs `LateIsMissed` (what is late belongs to a
save that went astray) and `SendersSaved` (who has not saved has nothing under way). A page that was loaded anew
shows what it was greeted with, and `GreetingIsCurrent` says that this is what the device has.

**`WsServer_proofs`**: `TypeCorrect`, `HolderIsOne` (`OneHolder`), `NoSlotIsWedged`, `AskersTalk`
(`OnlyAskersTalk`), `StreamsInSync` (`InSync`), `LastFrameIsPending` (`ShownUnlessPending`),
`LastTextIsStored` (`StoredIsLast`) and `Implements` (`ImplementsSession`), for any number of slots, connections, messages, and any size and base of
the EEPROM format. None of them is inductive alone. `InSync` needs what a stream looks like as a whole: that
after the part that is expected come the rest of its message and then whole messages, and that nothing
follows in a stream whose handshake has not been read but its lines. `NoWedgedSlot` needs `RxCounts` (how far a
message is read is what the slot counts) and `Busy` (a thread inside a message is on a slot that has a client).
`OnlyAskersTalk` needs `SlotsClean` and `FlagsAreTrue`: a free slot has no flags, a taken one has only those
its own request has set. `OneHolder` needs `GoneIsEmpty`. The conjunction `IInv` of all these is preserved by
every action; the actions are grouped by what they do to the stream they read, so that each conjunct is
proved once per group. `LastTextIsStored` rests on `EepromFormat` alone: division with remainder gives
the length back, and the characters of the last text are the ones before it.

`Implements` (`ImplementsSession`) maps a connection to what its page knows of it (`Phase`) and to the messages
under way (`Pending`: the one that is being read, and then every head in the stream). Each group of actions is shown to be one
step of `Session` or none: reading a part moves a message from the stream into `msg`, which changes nothing for the page; a
line of a request is none of the messages, which is where `InSync` is needed; a page that leaves cuts `pending` to a
prefix; a teardown inside an event is `Handle` with `Ended`. `OneHolder` makes the teardown of one slot the end of one
connection. `Heads` is a function over the length of the stream; that it distributes over `\o` (`HeadsConcat`) is proved
by induction.

**`Playlist_proofs`**: `TypeCorrect`, `PageAgreesWithArray` (`OrderAgrees`), `FlagsCatchUp` (`FlagIsSource`),
`EndPlaysTheOneBelow` (`EndIsFollowed`) and `LoopOfSwaps`, for any number of videos, of items and of callbacks that are
still to run. The inductive invariant has three parts, all up to the moment a removed item is put back (`restored`): `Ordered` (array
and page are equal and have no video twice), `AllKnown` (flags and callbacks concern videos that are or were on the page), and
`LastFlagsSource` (the last callback to run, or the flags if there is none, names what the element has). The page moves an item
with `insertBefore`, the array by `onDropped`, a loop of swaps of neighbours. `LoopOfSwaps` says that the loop, over any
distance and in either direction, is `Moved`: one element taken out and put in elsewhere; `MovedItem` says the
same of the page.

*Induction over numbers.* The loop of swaps and the heads of a stream are recursive functions, whose values follow by
induction. The induction theorems of the library have an operator as parameter, which the provers cannot
instantiate; `SetInduction` states the principle with a set of numbers in the place of the predicate, and is proved from
the well-foundedness of the natural numbers (`LeastOfNat`). Its proof is in both modules that need it.

*Only model-checked*: the liveness properties (`AttemptsEnd` and `DriversComeBack` of `WsConnection`,
`StayersAreGreeted` and `InboxIsRead` of `WsServer`), because liveness under fairness is out of the provers' reach. Every
invariant, action property and refinement that a passing run checks has a theorem.

## 5. Not modelled

Painters (pixel drawing on a 2D context), settings panels and DOM helpers, `startAP` and
`startServer` (they start libraries), `audio.html` (an experiment nothing uses). Of the vendored
libraries only the path of the WebSocket server on an ESP32 is modelled: its client, SSL, Socket.IO, heartbeat and
authorisation are not used by the firmware, FastLED, EEPROM, WiFi and the asynchronous web server are called
and named external, and the rest (LwIP, AsyncTCP for other boards, NeoPixel, ...) is not part of the program's
own logic; most of the source lines of the repository are theirs. The served `timeoutworker_js.h`,
`global_css.h` and `templates_json.h` are data or the worker of the plan below.

A failed `write` of the greeting is not modelled: the page then has an open WebSocket and never hears
IDENTIFY, as it would when its connection is lost. Texts that do not fit are excluded by `Fits`.

## 6. Plan

In this order; each extends what is there.

1. `PaintLoop`: the worker, the gate of 20 fps and the statistics, composed with `WsConnection`.
2. `TemplateStore` over `Session` and `WsConnection`, with several drivers and devices: what Guardar stores where
   when `this.ws` reaches another device (connection.js:207); its `edit` refined by the edits of `DriverPanels`.
3. An abstract register that `TemplateStore` implements, and the proof that it does; its `device` then is the `stored` of
   `Session`.
