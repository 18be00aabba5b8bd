# Formal models of the deepbrain_rda firmware

The firmware runs a voice toy on an RDA5981 (mbed RTOS, about fifteen threads, one core).
A key starts a recording; the recording is cut into frames and sent to a cloud service while
it is made; the answer is a text to be spoken, a song, or a command. A push connection
delivers messages and songs, a wifi service keeps the device in a network, and a media
manager plays one thing at a time and continues the song that was cut by a message.

Every thread shares memory with the others and most of the shared state has no lock, or has
one that is left before the state is used. The models are about that: they keep the threads'
steps apart wherever the code may be interrupted, and abstract from what is said and played.

## The system

| part | source | state it keeps | operations | model |
|---|---|---|---|---|
| start-up | `main/app_main.cpp`, `*_create` of the services | handle, lock, thread and first message of each service | create, start, join, give up | `StartUp` |
| message bus | `deepbrain/components/app_framework` | list of apps, a queue and callbacks per app, run status | create, subscribe, send, distribute, dispatch, exit, delete | `AppBus`, `BusPromise` |
| event loop and keys | `main/events.cpp`, `yt_src/yt_key` | queue of five events, table of handlers; last key, one timer | trigger, run, press, release, long press | `Keys`, `Recorder`, `Toy` |
| modes of the toy | `main/deepbrain_app.cpp`, `yt_src/YTManage.cpp` | status, question under way, timer, queue of parents' messages, count of silent questions | keys, answers, ends of media, wifi | `Toy`, `Codec` |
| recorder | `main/duer_recorder.cpp`, `external/Ringbuff` | a state written from four places, ring of frames | start, stop, two threads | `Recorder` |
| spoken question, speech service | `main/deepbrain_app.cpp`, `apps/dcl_service`, `DCL/asr` | number of the recording and of the frame, queue of frames, session with the cloud, timer of 5 s | start, frame and stop of a recording; request, answer, time-out | `AsrSession`, `AsrRequest` |
| protocols of the cloud | `DCL/*`, `sdk_interfaces/socket_interface.cpp` | memory, socket and answer of one request | begin, make, write, read, decode, end, nine times | `CloudRequest`, `Socket` |
| push client | `apps/mpush_service`, `DCL/mpush` | a status of 15 values, socket, server list, two timers | licence, device information, server list, old messages, connect, handshake, bind, heartbeat, receive | `MpushService`, `PushStream` |
| wifi service | `apps/wifi_manage` | a status of 10 values, table of networks in flash, place of the search | join, search, airkiss, key, time-out | `WifiManage` |
| media data manager | `dueros/src/media-data-manager` | mailbox of one message, stop flags, previous medium, bytes written | play url, data, file or changed voice, stop, pause, continue | `MediaPipeline`, `MediaData` |
| player and codec | `media-player`, `media-base` | player's status, codec's status, semaphore for the end, volume | start, write, stop, pause, resume, record, loudspeaker, seek | `MediaPipeline`, `Codec`, `PlayM4A`, `Volume` |
| play buffer | `media-player/baidu_media_play_buffer.cpp` | ring of bytes, a flag and a semaphore for both threads | write, read | `MediaPlayBuffer` |
| progress of a medium | `baidu_media_play_progress.cpp` | played time, stutter flags, timer | listeners, timer, event | `PlayProgress` |
| fetching of media | `lightduer_http_client.c` | connection, buffers, place in the body | get, redirect, resume, keep, stop | `HttpClient` |
| platform events | `source-mbed/lightduer_events.cpp` | queue of callbacks | post, run, destroy | `EventLoop` |
| song queues | `yt_src/YTManage.cpp`, queue cache | queue of urls, one cursor | push, pop, clear, next, previous | `SongQueue` |
| memos | `apps/memo_service` | table of memos with timers, the memo that fired | add, fire, play, restore | `MemoService` |
| parameters in flash | `apps/device_params_manage` | one record with a checksum | get, set, start-up | `FlashParams` |
| authorization by the maker | `yt_src/authorize` | state, retries, socket, licence | ask, wait, check, keep | `Authorize`, `MakerPackets` |
| firmware update | `apps/ota_service` | partition, page, socket | ask, silence, take the image, restart | `OtaUpdate` |
| discovery in the local network | `apps/airkiss_lan_discovery` | UDP socket, three states | wifi events, broadcast, answer | `LanDiscovery` |
| battery | `yt_src/vbat` | status, count of low readings | measure, warn, shut down | `Battery` |
| DLNA renderer, vendored code, shell, lights, voice effects, ring buffer of the framework | see "Not modelled" | – | – | – |

How the parts interact:

- `main` creates the services one after the other; each joins the bus in its own thread, while
  the wifi service may already tell the others that it is connected.
- Services talk over the bus. The wifi service broadcasts `WIFI_CONNECTED` and
  `WIFI_DISCONNECTED`; push client, speech service, authorization, update and discovery live on
  these. The speech service sends `NEW_REQUEST` to itself, from the recorder's thread.
- Keys post to the event loop, which runs in main's thread and starts and stops recordings,
  pauses the player and resets wifi.
- The recorder's thread calls `yt_dcl_rec_on_start/data/stop`; these feed the speech service,
  whose thread calls back with the answer; the answer calls the media manager, fills the song
  queue, adds a memo or sets the volume.
- Whoever plays something (answer, push, memo, tone of a key) leaves one message in the media
  manager's mailbox and writes the player's status directly. The manager fetches the medium,
  cuts it into frames and writes them into the play buffer, the player reads them and feeds the
  codec; at the end of a medium the player's thread decides what comes next: a recording, the
  next song, silence.
- Every service keeps its parameters in the one record in flash. The update silences all others.

What is hard in this code, and what makes each part correct (the single points, each with its
line, are the hazards in `PROJECT.json`):

- *Bus.* A broadcast is copied receiver by receiver while services start, exit and are freed;
  malloc fails. Correct: nothing vanishes, nothing is delivered twice or into freed memory,
  all services see one order, an exit ends its service.
- *Start-up.* Memory and threads fail anywhere. Correct: what is on the bus has its memory and
  its lock, a failure hurts nobody else.
- *Keys and recorder.* One place for a key, one timer for all, five writers of one state.
  Correct: a press is answered once; frames arrive whole and in order; a stop is obeyed; the
  microphone is off when nobody speaks.
- *Toy.* Answer and time-out race, and the end of one medium starts the next thing. Correct: one
  reaction to a question; silence ends the dialogue.
- *Speech.* Frames, answers, the 5 s timer and wifi events change the recording's number from
  four threads. Correct: speech is written to the session of its own recording, an accepted
  answer belongs to the last question, the queue never stays full; each packet is heard at most
  once although broken connections are replaced.
- *Requests.* Nine copies of the same five functions with different owners of the memory.
  Correct: all is released once on every path; a code tells the truth about the answer.
- *Push client.* Connections break, replies are late or torn, events arrive in any status.
  Correct: a server sees handshake, bind and then traffic, once each; `CONNECTED` means bound;
  no socket leaks; a dead connection is given up; with a good network it gets through; each push
  is done once and in order.
- *Wifi.* Three threads write one status without reading it again. Correct: `STA_CONNECTED`
  means joined and told, all networks are tried before airkiss, the newest comes first, the
  search ends, losses are noticed.
- *Media.* Nothing but the mailbox has a lock. Correct: chunks of two media never mix, ends are
  counted, what is continued was cut, goes on at the byte where it was cut, and each medium
  comes to an end; player and codec agree; the volume that is believed is the one that is heard.
- *Play buffer.* One flag and one semaphore serve two threads, and the flag is set after the
  lock was left. Correct: bytes in order, no lost or surplus wake-up.
- *Fetching.* Lengths, chunks, redirections and resumed connections. Correct: the handler gets
  the bytes of the medium in order, and "OK" means all of them.
- *Flash, memos.* Power goes at any time; parts of one record are saved by all. Correct: what
  was stored is found, nobody's part is disturbed, a memo is spoken once.
- *Authorization, update, discovery, battery.* Correct: one connection at a time, an answer in
  the end; a complete image or the old firmware; one socket; no shutdown by accident.

## The modules

`AppBus` is the framework of `app_framework.cpp`. A message is its number in the log of
accepted messages. Main's thread is a program counter (`mainPc`), the message in its hand and
the receivers it has still to visit, so that services live and die between any two copies.
The actions are the functions: `Send` (`app_send_msg`), `MainReceive`, `MainLock`,
`MainDeliver`, `MainUnlock` (`app_object_main_distribute_msg`), `CreateObject`, `LinkObject`,
`Subscribe`, `TakeMessage`, `FinishCallback`, `UnlinkObject`, `FreeObject` (`app_new` to
`app_delete`). `BusPromise` is the abstract specification: for each service a set of messages
on their way, from which the least is received next. `AppBus` refines it with
`published <- Len(log)`, `pending <- Pending(a)`, `received <- taken`: the two queues, the hand
and the lock are hidden.

`StartUp` walks through `main` and the `_create` functions of eight services: handle, lock,
thread, first message. `task` says how far a service's own thread is, and `failed` lists what
could not be allocated. The speech service is the last one the talk key waits for.

`Recorder` is a question from the talk key to the speech service. Main's thread takes events
(`TalkStart`, `StartRecorder`, `RecStarts`), the recording thread reads the microphone into the
ring (`RecReads`), the other takes frames out (`AmrTakes`, `AmrData`, and `AmrReadDone` and
`AmrStores`, the two halves of `remain -= 1`), and the player plays the tone before it. What a
thread of higher priority does between two reads is one step. `overtaken` and `spoilt` mark the
two races in the code after which the properties claim less.

`AsrSession` is a question on its way from the recorder to the answer. The recorder's thread
(`RecOnStart`, `RecOnData`, `RecOnStop`, then `AddTail`, `SendMessage`, `ArmTimer`) and the
service's (`TakeRequest`, `RecBegin`, `RecRuning`, `RecEnd`) interleave; `ResultTimeout` is the
5 s timer. `session` and `epoch` are histories: they tell recordings apart whose numbers the
code makes equal. `AsrRequest` is the inside of `RecBegin` to `RecEnd`: packets, writes that
come in pieces, and the reconnection.

`CloudRequest` has one definition for each of the five functions of each of the nine files
(`NlpSessionBegin`, `TtsSessionBegin`, ...): what a session takes, what a packet and an answer
must have, what is copied to the caller. Its actions, which are the common skeleton, walk through
a request with a failure possible at each step. `Socket` is `socket_interface.cpp`: addresses
tried one after the other, and loops with and without a time limit; `CloudRequest`,
`AsrRequest`, `Authorize`, `OtaUpdate` and `LanDiscovery` EXTEND it.

`MpushService` is the client's status machine, one action per case of the switch in
`mpush_client_process`, together with a server and a connection that may be reset, silent or
slow. `MpushConnect`, `Receive` and `StatusAfter` are the functions of these names. Network,
clock and server are actions of their own (`LinkFails`, `MessageTorn`, `WaitExpires`,
`HeartbeatDue`, `ServerReads`, `ServerSends`). `PushStream` is the inside of `Receive`: how
messages are cut out of the bytes that come, and what a push then does to songs and voice
messages.

`WifiManage` has for each case of the switch that blocks two actions, one that begins and one
that ends with the write of the status, because the timer (`TimeOutBegins`, `TimeOutEnds`) and
the key (`KeyReads`, `KeyWrites`) write it in between. The ring of places in flash is kept as
it is: place 0 belongs to the factory, the others go round.

`MediaPipeline` has the manager's thread, the player's thread, callers and the codec. Manager
and player have priorities above their callers, so that what they do between two blocking
calls is one step; a caller may be held up between any two writes. The play buffer is a queue
of chunks with a bound. A url whose format is refused (`Refuse`) stops the player, and the http
client, which knows nothing of it, still hands over the end: it is written, the idle player
releases the semaphore, and nobody waits (`unwaited`). The last chunk of a medium is one of its
own, as with the firmware's tones and with every url; a tone of one frame is in `MediaData`. Four modules are the inside of parts of it:

- `MediaPlayBuffer`, the buffer byte by byte: a thread takes the mutex (`...Try`), leaves it
  with too little room or data, sets `_wait` (`...Mark`) and waits on the semaphore (`...Wait`).
- `MediaData`, from the bytes of a url, a file, a memory block or a changed voice to frames with
  START and STOP; tags are skipped, headers repeated, and a cut medium goes on where the code
  believes it was cut. A byte is its place in the medium.
- `PlayM4A`, from the pieces of an M4A file to samples: header, parsing, samples across pieces,
  seek.
- `Codec`, player's status against codec's status, with recording and the loudspeaker of
  bluetooth, which write the same status.

`Volume` has three threads, each between two of its writes. `PlayProgress` is listeners and timer
over a queue as in `EventLoop`. `HttpClient` is one `get` of the client: the line of status and
headers, chunks or a length, a small buffer, a connection that breaks and is resumed, a kept one with its
timer. `Toy` has the player with one medium that plays and one that was asked for, and the
cloud as the numbers of the answers to come (`owed`). `record_sn` is the code's own: it goes back
to 0 with each time-out and each `yt_dcl_start`, so that a number comes again and an earlier
answer passes the check of the later question. A song that was cut and kept is
`MediaPipeline`'s: here any song may follow. Also the key for pause only takes its event, because a player
that pauses is one that plays and has not ended. In `SongQueue` two services may empty and fill the
one list at once (`Clear`, `ResetCursor`, `SetMusicQueue` for each song), with keys and ends of songs in between. `Toy`, `Keys`, `SongQueue`, `MemoService`, `FlashParams`, `Authorize`, `MakerPackets`,
`OtaUpdate`, `LanDiscovery` and `Battery` follow their files function by function; the head of
each module says what it abstracts from.

`Services` puts the modules of one service or device each side by side: `part` says which of them a
behaviour is about, and they share the variables `s1` to `s21` of `Shared`, so that one run
checks them all and one theorem speaks of all. `DataServices` has the instances of what stores
and sends data, `ChildServices` of what the child presses and hears and of `HttpClient`, both
with the assumptions about their constants. `MCServices` adds values for the run, and `MCLiveness` does
the same for the parts with liveness (bus, wifi, authorization, the maker's packets). `Recorder`,
`AsrSession`, `MpushService`, `WifiManage` and `MediaPlayBuffer` are checked as they are; `MCAppBus`
and `MCMediaPipeline` add a constraint or a symmetry.

The definitions that `PROJECT.json` names as `as` under `mutants` are not part of the models. They
are variants of a definition that follows them, each with a plausible mistake, and document
which mistake each property detects.

## The runs

| run | instance | what it shows |
|---|---|---|
| `app_bus` | two services, two messages of four kinds, two lives each, malloc may fail | `NothingVanishes`, `NoDeliveryToFreedObject`, `SameOrderForAll`, and the refinement of `BusPromise` (`KeepsPromise`) |
| `services` | 21 parts, one at a time, see below | `BytesInOrder` and `WakeupIsOwed` of the play buffer, `ParametersAreKept`, `WhatWasTakenIsGivenBack`, `AnswersAreTrue`, `ChildIsServed` |
| `liveness` | bus, wifi service with one network, authorization, the maker's packets; fair, without failing mallocs | `EventuallyTaken`, `ExitEndsService`, `WifiFindsItsWay`, `MakerDecides` |
| `asr_session` | two recordings of two frames, one wifi message, malloc may fail, fair | `RequestFindsObject`, `SpeechStaysInSession`, `AnswerIsToLastQuestion`, `QueueDrains` |
| `recorder` | two presses, speeches of two frames, ring of three, one foreign medium, fair | `SpeechArrivesWhole`, `MicrophoneIsOff`, `StopIsObeyed` |
| `mpush` | two messages in each socket buffer, two wifi events waiting, fair | `BoundBeforeConnected`, `ServerNotConfused`, `OneSocket`, `GetsThrough`, `DeadConnectionIsLeft` |
| `wifi` | three networks, three places in flash, one driver message | `ConnectedIsReal`, `NetworksAreKept`, `AllAreTried` |
| `media` | one caller, three calls of any kind, three chunks, room for two, fair | `MediaAreNotMixed`, `EndsAreCounted`, `KeptWasCut`, `MediaComeToAnEnd` |
| `play_buffer_wakeup` | the writer preempts the reader, as its priority says | finding: a reader can sleep on data that is there (`EnoughDataIsRead` fails) |
| `asr_session_serial` | two recordings, no failures | finding: two recordings with one serial number (`SerialNumberIdentifies` fails) |
| `media_error` | one call | finding: an error of the codec while the manager waits blocks it for ever (`ErrorEndsWait` fails) |
| `recorder_taken` | one press, one foreign medium | finding: a recording whose player was taken away spins for ever (`TakenIsNoticed` fails) |

The findings, each with the line of the code and the line it contradicts, are in
`PROJECT.json`. Each passing run has its type invariant as well.

The four composed properties of `services` say, part by part:

- `WhatWasTakenIsGivenBack`: sessions of the cloud release memory, socket and answer once
  (`SessionIsReleased`); a session of speech has one connection (`SessionHasOneConnection`); the
  same for the authorization (`AuthorizationIsOrderly`), a kept connection and its timer
  (`KeptIsTimed`), the update, which also gives the toy back (`UpdateIsUndone`), discovery
  (`LanHasOneSocket`) and services that fail to start (`StartIsOrderly`).
- `AnswersAreTrue`: codes and outputs of the requests (`CodeTellsTheTruth`); packets of speech are
  heard at most once and in order (`SpeechIsHeardInOrder`); bodies over HTTP (`BodyComesInOrder`,
  `OkIsWhole`); images (`UpdateIsWhole`); pushes (`PushesAreDoneOnce`); cut media
  (`GoesOnWhereItWasCut`); samples of M4A (`SamplesAreWhole`).
- `ChildIsServed`: memos (`MemosAreRemembered`, `MemosSpeakOnce`), dialogue (`SilenceEndsDialogue`,
  `OneReaction`), songs (`EverySongHasItsTurn`), keys (`PressIsAnsweredOnce`), battery
  (`ShutdownIsEarned`), volume (`VolumeIsHeard`), player and codec (`PlayerAndCodecAgree`,
  `SleeperIsPaused`), media (`EveryMediumEnds`), played time (`TimeIsCountedOnce`), the event loop
  (`AcceptedEventsRun`).
- `ParametersAreKept`: flash holds what the services see outside a write (`FlashIsWhole`), and no
  service disturbs another's part (`ParametersAreSeparate`).

Many of these have an exception in their statement, a history variable or a predicate that marks
the situation in which the code breaks them. It is the description of a fault, which is
listed under "Further hazards" or among the hazards of `PROJECT.json`; outside of it the property
holds, and the hazard itself is then one that no property catches:

| exception | the property claims nothing once |
|---|---|
| `unwaited` (`MediaPipeline`) | the manager did not wait for what it wrote: a refused format, an error, a start above 100 ms |
| `epoch` (`AsrSession`) | `record_sn` was reset between the recording and its answer |
| `excused` (`Toy`) | the 5 s timer was started or ran on after its question had its answer, or `record_sn` became a number whose answer was still to come |
| `popped` (`SongQueue`) | a song was taken out of the queue under the cursor |
| `overwritten` (`Keys`) | a key message was overwritten before it was read |
| `overtaken` (`Codec`) | another thread came between the write of the player's status and of the codec's |
| `spoilt`, `overtaken` (`Recorder`) | the ring lost a count or overwrote a frame in the reader's hand; a start was overtaken |
| `excused` (`MemoService`) | one of the service's own faults with a memo, which its comment lists |
| `left` (`PlayProgress`) | a medium was stopped, or told of a stutter again, while it stuttered |
| `excused` (`HttpClient`) | the redirections were used up, or an answer had neither length nor chunks |
| `early` (`MediaData`) | a medium was put away with messages of it still in the queue |
| `EndsBadly` (`MediaData`) | the medium gets no STOP: a tone of one frame, a file or a tone whose tag ends in its last piece, a changed voice below a frame, a file that goes on behind its end |
| `InStep` (`PushStream`) | a read gave up within a message, or a body was no JSON |

### Bounds, and why they are enough

- Bus, `MaxSends = 2`, `MaxLives = 2`: order needs two messages, the life cycle a service that goes
  and one that comes again under the same name. Liveness has one life: a second one adds
  nothing to a message that was due to the first.
- Play buffer: a size that is no multiple of a chunk makes chunks wrap at every position; five
  chunks are two more than fit, so that both threads wait, and wait again.
- Speech: the hazards are between a recording and the next one: two recordings; two frames are
  a first, a last and the stop between them. `FrameMs = 400` puts two frames below and three
  above the limit of one second.
- Recorder: a ring of three places holds two frames, and a speech of two with the rest of the one
  before fills it. Two presses are a recording and a stop, or two recordings.
- Push client: two messages fill a buffer, so that a heartbeat or a bind can find it full and a
  reply can stand behind a push. Two wifi events are a loss and a return.
- Wifi: with three places the ring has two, so that it wraps; three networks are one more than
  it holds. Liveness has one network: the search is over places, not networks.
- Media: three calls are a song, what cuts it and what follows; three chunks are the first, a
  middle and the last; room for two makes the manager wait. `MediaData`: frames of six bytes,
  headers of two, a voice frame of three and pieces of one and three make every boundary fall
  inside and on the edge of a piece; the media include a tone of one frame and a longer one, a tag
  that needs several pieces, a file whose tag ends in its last piece, and changed voices that fill a frame in time, with the last piece
  only, or never; two media, two cuts, two messages. `PlayM4A`: a header of 7
  bytes that parses from 3, four samples, one larger than a piece, with a gap before the
  last.
- Codec: two media are one that plays and one that starts over it. Volume: two changes on top of
  each other, from three threads, with a step of two so that both ends of the range are hit.
- HTTP: a body of five bytes in chunks of one and four, one redirection and one resumption more
  than none; a second one repeats the path of the first.
- Requests: two addresses (the first fails, the second may), three pieces of an answer.
- Toy: a queue of one event, numbers 0 and 1 and two answers to come: the number comes again with
  the first reset, while the answer to the question before is on its way.
- Memos: three memos over two places, one restart: one more than fits, and one that was there before.
- Start-up: two failures, so that one service fails behind another that has failed.
- Progress: a clock of three ticks separates a short wait, a stutter and the next wait. Event
  loop: three posters, of which one destroys, over a queue of two. Update: pages of four, an area
  of two pages, images up to a byte more. Flash: two values and a default for each parameter.
- The runs of a bounded number of calls, messages or recordings stop when these are used up;
  deadlock is not an error there. The wifi service runs for ever and is checked for deadlock.
  The push client can stop in one state only: its thread repeats a send that never succeeds
  (`stuck`) while the connection is reset and its queue is full; no state without `stuck` is
  without a step.

`media` has a constraint, `WhileWaited`: once the manager has gone on without waiting for the
end of what it wrote (a codec that takes more than 100 ms, an error, or the end of a refused
url), the properties claim
nothing more, and states after that are not explored. All four properties have the same
condition in their statements.

### Fairness

Weak fairness on each thread's step, nothing more: the RTOS schedules every thread that can
run, sockets and codec calls return (those that may not, like a send that repeats for ever,
are states of the model), and timers fire. What people and networks do is not fair: nobody has
to press a key, speak, or plug in a router. `GetsThrough` is conditional on trouble ending
(`<>[][~Trouble]_vars`), which is how "with a good network" is said without promising one. The
maker's service (`MakerDecides`) needs only its own thread: each of its requests ends, by its time
limit if not by an answer. For the recorder media come to an end and the microphone gives frames.

## The proofs

TLAPS checks these for all values of the constants.

- `AppBusProofs`: `TypeCorrect`, `DeliveryIsSafe`, `OneOrderForAll`, `NoMessageVanishes`, and the
  refinement `BusKeepsPromise`. The type invariant is
  strengthened by `OnlyLogged`, every number on a queue is one of the log. Safety of delivery
  is inductive with main's lock: while main visits receivers, no service can unlink itself.
  Order needs the whole way of a message: what was taken is before what is queued, that before
  what main has in hand, and that before what main has queued; each sequence is increasing. A message
  does not vanish because main's hand still has every linked service it has not visited. For the
  refinement each step is mapped: `Send` publishes, `TakeMessage` takes the least number that is
  pending, `CreateObject` restarts, a copy that fails is a miss, and all others stutter.
  Assumptions: the services are not called like main or the broadcast, and traffic consists of
  messages.
- `MpushServiceProofs`: `TypeCorrect`, `ConnectedIsBound`, `ProtocolIsKept`,
  `SocketsDoNotLeak`. The invariant says what may be under way on a connection in each phase of
  the server (`Talk`) and what each status of the client implies about that (`Step`): a client
  that waits for the reply to a handshake has not sent a bind, and so on. Without `Talk` a late
  reply of an earlier connection could not be excluded; it is excluded because every new
  connection starts with empty buffers. Assumption: a buffer holds at least one message.
- `AsrSessionProofs`: `SpeechTypeCorrect`, `AnswersAreToTheLast`, `SpeechIsNotMixed`,
  `RequestsFindObjects`. Within one `epoch` (between two resets) the number of the recording and the
  count of recordings go up together, so that a number stands for one recording. For speech, each
  queued object follows the start of its own recording (`OrderInv`), and the number the service
  has accepted is that of the last start it took. For requests, the queue is at least as long as the
  messages under way and the senders between their two steps (`CountInv`).
- `MediaPipelineProofs`: `PipelineTypeCorrect`, `MediaStayApart`, `EndsStayCounted`, `KeptIsCut`. The
  last three say something while `unwaited` is FALSE. What the manager does tells what lies in the buffer (`Phases`): nothing of a medium (`Quiet`), chunks
  without a last one (`Open`), or exactly one last chunk, which waits, plays or is done (`Closed`);
  all of them are of the manager's medium (`OfCur`). For what is kept, a medium is in one place at a
  time - with a caller, in the mailbox, with the manager, or kept (`Apart`) - and if it was played
  to its end while the manager has it, the manager finds `finished` (`EndIsKnown`).
- `WifiManageProofs`: `WifiTypeCorrect`, `WifiIsReal`, `WifiIsKept`, `WifiTriesAll`. While a case of
  the service is under way the timer and the key can only write three values (`TurnFits`); a status
  of success means a network that was joined and tried (`FoundInv`), and what is announced is in
  flash (`AnnouncedInv`). For the search, the places nearer than `connect_count` before
  `connect_index`, going round, were tried (`Searched`); that `Min` finds a least place rests on the
  natural numbers being well-founded. Assumption: flash has two places at least.
- `DataServicesProofs`, `ChildServicesProofs`: for each part of `services` its inductive invariant,
  which stands at the end of its module and was checked by TLC on the instance of the run before
  it was proved; and for `Recorder` the theorems `RecorderIsTyped`, `MicrophoneGoesOff`,
  `SpeechIsWhole`. `ServicesProofs` puts the parts together (`PartsInv`): `AllIsGivenBack`,
  `AnswersAreWhole`, `ChildIsAnswered`, `TypesAreKept`, `BufferAndFlashRunAlone`,
  `BufferAndFlashKeepTheirs`. They rest on the assumptions about the constants and on nothing else.
  - *Play buffer* (`WakeupsAreOwed`, `BytesKeepOrder`): who owns the flag (`FlagHasOwner`), that a
    thread on its way to wait finds the flag or a token (`MarkIsSeen`), and that both at once mean
    two threads on their way (`TokenAndFlag`); without the last one a release could leave two
    tokens. What lies in the ring from the reader's position on is the rest of what was written
    and not read (`StoredIsNext`). `BufferTypeCorrect` needs that the counts of chunks and bytes
    agree (`ChunksAreCounted`).
  - *Flash* (`FlashTypeCorrect`, `ParametersStay`): a write is under way exactly while a service sets
    its part, and needs power; a failed write or a cut leaves the one record that the flash
    does not share with the services.
  - *Requests and sockets* (`CloudInv`, `AsrInv`, `AuthInv`, `LanInv`): at each step of the skeleton
    what is held is what was taken before it and not given back. For speech also what was heard:
    the packets before `index`, and the one under way once at most.
  - *Update* (`OtaInv`): the bytes in flash and in the page together are those that came, and a page
    is written when it is full or last; the area is a whole number of pages (`OtaAssumption`).
  - *Start-up* (`StartInv`): a service on the bus went through its stages in order, so its memory and
    lock are there.
  - *A song in its container* (`SongInv` of `PlayM4A`): until the header has come the buffer holds its
    first bytes, and from then on the end of `_p_buff_data` is the beginning of the next sample; all
    samples before that went to the codec. That the least and the greatest of a set of
    samples exist rests on the natural numbers being well-founded. Assumption: the samples of
    the file lie behind the header, one behind the other.
  - *Songs, keys, volume, toy, memos* (`SongInv` of `SongQueue`, `KeysInv`, `VolumeInv`, `ToyInv`,
    `MemoInv`): what each thread is about to write and what it relies on. *Codec* (`CodecInv`): the status
    of the player, of the codec and of the thread between two writes. The toy's invariant
    needs that, until something is excused, an answer with the number of the last question is the last
    of those to come. *Progress* (`ProgressInv`):
    which timer and which message belong to which wait.
  - *Battery* (`VbatInv`): the mean is made one reading at a time; without the largest and the smallest
    the sum is at least the limit times the count while at most one reading was low. So a low mean
    has two low readings. Assumptions: three readings at least, and alerts that come before the last.
  - *Event loop* (`EventInv`): what was accepted is what was run followed by the queue, index by
    index.
  - *Recorder*: the numbers of the ring (`RingNumbers`) count the frames between the threads while
    nothing was spoilt (`Unspoilt`), what lies there are the next ones of the speech, and who is
    between two steps of starting or stopping (`RecInTurn`).
  - *Push stream* (`PushInv`): there is a count of messages up to which all was read and done. On the
    wire behind them the other messages lie whole and in order, with heartbeats only between them
    (`Aligned`); of the one under way the client has the first bytes and the wire begins with the
    others (`Begun`). That a byte of a body is never taken for a header follows from this. After a
    read that gave up, or a body that is no JSON, only the types are claimed. Assumption
    (`PushAssumption`): headers and bodies are not empty.
  - *HTTP* (`HttpInv`): what the buffer and the wire hold of a body continues what the handler has
    got (`BodyIsNext`). With chunks there is a layout of the rest of the medium and one chunk of it
    in which the client is: what was handled, what is in the two buffers and what is on the wire
    follow each other there (`ChunkIsNext`, `Within`). A layout is given by the ends of its chunks,
    so that a byte's place is arithmetic and no induction is needed. Assumption (`HttpAssumption`):
    the buffer holds two bytes, and neither the medium nor a chunk is empty.
  - *Media data* (`DataInv`): the player is started at most once for a medium, by a message that none
    comes before, and is stopped by one in the queue or has been (`StartInv`). What the codec has
    got and what waits in the queue is one sequence, which ends where the source goes on (`FlowIs`,
    `Laid`). What it is depends on the medium (`KindOf`): the medium byte by byte, with its header
    once more after a cut (`Shape`); for a WAV, sound that only rises (`Rising`); for a medium with a
    tag or a changed voice, no gap (`Smooth`). What is stored of a cut medium is such a sequence too
    (`KeptIs`). Assumption (`MediaAssumption`): a frame holds a header and a piece that comes through
    HTTP, and a piece of a changed voice is longer than a header.
    The proof found three cases that a smaller instance had hidden: a changed voice that never
    fills a frame is cut by what is left of an earlier tag; a file that goes on at its very end, or
    behind it, gets no STOP; and a WAV that was cut twice may lose its first sound. They are
    exceptions in `GoesOnWhereItWasCut` and `EveryMediumEnds`, and occur in the instance now.
Only model-checked:

- all liveness and `StopIsObeyed` of the recorder, which is liveness too: WF and ENABLED are out of
  the prover's reach: `EventuallyTaken`, `ExitEndsService`,
  `WifiFindsItsWay`, `QueueDrains`, `GetsThrough`, `DeadConnectionIsLeft`, `MediaComeToAnEnd`;
- `MakerDecides`, which has liveness in it and what the checksums and tables of `MakerPackets`
  compute, which is induction over data.

Every other property of a passing run is a theorem.

## What the models leave out

- Contents: texts, urls, JSON, audio. A request succeeds, fails or answers with nothing, or with
  a set of fields.
- Time: a timer may fire whenever it runs. Exceptions are named where they matter
  (`AnswerUnderWay`, `Unread` in the push client; the clock of `PlayProgress`).
- Undefined behaviour is a choice where a property can tell the difference: the uninitialised
  message in the wifi service's case of `STA_CONNECTED`, and the functions of the memo service
  that return nothing.
- Media: seek in formats other than M4A, and the statistics of the download.
- Speech: messages of wechat and change of voice, which record without a question.
- Wifi: the wifi stack; the driver reports losses and answers requests.
- Memory is counted where a call gives it back (`CloudRequest`, `AsrRequest`, `StartUp`), not where
  the code leaks by design.

### Not modelled

- *DLNA renderer* (`miniupnp-render`): adapted third-party code, which the firmware does not start.
- *DuerOS client, connagent, speex, cJSON, mbed* and the other vendored libraries: third-party. The
  largest files of the repository are here, among them the formatted output of
  `lightduer_snprintf.c`.
- *Change of voice and direction of sound*: signal processing in libraries without source.
- *Tests of the assembly line, shell and lights*: no state outlives a command; the shell is not
  started, the lights are empty.
- *Ring buffer of the framework* (`app_ring_buffer.cpp`): no code uses it.

The components marked "partly" in `PROJECT.json` say what is missing in their note. The map of
definitions includes the declarations of state (headers and static variables), which the
VARIABLES of the modules stand for.

## What could come next

Compositions: `MediaPlayBuffer` as a refinement of the
bounded queue in `MediaPipeline`, `Recorder` in front of `AsrSession`, and the services of
`StartUp` over `AppBus`.

## Further hazards

`PROJECT.json` lists the hazards the properties are for. These were met on the way as well: faults
that a property excepts by name, behaviour no document calls right or wrong, and smaller ones.

- `baidu_media_play_buffer.cpp:66` (deadlock): One flag and one semaphore serve both threads: both can sleep on it at the same time.
- `asr_service.cpp:657` (partial failure): app_send_message fails after the object was queued: the caller deletes an object that is still in pcm_queue.
- `deepbrain_app.cpp:445` (interleaving): record_sn is incremented by the recorder's thread and set to 0 by the timer's and the service's thread, without a lock.
- `socket_interface.cpp:486` (liveness): sock_write repeats a send that fails, for ever: a reset between connect and handshake takes the thread, wifi events and the exit included.
- `mpush_service.cpp:968` (stale state): server_sock is 0 after memset, which is not INVALID_SOCK: the first mpush_connect or mpush_disconnect closes descriptor 0, which may belong to another task.
- `dcl_mpush_server_list.cpp:176` (partial failure): An answer of the server list without a body counts as success: CONNECTING then tries an empty address until the next wifi event.
- `mpush_service.cpp:749` (ordering): Offline messages are fetched before the connection exists: what is pushed in between, or while RECONNECT goes straight to CONNECTING, is not fetched.
- `mpush_service.cpp:571` (partial failure): A body that comes in later than two seconds is left in the socket and read as heads of messages.
- `wifi_manage.cpp:528` (stale state): MAIN_RECONNECT messages of a loss that was already handled stay in the queue and cut the next connection.
- `wifi_manage.cpp:534` (ordering): A network the driver reports as lost is not announced, unlike one that an airkiss leaves: the others believe in APP_EVENT_WIFI_CONNECTED through the loss.
- `wifi_manage.cpp:630` (stale state): A connection by airkiss does not reset connect_index: the search after a later cancelled airkiss goes on where an old one stopped and may end before the newest network is tried.
- `wifi_manage.cpp:286` (numeric edge): The ring of places 1 to MAX_WIFI_NUM-1: the first place belongs to the factory, the last is followed by 1.
- `baidu_media_play.cpp:409` (interleaving): A resume wakes the player before it sets PLAYING: a player that comes back to line 394 before that pauses again, and nothing wakes it.
- `baidu_media_play.cpp:412` (interleaving): A pause that was asked for while a medium played is written after its end: the player is paused with nothing to play and refuses the start of the next medium.
- `baidu_media_data_manager.cpp:1055` (stale state): A stop between the put of a message and the reset of the flag by the manager is forgotten: the medium plays although it was stopped after it was asked for.
- `baidu_media_data_manager.cpp:1113` (atomicity): The url of what is kept is copied and then cleared without a lock while the manager may free it.
- `baidu_media_data_manager.cpp:1243` (ordering): The failure callback and on_finish ask for the next song from the manager's and the player's own thread, which sets the stop flag of the medium under way.
- `baidu_media_data_manager.cpp:792` (resource bound): One place for messages: a newer one replaces the one that waits, and with it a song that was to be continued.
- `baidu_media_data_manager.cpp:635` (numeric edge): Data that fits one chunk is sent as a first chunk without a last one: the manager waits until somebody stops it, and not even then is the semaphore released.
- `baidu_media_play.cpp:279` (partial failure): The last data of a medium cannot be written: the handler is left without the release, the status stays PLAYING.
- `baidu_media_data_manager.cpp:1341` (stale state): A seek while paused computes the position from the old s_media_seek_position, not from its argument; and the SEEK flag is set after the message was made (1283-1285).
- `baidu_media_manager.cpp:107` (interleaving): rec_start and the play functions check the status and act on it later: a recording may begin while a message waits, whose start is then refused.
- `baidu_media_play.cpp:162` (numeric edge): A chunk whose size is above FRAME_SIZE is not read from the buffer: the next header is read from the middle of its data.
- `app_framework.cpp:448` (protocol sequence): The loop callback runs once more after the callback that handled EXIT, in the same turn.
- `app_framework.cpp:303` (partial failure): A copy for one of the receivers cannot be allocated: the others get theirs and nobody is told.
- `events.cpp:31` (resource bound): The queue has five places and put has no timeout: an event that comes while main's thread is busy is dropped, and with it the start of a recording.
- `events.cpp:53` (interleaving): yt_dcl_stop takes the handlers away from the OTA's thread while an event waits in the queue: the loop calls NULL.
- `yt_key.cpp:148` (stale state): One place for key messages: a press that is followed by its release before the key thread runs (it blocks in callbacks of other keys) is lost, or the release of one key hides another's press.
- `yt_key.cpp:61` (interleaving): The timer's thread reads key_msg while the key thread overwrites it with the next key: the long press is taken for another key's.
- `duer_recorder.cpp:253` (interleaving): The thread that reads frames runs first, sees STARTING and leaves its loop: nothing of the recording is sent.
- `duer_recorder.cpp:285` (interleaving): rb.init of the recording thread while the reader drains the ring of the recording before.
- `deepbrain_app.cpp:170` (partial failure): An answer that cannot be decoded returns without freeing nlp_result.
- `deepbrain_app.cpp:336` (timeout retry): The time-out and the answer both end the question: the answer that comes after the time-out must not be spoken, and each question has one reaction.
- `YTManage.cpp:559` (resource bound): The length that is checked is that of the lock and not of the queue: the queue of songs has no limit.
- `memo_service.cpp:92` (stale state): One place for the memo that fired: another that fires before the service has played the first is forgotten, although it stays valid.
- `memo_service.cpp:176` (interleaving): A full table gives the place of the earliest memo to a new one while cur_evt still points to it: the new text is played at once and its timer is marked invalid.
- `authorize.cpp:121` (partial failure): set_flash_cfg returns a bool, which is tested for being negative: a licence that was not stored counts as stored.
- `baidu_media_play_progress.cpp:168` (interleaving): The timer of a stutter posts its work to another thread: data may have come, and a new medium may have started and run dry, before it runs.
- `lightduer_events.cpp:94` (interleaving): The loop is destroyed while others post: a message behind the last one is accepted and never run.
- `vbat.cpp:30` (numeric edge): One low reading, or a low mean now and then, must not shut the toy down before the sixth.
- Media data: an ID3 tag that ends in the last piece of a medium gives a START without a STOP, and
  the manager waits for ever; a stop while a tag is skipped gives neither; a tag is not recognised
  in a first piece of up to 10 bytes; a WAV is refused when its first piece is below 44 bytes;
  what fails before its first byte leaves a surplus token for the next wait; the count of written
  bytes has a repeated header in it and a skipped tag not; a changed voice sends its last piece
  twice, and one below a frame has its front cut by what is left of the tag of the medium before; a
  file that was cut at its end gets no STOP when it goes on.
- M4A: a seek to between header and first sample, or behind the last one, goes to sample -1 or 0;
  a header that ends in the file's last piece leaves the song unplayed; a song that is cut at its
  very end goes on with an empty piece, which is an error.
- Progress: a short wait loses the time before it; a medium that is stopped while it stutters is
  not told so and its stutter is counted as played.
- Event loop: a destruction that finds the queue full leaves the loop running for ever; the object
  is deleted 10 ms later while a poster may still be in it.
- HTTP: an answer below 100 bytes waits 60 s and fails; thirty short reads count as time-outs;
  more than thirty redirections give the page of the last one as the medium; an answer with neither
  length nor chunks is a success with nothing in it; the buffer of chunks leaks with each resume.
- Update: a server that closes before it says anything makes an empty image a success; what is
  beyond the area is dropped without an error; the socket is closed twice when the flash refuses
  a page, and not at all when it refuses the partition.
- Start-up: the result of `thread.start` is ignored; wifi and push do not check their locks; a
  memo table that was freed is still used by the speech service.
- Push: a body that is no JSON does the push before again; an offline command of type "hylink" puts
  its url into the text; volume_down in bluetooth turns it up.
- Codec: a stop between PLAYING and `start_play` leaves the codec playing; a pause after the end
  puts the player to sleep. Volume: the codec is deaf to it while it ends or records.
- Toy: a timer that is left over resets the number of the next recording; a number that comes
  again lets an earlier answer in, so that a question has two reactions; the count of silent
  questions is never reset by an answer that was heard; a list of no songs plays an empty url.
- Memos: one asked for before the table was loaded overwrites the flash; a write that fails leaves
  table and flash different; the delay overflows in 32 bits.
- Battery: low means are counted over the whole life; at the start one reading decides.
- Discovery: before the first socket, descriptor 0 is used and closed.
