# TLA+ verification of the HB vehicle terminal firmware

The repository is a checkout of RT-Thread with the firmware of a vehicle
recorder and GPS terminal for the STM32F407 in
`src/bsp/stm32f407vgt6_RecDrv/app_712`. The terminal speaks JT/T 808 to a
centre over GPRS. This directory holds TLA+ models of the parts of that
firmware whose correctness depends on the order of events, TLC configurations
that check them on small instances, and TLAPS proofs for every instance. Paths
below are relative to `app_712` unless they begin with `src/`.

## 1. Inventory

### 1.1 How the firmware runs

Threads and their priorities come from `rtconfig.h` (168-173): gsm (13), app808
(14), 485 (15), hmi (16), gps (17) and demo (18); a lower number preempts.
Periodic timers (`timeout_app` every 100 ms, `timeout_gsm` every second,
`timeout_485` every 100 ms) are hard timers and run in the tick interrupt, that
is, between any two instructions of any thread. The threads and the timers
share global structures (`MediaObj`, `Photo_sdState`, `CameraState`,
`ReadCycle_status`, `cycle_read` ...) with no lock. A round of the app808 loop
takes about 320 ms, one of the gsm loop about 200 ms and 100 ms more per send.

### 1.2 Components

| component | state | operations | talks to |
|---|---|---|---|
| cyclic position store (`dataflash/Flash_Oper.c`, `protocol_808/Device_808.c`) | ring of 16384 flash slots, `cycle_write`, `cycle_read`, `ReadCycle_status`, abnormal counter | save a fix, read and post one, move the read pointer on send-ok, rearm after 5 s | pointer log, app808 loop, gsm thread |
| pointer log (`dataflash/DF_Function.c`) | a flash sector with 448 flags and 448 entries | append a pair of pointers, read the last | every flash ring |
| multimedia upload (`protocol_808/protocol_808.c`, `app_808.c`) | `MediaObj`, `Photo_sdState`, `Sound_sdState` | start, announce (0x0800), packet (0x0801), list and end (0x8800), three timers | camera, recorder, menu, centre |
| camera (`U4_485/App_485.c`, `Device_485.c`) | `CameraState`, `Camera_Number`, picture areas | take, fetch page, store page, hand over, supervise and retry | centre (0x8801), door, console, upload |
| send and receive mailboxes (`gsm/App_gsm.c`, `protocol_808/app_808.c`) | `Send_DataFlag`, `GPRS_info`, `Receive_DataFlag`, `GSM_HEX`, `Send_Rdy4ok` | post, take, confirm | app808 and gsm threads, cyclic store |
| data link (`gsm/Device_gsm.c`, `App_gsm.c`) | `DataDial`, `DataLink_EndFlag`, modem state | power on, dial, connect, close, reset at 300 s | session |
| session (`protocol_808/app_808.c`) | `DEV_regist`, `DEV_Login` | register, log in, retry, close after three tries | data link |
| 808 codec (`protocol_808/protocol_808.c`, `gsm/Device_gsm.c`) | `UDP_HEX_Rx`, `UDP_DecodeHex_Len` | hex text, escape, check byte | mailboxes |
| 808 dispatcher and sender (`protocol_808/protocol_808.c`) | `SD_ACKflag`, `Centre_FloatID` and some ten flags | handle a frame, answer, redial, reset | everything |
| voice recorder (`gsm/Device_gsm.c`) | `VocREC`, `DF_LOCK`, voice area | record, fetch, store, delete | upload, flash |
| text to speech (`gsm/Device_gsm.c`) | `TTS_Var` | queue one text, play | gsm thread |
| other flash rings and parameters (`Flash_Oper.c`, `DF_Oper.c`, `Sys_config.c`) | pointers and areas per record type, `SysConf_struct`, `JT808Conf_struct` | save, read, restore | pointer log |
| power monitor (`src/bsp/stm32f407vgt6_RecDrv/applications/application.c`) | supply state | switch to battery, shut down | all |
| GPS, HMI and LCD menus, printer, CAN, IC card, RTC, shake sensor, USB | peripheral state | parse, show, print | app808 |
| RT-Thread kernel and libraries | vendored | | |

### 1.3 What is hard, and what makes each part correct

* *Cyclic store.* The app808 thread writes and posts; the gsm thread, which
  preempts it, moves the read pointer; a timer rearms the reader; power fails
  anywhere. A record that was stored must stay ahead of the reader until it was
  posted, and must not be erased as long as there is room.
* *Pointer log.* A write is an optional erase, a flag and an entry; power may
  fail between them. A read must return the last pair written or nothing, never
  an older pair; only a log that a cut left without any flag is read elsewhere.
* *Upload.* Five writers in three contexts use one `MediaObj`. Content and
  numbers of a packet must belong together, all packets must go out before the
  upload waits, and an upload must end, since `photo_sending` locks the camera.
* *Camera.* The checks that a camera is free and the start of a take are
  separate, and the door handler is an interrupt. A picture handed over must be
  one whole frame, and a take must end also when the camera is silent.
* *Link and session.* The dial, the lines of the modem, the close, the watch and
  the login timers are handled in three contexts and share flags. The terminal
  must get back online after whatever happens, must not be reset by the watch
  while the connection works, and must not take an old login for a new one.
* *Mailboxes.* One buffer and one flag in each direction, no lock, and nobody
  waits for a free mailbox. A packet must not be overwritten before the gsm
  thread has taken it, a frame must not be handled twice or out of order, and a
  stored record must only be passed when it was sent.
* *Codec.* Decoding happens in place, over what earlier lines left behind, and
  the modem cuts the stream where it likes.
* *Voice recorder.* A timer interrupt, two threads and the modem take turns; a
  page is two chunks, and the header is written last. A file with a header must
  be complete, an upload must not lose its file, and the flash must be unlocked.
* *Answers.* A handler sets a flag and the answer is built rounds later, from
  globals that the next frame has overwritten. A command must be answered, in
  order and with a number that was asked, nothing may wait for ever, and a new
  address must be followed by a new dial.

`PROJECT.json` lists the hazards with their lines and the properties that cover
them.

## 2. Modules

| module | models | role |
|---|---|---|
| `CycleStore` | the cyclic store and both its users | specification, uses `PointerRegister` |
| `CycleStore_proofs` | | proofs about it |
| `PointerRegister` | what the pointer log promises | abstract specification |
| `PointerLog` | `DF_Write_RecordAdd`, `DF_Read_RecordAdd` | specification, implements `PointerRegister` |
| `PointerLog_proofs` | | proofs about it, refinement included |
| `MediaUpload` | `MediaObj` and everything that writes it | specification |
| `Camera` | takes, composed with `MediaUpload` (which it extends) | specification |
| `Camera_proofs` | | proofs about `MediaUpload`, about `Camera`, and about the uploads in the composition |
| `Session` | dial, close, watch, registration and login, calls | specification |
| `Session_proofs` | | proofs about it |
| `SendPath` | both mailboxes, the loops of both threads in ticks, `%IPSENDX` | specification |
| `SendPath_proofs` | | proofs about it |
| `Codec808` | hex conversion, escaping, check byte, decoding in place | specification |
| `Codec808_proofs` | | proofs about it |
| `VoiceRecord` | `VocREC`, the voice area, `DF_LOCK`, the recorder of the modem | specification |
| `VoiceRecord_proofs` | | proofs about it |
| `Replies` | `TCP_RX_Process` and `Do_SendGPSReport_GPRS`: who is owed what | specification |
| `Replies_proofs` | | proofs about it |
| `MC*` | | symmetry sets, constraints and checks of operators for TLC |

`map` in `PROJECT.json` gives the lines each definition stands for. Variables
have the names of the code where TLA+ allows it.

### 2.1 CycleStore

`flash` is the ring of slots; a slot holds a fix, `Erased` (0xFF) or `Garbage`
(a record whose check byte is wrong). A pointer of 0xFFFFFFFF, or any other one
that is not of the ring, is `Outside`; moved back, it stays outside or comes to
the last slot (`Back`). What is programmed or read through it lies in the flash
of others, and what that does there is not modelled.
`appPc` is the place of the app808 thread in `Save_GPS` or between the posting
of a record and the assignments that follow it: the places where the gsm thread
or a power cut makes a difference. The actions are

* `Save_GPS`, `SaveCycleGPS_Erase`, `SaveCycleGPS_Good` or `SaveCycleGPS_Bad`,
  `LogPointers`: one save, with its second attempt;
* `SendCurrent`, `SendStored` + `MarkSent`, `SkipStored`: the branches of
  `Do_SendGPSReport_GPRS` and `Stuff_Normal_Data_0200H`;
* `SendOk` (gsm thread), `CHK_ReadCycle_status` and `AckTimer`;
* `PositionSD_Enable`, `LinkChange`, `LockFlash`: the surroundings;
* `Restart`: a power cut at any point, what it leaves in the flash and in the
  log, `Api_Read_var_rd_wr` and `Get_recent_saveInfo`.

The first two of the three history variables say which fixes were stored (with
the pointers logged) and which were posted. `derailed` becomes true when the
pointers lose the records for a reason the code does not handle: the writer
moves onto the reader, which makes a full ring look empty; a power cut hits the
pointer log while it is written; the log is read from outside (`logWild`);
`Get_recent_saveInfo` moves the read pointer
back onto the write pointer. Sending a stored record is also barred during a
remote update and while a file is uploaded; in the model the sender may simply
wait, which covers it. `Trans_GNSS_Flag` stands for the two settings under
which positions are reported without the store while logged in.

### 2.2 PointerLog and PointerRegister

`used` are the flags and `entry` the entries of the sector (448 of each in the
build, `Entries` in the model). A write takes the steps `DF_Write_RecordAdd`,
`EraseBlock` when all flags are used, `WriteFlag`, `WriteEntry`; `PowerCut` may
come between them. An erase cut short is taken as either done or not done.
When no flag is set, which a cut between `EraseBlock` and `WriteFlag` leaves
behind, the 16 bit offset of the reader wraps from 0 to 0xFFFF and the read is of
a page far outside the log (`DF_Function.c:263-270`): `beyond` is what stands
there, any pair or none, and it belongs to others, who may change it
(`OtherData`).

`PointerRegister` is the promise: a register with a write in progress, in which
the stored value may vanish and a write may be abandoned. It is `wild` when the
log was emptied for a write that a cut ended: until the next write completes a
read returns anything, and what it returns may change (`Stray`). So the promise
that no older pair comes back is one for a register that is not wild. The
refinement maps the register to what `DF_Read_RecordAdd` would return, to the
argument of the write under way, and to whether the first flag is clear.
`CycleStore` uses the promise: a cut in `LogPointers` leaves the old pair, all
ones, or any pair with the register wild. `UsesRegister` says so as a second
refinement of `PointerRegister`, in which the stored value is `logged`, the write
under way is the pair `Api_cycle_write` took for the log, the lost value is the
pair of all ones that a blank entry reads as, and `wild` is `logWild`.

### 2.3 MediaUpload

`photo_sending`, `SD_flag`, `SD_packetNum` and `Total_packetNum` are functions
of the medium and stand for `Photo_sdState` and `Sound_sdState`; a video is
never started by any code, so its branches are left out. Sizes are counted in
packets of 512 bytes. `stuff` is the packet the app808 thread is putting
together: timers (the voice recorder runs in one) may come between `Protocol_Head`, which
takes the numbers, and the rest of `Stuff_MultiMedia_Data_0801H`, which takes
the content. The menu, the 485 thread and handlers of received messages run
only when it is not (`~Stuffing`). Counters that only delay a step (the packet
timer of two seconds or so, the 51 second exception) are dropped; what remains
of them is that the exception can only occur when the packet timer does not
run, since that timer resets it. Lists in 0x8800 name packets that exist.

### 2.4 Camera

The take and fetch commands, the page in the receive buffer, the place of the
485 thread between storing a page, ending the take and starting the upload, and
the areas of the flash, in which a page programmed twice without an erase is
`Garbled`. `CentreTake` and `CentreStart` split 0x8801 where an interrupt may
come. `Camra_Take_Exception` is the supervision in interrupt context, with the
power cycle of the camera at 3 and 4 and the retry at 6. A timing assumption is
made: the 485 thread comes round in less than the three seconds after which the
supervision acts (`ThreadHasRun`). Channels are numbered from 1; 0 stands for no
channel (`CameraAssumption`). `MultiTake_*` is never started and left out.

### 2.5 Session

The variables are the fields of `DataDial`, `DEV_regist` and `DEV_Login` and the
flags of the link. Three contexts act on them:

* the gsm thread sends the command of the dial step (`DialCommand`, `DialOver`)
  and handles a line of the modem: one action per kind of line (`LineOk`,
  `LineClosed`, `LineDnsr` ...), each ending in the switch over `Dial_step`
  (`Dispatch`) unless the code returns before it. `CONNECT` is split
  (`LineConnect`, `ConnectDone`) so that interrupts may come in between;
* timer interrupts: `timeout_gsm` (`End_Datalink`, then the watch of the dial),
  `RequestTimer` (`Device_RegisterTimer`, `Device_LoginTimer`), requests to
  close or to reset;
* the app808 thread: requests and answers, split between the check of
  `DataLink_Status` and `DataLinkOK_Process`. It does not run while the gsm
  thread is in the middle of a line.

`tcp` is whether the connection really exists and `authed` whether the centre
has accepted a login on it; neither is known to the program. `faults` counts
what the modem, the network, the centre and the user do beyond what a
connection needs: an answer that does not come, an error, a close, a call, a
menu command. Seconds are not modelled. `start_dial_counter` counts from the
close request at 293 s, `late` is the tick at which the watch gets there.

Assumptions: before the SIM is read the errors of the modem do not add up to a
close request (`SimRead`; otherwise the set-up of the modem would start the dial
again on a live connection); `CONNECT` comes after the answers to the name
queries that were sent before the connect command; a dial whose commands are all
answered ends before 293 s; the app808 thread is not held up between two ticks
of a second at `DataLinkOK_Process`. Uploads, which bar a registration while the
terminal takes itself for logged in, are not part of this model.

### 2.6 SendPath

The gsm thread (`gsmPc`: waits for a line, looks at `Send_DataFlag`, has handed
the packet over, waits at the end of its round) and the app808 thread (`appPc`:
copies a frame, handles it, builds a packet, marks a record, waits twice), each
with the ticks it still waits. `AppRuns` says that the app808 thread only runs
while the gsm thread, of higher priority, waits. A packet is the number of a
stored record or `Other`; a frame is its number; `Torn` is a mixture of two.
The ring of `CycleStore` is here only its two pointers and the two flags, since
`UnsentInWindow` has said what happens in the flash: this module says what
happens between the posting of a record and the modem. `GSM_RxHandler` drops a
line when the queue is full. A line is a frame, the report that a packet was sent,
or an error of a connection (`ErrorLine`). After the last the gsm thread may
close the connection and wait another 10 ticks before it looks at
`Send_DataFlag` (`gsmPc = "closing"`, `ErrorDelay`; `Device_gsm.c:1894`, `1907`),
namely when the dial went through a name query, which `Dial_jump_State` still
says long after the link is up.

`TimingAssumption` is what the mailbox rests on: the waits of the app808 loop
(10 and 22 ticks) are at least those of an ordinary round of the gsm thread, one
without a send and without such an error (20 and 5 ticks), and what it computes
(`GsmBusy`, up to 7 ticks, 70 ms). In a round with an error the waits alone are
35 ticks, three more than those of the app808 loop: the app808 thread may then
build a packet over one that nobody has read, and the gsm thread, which wakes in
the middle of that, may send a mixture of the two. `NoOverwrite` therefore exempts
the rounds in which the gsm thread closes a connection, and the module takes
those steps. That other rounds compute no more than `GsmBusy` is an assumption on
the build: text to speech and commands of the console may take longer.
A copy that is torn is taken to be rejected by its check byte. The timer of 5 s
(`AckTimeout`) may fire at any time. The number of the link in a packet is left
out, because the gsm thread ignores it.

### 2.7 Codec808

Each round of a loop is a step: the check byte (`SumByte`), escaping
(`Protocol_808_Encode`), unescaping (`Protocol_808_Decode`, over a buffer that
earlier lines have used) and the sum over what was received (`SumReceived`). So
what a loop computes is a matter of invariants, for TLC and for the proofs, and
what can go wrong in the decoder, a read of a byte that is overwritten or stale,
shows at the round in which it happens. The same steps stand for the terminal's
frames and for those of the centre, which must build them alike. The head of a
message, which neither side of the codec looks at, is not told apart from its
content.

`wire` is the stream of all frames and `posted` the end of the last complete
one. The modem cuts the stream into lines where it likes: `WholeFrames` if the
line begins at a head and ends at a tail, `Fragment` otherwise. A line has at
most `MaxLine` bytes: the lines in `mq_GSM` have at most 1396 characters, less
than 700 bytes, and `UDP_HEX_Rx` has 1024 (`CodecAssumption`).

Auxiliary variables, which no guard of the code depends on: `sent` records for
each byte before escaping its role in the frame, its place in the stream and the
running sum; `first` and `last` are the ends of a line of whole frames in `sent`;
`Gfcs` keeps the earlier values of the check byte, of which the code has the
last. The exclusive or is written out bit by bit (`ByteXor`); `MCCodec808`
compares it with the library's for all pairs of bytes.

### 2.8 VoiceRecord

The fields of `VocREC`; `startPc` is the place of the app808 thread in
`VOC_REC_Start`, whose four assignments may be interrupted, and `getPc` that of
the gsm thread between the last page, the header and the start of the upload.
`VOC_REC_process` runs in the timer interrupt. A chunk is 256 bytes, half a
page, and is named by its file and its number, so that a chunk in the wrong
place shows. A chunk decodes to the length the modem announced: the code only prints a
message when it does not and goes on with the decoded length
(`Device_gsm.c:302-305`), which the model does not show. `cmds` and `lines` are
what the modem has been told and has
answered. Faults are a restart of the modem, which loses both, and a power cut.
`orphaned` is set when `Sound_send_end` declares the recorder idle in the middle
of its work, `lost` when an answer of the modem was lost.

Assumptions about the modem: it answers in the order of the commands, records
one file at a time and refuses a second `RECSTART`, answers for an unknown file
without the line that is waited for, sends `%RECSTOP` after `VOC_REC_Start` has
returned (a recording takes at least seconds), and a recording has at least one
chunk.

### 2.9 Replies

A frame is its number in the order in which frames are handled, which is what
`SendPath` shows of them. One round of the app808 thread is a frame (or none)
and a packet (or none). The handlers are grouped by what they do to the flags:
`Command` stands for all commands whose handler ends in the same assignments
(0x8202, 0x8300, 0x8301, 0x8303, 0x8304, 0x8401, 0x8600 to 0x8607, 0x8801,
0x8803 to 0x8805, 0x8900, 0x8A00, 0xFF01, 0xFF03), `SetParameters`,
`SetAddress` and `Control` for 0x8103 and 0x8105, `Ask` for 0x8302, `Query` for
0x8104, 0x8201, 0x8500 and 0x8802, `Collect` for 0x8700, and `NoCommand` for
the answers of the centre and for frames that are refused. `CallBack` is 0x8400
as it is carried out, `CallRefused` a 0x8400 without a body or of another kind,
which the handler leaves without an answer (`protocol_808.c:5801-5809`). `Rank`
is the order in which `Do_SendGPSReport_GPRS` looks at the flags. While the
terminal sleeps (`SleepState`) a heartbeat waits; the one round that
`SleepConfigFlag` takes then sends nothing and is left out. The driver answers a question through `ShowQuestion` and
`QuestionKey` (Menu_3_1). Uploads, calls, sleeps, lost links and power cuts come
from outside, and nothing is assumed of their end. `forgotten` is set when a plain
command takes the place of a redial, until the next redial is asked for or a
connection is made. The terminal is registered, and a frame that is refused has an
intact head.

`SetAddress` stands for every parameter of 0x8103 that asks for a new dial.
`latest` is the last such frame and `dialled` the last one before the last
connection. To which server a dial leads is left out: the code asks for the name
stored first and uses the numeric address when it does not resolve, and then the
auxiliary server, so that it is not always the address set last (section 5).

## 3. Runs

| run | bounds | shows |
|---|---|---|
| `cycle_store` | 4 slots in 2 sectors, 3 fixes, limits of 1 | `UnsentInWindow`, `LostOnlyWhenFullOrFailing`, `UsesRegister` |
| `pointer_log` | 4 entries, 3 values, any bytes outside the log | `ReadsLast`, `NeverStale`, refinement of `PointerRegister` |
| `media_voice` | files of up to 2 packets, empty ones too, voice, built-in sound and menu | `NoMixedPackets` |
| `session` | two dial steps before the name query, limits of 1, 3 faults | `LoggedInHere`, `WatchOffWhileLinked`, `ComesBack` |
| `camera` | two cameras, pictures of two pages | `PictureWhole` |
| `camera_free` | one camera, console | `TakeSupervised`, `CameraFreeAgain`, and of its uploads `PhotoBusyMeansTransfer`, `CompleteBeforeWait` |
| `send_path` | units of 50 ms, 2 lines, 1 record, 2 frames, faults and errors of the connection | `NoOverwrite`, `HandledOnceInOrder` |
| `codec` | 2 messages of 1 or 2 bytes out of 02, 7d, 7e; every way to cut the frames into lines | `FlagsOnlyAtEnds`, `DecodeInPlace`, `FirstFrameHandled` |
| `voice` | 2 recordings of up to 4 chunks, faults | `VoiceFileWhole`, `VoiceKept`, `LockReleased` |
| `replies` | 2 frames, 1 packet of its own (login, heartbeat or announcement), 2 faults (uploads, sleeps, lost links, power cuts) | `CommandAnswered`, `OwnNumber`, `AnswersInOrder`, `EverythingSent`, `RedialsForAddress` |

Why the bounds are enough: a ring of two sectors has every relation of the two
pointers (same sector, neighbouring sectors, wrapped), and three fixes let the
writer lap a sector while one record is unsent. Four log entries are filled and
erased several times. Two packets distinguish the first and the last one and
let a list name either or both. Two cameras are enough for a channel to be
confused with another. In `session` every counter still reaches its limit and one
below it; three faults are enough for a close, a second close or error during
the redial and a call or a menu command. In `send_path` the waits of the code
are rounded down to units of 50 ms (5, 10, 20 and 22 ticks are 1, 2, 4 and 4;
`ErrorDelay`, 10 ticks, is 2) and a round of the gsm thread may compute for 1, so that the assumption is tight;
two frames are enough for one to arrive while the other is copied or handled.
Four chunks are two pages, three an odd last half, and the second recording
meets what the first left in the buffer. 7d and 7e are the bytes that
escaping treats differently and 02 is one it produces; a check byte can be 7d, 7e,
or one that needs no escaping (7c, 7f, 0), and 7d 02 occurs both as content and as
an escape. A line holds two whole frames of the longest kind. Two frames let a command arrive before the first is answered. `NotDerailed` stops the search at a state in which the
pointers have already lost the records; `ChangesAfterSave` lets the lock of the
flash and the login change only outside a save, during which nothing looks at
either; `FewSoundPackets` bounds a counter that
an upload which lost its turn goes on counting.

Runs that end in a violation, each against a line of the code:

| run | the line | what happens |
|---|---|---|
| `session_stranded` | `Device_gsm.h:79`, "enables preparing to dial", `Device_gsm.c:1345`, "dial again" | after "IPCLOSE" only `Pre_Dial_flag` is set, which nothing reads; the terminal stays offline until the eight hour reset. A close during a call does the same |
| `send_lost` | `Device_808.c:645`, "decides on a successful send", `:647`, "move on only when the answer was received" | with no fault of the link or the modem: the gsm thread clears `Send_DataFlag` only after the wait that follows the output of a packet (`App_gsm.c:333`), which drops a stored record posted during that wait; the confirmation of the other packet then moves the read pointer past the record, which never reached the modem |

### Fairness

Weak fairness is assumed for the steps the firmware takes by itself: threads
come round as long as nothing of higher priority spins, and every loop that is
modelled waits; the timers are periodic. Nothing is assumed of the centre, the
camera, the door, the console or the link. `CameraFreeAgain` holds under the
condition that the link stays up from some point on and that the centre does
not have a new command pending for ever; without a link an upload waits, which
is what the code does. The step of the 485 thread that starts an upload is
strongly fair: the thread has the lower priority and is only enabled between
the packets of the app808 thread, but the loop of that thread sleeps in every
round.

`ComesBack` needs more: that the modem, the network and the centre answer once
the faults have run out, since without them there is nothing to connect to. The
end of a call and its start are strongly fair: the line that ends a call waits
in the queue, and the loop of the app808 thread comes round, while other lines
and interrupts come and go. The property excludes the states in which the
terminal is stranded, which `session_stranded` shows to be reachable.

`LockReleased` needs that the modem carries out its commands and ends a
recording, and says so: it speaks of behaviours in which no answer was lost.
`Replies` has only the rounds of the app808 thread and the timers as fair
(`NoFrame`, `Do_SendGPSReport_GPRS`, `End_Datalink`, `App808_tick_counter`). Uploads,
calls and dials need not end: some never do (section 5, and `session_stranded`
for the link). `EverythingSent` and `RedialsForAddress` are therefore conditional:
they speak of behaviours in which the terminal is, again and again, on line with
no upload and no call (`Unhindered`), and show that nothing within the dispatcher
then makes a packet or a redial wait for ever. Frames, keys and the terminal's own
packets are not fair either.

## 4. Proofs

`CycleStore_proofs` (assumptions: `RingAssumption`, at least two slots and
sectors of at least one; `ContentAssumption`, the erased and the garbled content
are not records):

* `TypeCorrect`: `Spec => []TypeOK`, pointers from outside the ring included. Not
  inductive alone: `SavingIsNew` is needed for what is programmed.
* `NoRecordLeftBehind`: `Spec => []UnsentInWindow`, from the inductive invariant
  `IInv`. A send-ok moves the read pointer whatever it was for, so the invariant
  says that the slot at the read pointer is not unsent when
  `ReadCycle_status` is `SdOver` (`ReaderArmed`); the restart goes back to the
  logged pointers, so the window of those also holds every unsent record
  (`UnsentBetween(logged)`); between the programming of a record and the log
  the gsm thread may move the read pointer, so the arguments of the log have a
  window of their own (`LogInProgress`); and a record becomes "stored" only
  with the log, so it must be known where it lies until then (`SavingIsNew`).
* `RecordsLostOnlyWhenFull`: `Spec => LostOnlyWhenFullOrFailing`, an action
  property, from the same `IInv`. Only an erase, the programming of the slot at
  the write pointer and a power cut in either take something from the flash
  (`LossStep`). The write pointer stands on no unsent record (`HeadNotUnsent`),
  and an erase comes, short of the limit of failed writes, only at the first
  slot of a sector, so an unsent record in that sector lies ahead of the writer
  in the window, less than a sector away (`SectorBound`, `UnsentAhead`).
* `StoreUsesRegister`: `Spec => UsesRegister`, from `IInv` and that the pair being
  logged is never that of a blank entry. With `LogImplementsRegister` below it
  closes the gap between the two models of the pointer log, including the cut after
  which the log is read from outside.

`PointerLog_proofs` (no assumption but at least one entry and that `Blank` is no
value): `LogTypes`, `LogReadsLast`, `LogNeverStale` and the refinement
`LogImplementsRegister`. The inductive invariant says that the flags form a
prefix, that entries behind it are blank, and where in the write the last entry
stands. `LogNeverStale` is about logs whose first flag is set: the last pair or
nothing. In the refinement the others are the wild register, so that what is
proved of the store holds for whatever bytes are read.

`Camera_proofs`, part 1, about `MediaUpload` (assumption: `UploadAssumption`, a
bound of at least one packet on the size of a file). The steps are those of `UploadStep`, in which a
picture may start at any time: that covers `Spec`, where it starts when the
camera is free, and the composition with `Camera`.

* `UploadTypeCorrect`: `Spec => []TypeOK`.
* `PacketsNotMixed`: `Spec => NoMixedPackets`, with voice files, the built-in
  sound and the menu. A packet under way belongs to the file `MediaObj` works on,
  or nothing of that file is sent any more (`Own`); that an announcement keeps
  this when it changes over needs that no packet is due while one waits
  (`NotYet`).
* `PicturesComplete` and `PictureBusy`: `CompleteBeforeWait` and
  `PhotoBusyMeansTransfer` where no voice files are uploaded (`~VoiceUploads`).
  The condition is needed: a sound that starts takes `MediaObj` away from a
  picture that was not announced (section 5). While packets are sent in order,
  those before the next one have gone out, and the one under way is the next
  (`InOrder`), also when the exception ends the upload in the middle of a packet
  (`Going`).

`Camera_proofs`, part 2, about `Camera` (assumption: `CameraAssumption`, a camera 1
and at least one page, no channel 0):

* `CamTypeCorrect` and `TakeIsSupervised`: `CamSpec => []CamTypeOK` and
  `CamSpec => []TakeSupervised`, with the console and every upload, from `CamInv`.
  Its part `Flow` says where a take is: nothing is on the bus without a take
  (`Idle`) or before its command was sent (`Quiet`), a take that the door starts
  during a hand-over waits (`HandOver`), the supervision cycles the power only
  when the 485 thread has nothing to do (`Late`), the command on the bus is that
  of the take (`Asked`), and the page in the buffer is the one whose place in the
  flash is next (`First`, `More`, `Stored`).
* `PicturesWhole`: `CamSpec => []PictureWhole` without the console and without
  channel 4. `Content` adds that the pages so far lie in the area of the channel
  in order and the rest of it is erased. Both conditions are needed: the console
  changes the camera in the middle of a take, and for channel 4 the area of
  channel 3 is erased (section 5).
* `CamPacketsNotMixed`, `CamPicturesComplete`, `CamPictureBusy`: the results of
  part 1 hold of the composition, since every step of `Camera` is a
  step of `UploadStep` or leaves the upload alone (`CamStepIsUploadStep`).

`Session_proofs` (assumption: `SessionAssumption`, that the watch resets the
terminal before the close it requested would end in a new dial):

* `LoginBelongsToLink`: `Spec => []LoggedInHere`. The inductive invariant
  `LoggedInInv` drops the condition that the terminal is online, because
  `DataLink_Online` can go off and on again without a new connection (a close
  followed by a late `DataLinkOK_Process`). A new connection comes with
  `CONNECT`, which asks for a login if the terminal is registered; if it is not,
  the old login counts only after a registration, which asks for one, too.
* `NoResetWhileLinked`: `Spec => []WatchOffWhileLinked`, from `WatchInv`. A
  connection that is online, or about to be marked so, has no dial under way and
  no answer to a name query outstanding, which could start one (`LinkedQuiet`);
  when `CONNECT` was read the set-up of the modem is over (`ConnectReady`);
  until then nothing is dialled (`NotUp`); and before the SIM is read a close
  comes from the watch alone, whose reset is earlier than the redial
  (`WatchFirst`).

* `SessionTypes`: `Spec => []TypeOK`. The counters are bounded because the code
  acts on each of them before it counts on: the proof goes along the helpers
  that the handlers of the lines share (`Dispatch`, `CountErrors`).

`SendPath_proofs` (assumption: `TimingAssumption`, see 2.6):

* `PacketNotOverwritten`: `Spec => []NoOverwrite`, from `TimeInv`. While a packet
  is in the mailbox and the gsm thread has not taken it, the time until that
  thread looks at the flag (`GsmLeft`) is at most the time until the app808
  thread builds the next packet (`AppLeft`). The theorem holds with errors of the
  connection at any time and any `ErrorDelay`, and leaves out exactly the rounds in
  which the gsm thread waits after closing a connection; a round after such a
  round is an ordinary one again.
* `FramesHandledOnce`: `Spec => []HandledOnceInOrder`, from `FrameInv`: while the
  receive flag is set and the frame has not been handled, the buffer holds a
  frame later than all handled ones, and so does the copy.
* `MailTypes`: `Spec => []TypeOK`. That the read pointer does not pass the write
  pointer needs `ReaderArmed`: while a confirmation would move it, there is a
  record to pass.

`VoiceRecord_proofs` (assumption: `VoiceAssumption`, at least one chunk):
`VoiceTypes`, `VoiceFileComplete` and `VoiceFileKept`. The invariant holds until
the recorder is orphaned. At most one command is with the modem, its answer
belongs to the state the recorder is in (`OneAtATime`, `ForThisState`), the
threads and the state agree (`Steps`), so that each chunk that arrives is the
next one of this file; the pages already written and the half page hold the
chunks up to `file_read` (`Collected`), and the header follows the last
(`Whole`); a recording can not start while the file is uploaded because the
recorder counts as running until `Sound_send_end` (`Kept`).

`Replies_proofs` (assumption: `RepliesAssumption`): `RepliesTypes`,
`LastCommandAnswered`, `AnswersNeverRepeat` and `OwnNumbersNamed`. While the flag
of the common answer is set, the last frame handled has not been named by an
answer and is not older than the last command that was carried out (`Fresh`; a
0x8400 that is refused is none); the numbers kept for a
question and a collection are those of a question and of a collection, in the
RAM and in the flash (`OwnKept`). The counters of frames make the first of these
inductive (`Counted`).

`Codec808_proofs` (assumption: `CodecAssumption`, that messages consist of bytes
and that the longest line is shorter than the buffer), for messages of any bytes
and any length up to the arbitrary `MaxMessage`, any number of frames and every
way to cut them into lines:

* `CodecInvariant`: `Spec => []CodecInv`, the inductive invariant; its parts are
  invariants of the loops. `Layout` says where each byte that was sent lies in the
  stream, in one place or two, that the next one follows it and that there is
  nothing else. `Building` says that the check byte of the message is the sum the
  frame arrives at. `Summing` follows the sum on through the flags: it is 0 behind
  a check byte, 7e behind the flag that ends the frame, and 0 again behind the
  flag that begins the next one; therefore the check byte of the last frame in a
  line is right for all the frames in it together. `Unescaped` says that what was
  unescaped is what was sent, that the next byte to be read is the place of the
  next byte in the stream, and that the rest of the line is still as it came;
  `Summed` that the sum over the buffer is the one recorded with the byte reached.
* `CodecTypes`, `FlagsOnlyMark`, `UnescapesInPlace` and `WholeFramesHandled`:
  `TypeOK`, `FlagsOnlyAtEnds`, `DecodeInPlace` and `FirstFrameHandled`, each from
  `CodecInv`. The bounds of the buffer hold for fragments as well; that the look
  ahead stays in the line holds for whole frames, because the last byte of the
  line is a flag, which is never the first half of an escape.
* Of the operators: a byte cancels itself (`XorSame`), a byte survives its two
  hexadecimal digits (`HexByte`), and a line its way through the modem's text
  (`HexRoundTrip`).

Only model-checked: all liveness (`CameraFreeAgain`, `ComesBack`, `LockReleased`,
`EverythingSent`, `RedialsForAddress`), which is out of the prover's reach, and that
`ByteXor` is the library's exclusive or, whose definition the prover cannot use.
Every other property of the passing runs is proved, `PictureWhole`,
`CompleteBeforeWait` and `PhotoBusyMeansTransfer` under the conditions given
above.

## 5. What is not modelled

See `components` in `PROJECT.json`. Peripheral drivers, display and printing
have no state the modelled parts depend on. Text to speech is one text slot; its
effect on the rest is the time a round of the gsm thread takes. The parameter
files and the other flash areas are written by straight-line copies with no
protocol that could be checked; what a power cut does to them is listed under
hazards. The bodies of messages are parsed and formatted field by field and are
left out. The kernel and the libraries are
third-party. Flash operations of different users of the chip are taken as
atomic with respect to each other; `JT808_Related_Save_Process` writes the flash
from the timer interrupt, which breaks this in the build (listed as a hazard).
The erase of the pointer-log sector is taken as atomic with respect to a power
cut, while a cut in the erase of a sector of the ring leaves it as garbage.

Weaknesses met on the way for which the code makes no promise to check against:

* 0x8803 uploads the built-in sound (11 packets) but packets are refused beyond
  the size of the last voice file; the packet timer keeps running, the upload
  never ends, and other reports wait as long as the terminal is logged in. An
  empty picture does the same.
* An upload of the other medium that starts while a picture is `enable` stalls
  it until the 51 second exception, whose end then wipes `MediaObj`.
* The menu item for an upload, used during another upload, leaves
  `Duomeiti_sdFlag` set, which ends the next upload.
* `Get_recent_saveInfo` means to read the record stored last (`app_808.c:583`),
  but `ReadCycleGPS` ignores its argument and reads the one at the read pointer.
* For an empty picture the code prints that it reports the failed take
  (`protocol_808.c:4898`), and then announces an upload of no packets.
* The range check of 0x8801 (`> Max && < 1`) is never true.
* The result of a failed take is never reported.
* While packets are sent on request, `Photo_Timer` also triggers one, which goes
  out with the old number and moves the list on, so that a packet of the list
  is never sent (`protocol_808.c:3292`).
* The door takes its picture with camera 1 but stores and reports it under
  the channel of the last command (`Device_485.c:492`).
* `Datalink_close`, "do not log in again after hanging up" (`App_gsm.h:70`), is
  never read: a link that was closed on purpose is dialled again.
* "BUSY" and "NO ANSWER" are compared as whole lines although the line still has
  its line end, so they do not end a call.
* After the registration was cleared a new connection keeps the login state of
  the old one until the next registration, and reports are sent meanwhile. The
  console command `idip`, which marks the terminal as registered again without
  asking for a login, makes that state last; it is not part of `Session`.
* A power cut between the erase of a full pointer log and its first flag leaves
  that flag at 0xFF, which the reader rules out (`DF_Function.c:263`, "the first
  one will not be 0xFF"). The pointers are then read from a page outside the log
  (2.2) until the next write is complete; the code does not check them against
  the size of the ring, and the next save goes to the page they name.
* While the gsm thread waits after closing a failed connection
  (`Device_gsm.c:1894`, `1907`) the app808 thread may build a packet over one that
  was not sent, or be cut off in the middle of it by the send (2.6).
* A 0x8400 with an empty body or of an unknown kind gets no answer, not even one
  that says that it failed (`protocol_808.c:5801-5809`).
* 0x0013, "address of the main server, IP or name" (`protocol_808.c:3730`), with a
  numeric address stores it and asks for a new dial, but leaves the name stored
  before as it is. The dial asks for that name first (`Device_gsm.c:1448`), and as
  long as it resolves the terminal connects to its server and never to the new
  address. 0x0013 with a name wipes the numeric address, which is the one to fall
  back to, until the next start.
* A sound upload that starts before a picture was announced leaves
  `photo_sending` set with nothing being sent (`protocol_808.c:4907`), and no
  picture is taken any more.
* For camera 4 the area of camera 3 is erased (`Device_485.c:644`), and its own
  is programmed over the previous picture.
* A door that opens between `End_Camera` and `Photo_send_start`
  (`Device_485.c:731`) starts a take during the transfer, against
  `protocol_808.c:6276`. The console, which starts any camera at any time, can
  break `PictureWhole` with two cameras.
* The gsm thread ignores the number of the link a packet is for.
* Of several frames in one line of the modem only the first is handled; a frame
  in two lines is lost. A line of one byte 7e reads before the buffer. `7d 01`
  damaged into `7c 01` is not always seen by the check byte, since both bytes
  change by one bit.
* `GPRS_info` has 900 bytes; a picture packet with many escaped bytes is longer.
* An answer of the modem that is lost during a recording leaves `DF_LOCK` set
  until the next restart; positions and parameters are then not stored. Nothing
  counts `excption_counter` (`Device_gsm.h:136`). A recording of no bytes does
  the same.
* `Sound_send_end` of another sound, or a late 0x8800, declares the recorder idle
  in the middle of a recording; a second 0x8804 then starts over it, and chunks
  of the two may end up in one file. A picture upload that starts over a voice
  file that was not yet announced leaves the recorder running for good.
* The USB menu clears `DF_LOCK` whoever holds it. The names of recordings are
  the day and time without leading zeros and not unique.
* A common answer names the last frame at the time it is sent: when an upload
  held it up, that is a later frame than the command. Two commands before an
  answer get one answer. `Centre_FloatID` is set before the check byte is looked
  at, so a damaged frame may supply the number.
* A plain command that comes before the answer to 0x8103 or 0x8105 went out
  overwrites the redial, the reset or the close (`protocol_808.c:5566`).
* The link is closed, and the terminal reset, as soon as the answer is posted
  (`protocol_808.c:3751` says "first return the result, then hang up"); the gsm
  thread drops the answer if the timer was faster. A redial flag that survives a
  lost link hangs up the new connection once more.
* A new port (0x0018) and the address of the second server as numbers are not
  stored and lost at a restart. 0x8802 of type 1 falls through to type 3. 0xFF02
  sets a flag that nothing reads. 0x0500 names a number that is never assigned.
* Menu_3_1 reads the question from the flash each time it is shown, which resets
  a choice that was not yet sent and allows a second answer; a question that
  comes while an older one is on the screen gets its answer.
* The version ID is written before the other parameter files, and a parameter
  sector is erased and written again with no second copy.
* Any `OK` clears the count of errors, so that errors between answered commands
  never close the link.

## 6. Plan

Done: all modules of section 2, checked by TLC, and proofs about all of them.

Next, in this order:

1. The parameter files with a power cut between erase and programming, and the
   power monitor that is meant to prevent it.
2. Text to speech in the gsm thread, as a source of long rounds for `SendPath`.
