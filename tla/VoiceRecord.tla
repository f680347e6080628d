---------------------------- MODULE VoiceRecord ----------------------------
(***************************************************************************)
(* The voice recorder.                                                     *)
(*                                                                         *)
(* The centre's command 0x8804 starts a recording (VOC_REC_Start, in the   *)
(* app808 thread).  The modem records into a file of its own; a timer,     *)
(* VOC_REC_process, asks for that file in chunks of 256 bytes, and the gsm *)
(* thread collects the answers: two chunks make a page of the voice area   *)
(* in the flash.  The first page of the area, with the name and the size,  *)
(* is written last, and then the upload starts.  The end of ANY upload of  *)
(* a sound, Sound_send_end, declares the recorder idle.                    *)
(*                                                                         *)
(* The timer interrupts both threads, and the gsm thread the app808        *)
(* thread, which waits while the gsm thread is inside VOC_REC_dataGet.     *)
(* DF_LOCK keeps the positions out of the flash.                           *)
(***************************************************************************)
EXTENDS Integers, Sequences

CONSTANTS
    MaxChunks,   \* chunks of the longest recording
    MaxStarts,   \* bound: recordings the centre asks for
    Faults       \* power cuts and restarts of the modem occur

ASSUME VoiceAssumption ==
    MaxChunks \in Nat \ {0} /\ MaxStarts \in Nat /\ Faults \in BOOLEAN

VARIABLES
    running, Sate, ExcuteFlag, file_name, filesize, file_read, half_page,
    curren_PageCNT,  \* the page the next two chunks go to, from 1 on
    HEX,             \* the two halves of the page buffer
    startPc,         \* what the app808 thread does next in VOC_REC_Start
    getPc,           \* what the gsm thread does next in VOC_REC_dataGet
    DF_LOCK,
    area,            \* the chunks in the voice area, two on each page but
                     \* the first
    header,          \* the first page: name and size of the file
    cmds,            \* AT commands the modem has not yet taken
    lines,           \* answers the gsm thread has not yet taken
    recording,       \* the name the modem records under
    files,           \* the modem's files: name to size
    starts, names,   \* counters: commands of the centre, names given
    uploading,       \* the file was handed over and its upload has not ended
    lost,            \* history: a command or an answer was lost
    orphaned         \* history: declared idle in the middle of its work

histVars  == <<uploading, lost, orphaned>>
recVars   == <<running, Sate, ExcuteFlag, file_name, filesize, file_read,
               half_page, curren_PageCNT, HEX>>
flashVars == <<area, header>>
modemVars == <<cmds, lines, recording, files>>
voiceVars == <<recVars, startPc, getPc, DF_LOCK, flashVars, modemVars,
               starts, names, uploading, lost, orphaned>>

Chunks  == 1 .. MaxChunks
Slots   == 1 .. MaxChunks + 1            \* room for whole pages
Names   == Nat \ {0}
NoName  == 0
Blank   == <<NoName, 0>>                 \* no chunk; <<n, i>>: chunk i of n
NoFile  == [name |-> NoName, size |-> 0] \* an erased first page
Erased  == [i \in Slots |-> Blank]

Init ==
    /\ running = FALSE /\ Sate = "IDLE" /\ ExcuteFlag = FALSE
    /\ file_name = NoName /\ filesize = 0 /\ file_read = 0
    /\ half_page = 0 /\ curren_PageCNT = 0 /\ HEX = <<Blank, Blank>>
    /\ startPc = "idle" /\ getPc = "idle" /\ DF_LOCK = FALSE
    /\ cmds = <<>> /\ lines = <<>> /\ recording = NoName /\ files = <<>>
    /\ area = Erased /\ header = NoFile
    /\ starts = 0 /\ names = 0 /\ uploading = FALSE
    /\ lost = FALSE /\ orphaned = FALSE

-----------------------------------------------------------------------------
(* VOC_REC_Start, in the app808 thread, with the places where the timer or *)
(* the gsm thread may come in between                                      *)

\* Mutant: a command that comes while a file is uploaded is obeyed.
VOC_REC_StartBusy ==
    /\ startPc = "idle" /\ getPc = "idle"
    /\ starts < MaxStarts
    /\ running' = TRUE
    /\ startPc' = "state"
    /\ starts' = starts + 1
    /\ UNCHANGED <<Sate, ExcuteFlag, file_name, filesize, file_read, half_page,
                   curren_PageCNT, HEX, getPc, DF_LOCK, flashVars, modemVars,
                   names, histVars>>

\* 0x8804, while no recording is being processed.  The command has come through
\* the modem, which is therefore on.
VOC_REC_Start ==
    /\ startPc = "idle" /\ getPc = "idle"
    /\ starts < MaxStarts
    /\ ~running
    /\ running' = TRUE
    /\ startPc' = "state"
    /\ starts' = starts + 1
    /\ UNCHANGED <<Sate, ExcuteFlag, file_name, filesize, file_read, half_page,
                   curren_PageCNT, HEX, getPc, DF_LOCK, flashVars, modemVars,
                   names, histVars>>

StartState ==
    /\ startPc = "state" /\ getPc = "idle"
    /\ Sate' = "RECORDING"
    /\ startPc' = "flag"
    /\ UNCHANGED <<running, ExcuteFlag, file_name, filesize, file_read,
                   half_page, curren_PageCNT, HEX, getPc, DF_LOCK, flashVars,
                   modemVars, starts, names, histVars>>

StartFlag ==
    /\ startPc = "flag" /\ getPc = "idle"
    /\ ExcuteFlag' = TRUE
    /\ startPc' = "page"
    /\ UNCHANGED <<running, Sate, file_name, filesize, file_read, half_page,
                   curren_PageCNT, HEX, getPc, DF_LOCK, flashVars, modemVars,
                   starts, names, histVars>>

\* Mutant: a recording with an odd number of chunks leaves half a page behind.
StartPageKeepsHalf ==
    /\ startPc = "page" /\ getPc = "idle"
    /\ curren_PageCNT' = 1
    /\ startPc' = "idle"
    /\ UNCHANGED <<running, Sate, ExcuteFlag, file_name, filesize, file_read,
                   half_page, HEX, getPc, DF_LOCK, flashVars, modemVars, starts,
                   names, histVars>>

StartPage ==
    /\ startPc = "page" /\ getPc = "idle"
    /\ curren_PageCNT' = 1 /\ half_page' = 0
    /\ startPc' = "idle"
    /\ UNCHANGED <<running, Sate, ExcuteFlag, file_name, filesize, file_read,
                   HEX, getPc, DF_LOCK, flashVars, modemVars, starts, names,
                   histVars>>

-----------------------------------------------------------------------------
(* VOC_REC_process, in the timer interrupt, once a second                  *)

ProcessRecording ==
    /\ running /\ ExcuteFlag
    /\ Sate = "RECORDING"
    /\ DF_LOCK' = TRUE
    /\ area' = Erased /\ header' = NoFile   \* Api_DFdirectory_Delete(voice)
    /\ names' = names + 1
    /\ file_name' = names + 1
    /\ cmds' = Append(cmds, [at |-> "RECSTART", name |-> names + 1, off |-> 0])
    /\ ExcuteFlag' = FALSE
    /\ UNCHANGED <<running, Sate, filesize, file_read, half_page,
                   curren_PageCNT, HEX, startPc, getPc, lines, recording, files,
                   starts, histVars>>

ProcessDataRXing ==
    /\ running /\ ExcuteFlag
    /\ Sate = "DataRXing"
    /\ filesize > file_read
    /\ cmds' = Append(cmds, [at |-> "RECFGET", name |-> file_name,
                             off |-> file_read])
    /\ ExcuteFlag' = FALSE
    /\ UNCHANGED <<running, Sate, file_name, filesize, file_read, half_page,
                   curren_PageCNT, HEX, startPc, getPc, DF_LOCK, flashVars,
                   lines, recording, files, starts, names, histVars>>

ProcessDel ==
    /\ running /\ ExcuteFlag
    /\ Sate = "DEL"
    /\ cmds' = Append(cmds, [at |-> "RECFDEL", name |-> NoName, off |-> 0])
    /\ ExcuteFlag' = FALSE
    /\ Sate' = "IDLE"
    /\ UNCHANGED <<running, file_name, filesize, file_read, half_page,
                   curren_PageCNT, HEX, startPc, getPc, DF_LOCK, flashVars,
                   lines, recording, files, starts, names, histVars>>

VOC_REC_process == ProcessRecording \/ ProcessDataRXing \/ ProcessDel

-----------------------------------------------------------------------------
(* The gsm thread                                                          *)

\* A line of the modem, when the thread is not busy with another one.
NextLine(what) ==
    /\ getPc = "idle"
    /\ lines # <<>> /\ Head(lines).what = what
    /\ lines' = Tail(lines)

\* %RECSTOP: the recording is over, its size is known.
VOC_REC_getinfolen ==
    /\ NextLine("RECSTOP")
    /\ IF Sate = "RECORDING"
         THEN /\ filesize' = Head(lines).size
              /\ Sate' = "DataRXing" /\ ExcuteFlag' = TRUE /\ file_read' = 0
         ELSE UNCHANGED <<filesize, Sate, ExcuteFlag, file_read>>
    /\ UNCHANGED <<running, file_name, half_page, curren_PageCNT, HEX, startPc,
                   getPc, DF_LOCK, flashVars, cmds, recording, files, starts,
                   names, histVars>>

\* Mutant: the next chunk is not asked for.
NextChunkForgotten == UNCHANGED <<ExcuteFlag, getPc>>

\* More is to come: the timer may ask for the next chunk.
NextChunk == ExcuteFlag' = TRUE /\ UNCHANGED getPc

\* Mutant: the second half does not start a new page.
OtherHalfForgotten == half_page + 1

OtherHalf == 1 - half_page

\* DF_WriteFlashDirect of the page buffer.
WritePage(p, buffer) ==
    area' = [i \in Slots |-> IF i = 2 * p - 1 THEN buffer[1]
                             ELSE IF i = 2 * p THEN buffer[2] ELSE area[i]]

\* %RECFGET: a chunk goes into its half of the page buffer, and the buffer into
\* the flash when it is full or the file is complete.
VOC_REC_dataGet ==
    LET last == file_read + 1 >= filesize IN
    /\ NextLine("RECFGET")
    /\ IF Sate = "DataRXing"
         THEN /\ HEX' = [HEX EXCEPT ![half_page + 1] =
                            <<Head(lines).name, Head(lines).off + 1>>]
              /\ half_page' = OtherHalf
              /\ file_read' = file_read + 1
              /\ IF half_page' = 0 \/ last
                   THEN /\ WritePage(curren_PageCNT, HEX')
                        /\ curren_PageCNT' = curren_PageCNT + 1
                   ELSE UNCHANGED <<area, curren_PageCNT>>
              /\ IF last
                   THEN getPc' = "header" /\ UNCHANGED ExcuteFlag
                   ELSE NextChunk
         ELSE UNCHANGED <<ExcuteFlag, file_read, half_page, curren_PageCNT, HEX,
                          getPc, area>>
    /\ UNCHANGED <<running, Sate, file_name, filesize, startPc, DF_LOCK, header,
                   cmds, recording, files, starts, names, histVars>>

\* The last chunk: the first page of the area is written.
WriteHeader ==
    /\ getPc = "header"
    /\ curren_PageCNT' = 0
    /\ header' = [name |-> file_name, size |-> filesize]
    /\ getPc' = "finish"
    /\ UNCHANGED <<running, Sate, ExcuteFlag, file_name, filesize, file_read,
                   half_page, HEX, startPc, DF_LOCK, area, modemVars, starts,
                   names, histVars>>

\* Then the file may be deleted in the modem, and Sound_send_start uploads it.
FinishGet ==
    /\ getPc = "finish"
    /\ Sate' = "DEL" /\ ExcuteFlag' = TRUE /\ file_read' = 0
    /\ DF_LOCK' = FALSE
    /\ getPc' = "idle"
    /\ uploading' = TRUE
    /\ UNCHANGED <<running, file_name, filesize, half_page, curren_PageCNT, HEX,
                   startPc, flashVars, modemVars, starts, names, lost, orphaned>>

-----------------------------------------------------------------------------
(* The rest of the firmware                                                *)

\* Sound_send_end: the upload of this or of another sound ends, or a late
\* report of the centre says so.
Sound_send_end ==
    /\ running
    /\ running' = FALSE
    /\ uploading' = FALSE
    /\ orphaned' = (orphaned \/ Sate # "IDLE" \/ startPc # "idle")
    /\ UNCHANGED <<Sate, ExcuteFlag, file_name, filesize, file_read, half_page,
                   curren_PageCNT, HEX, startPc, getPc, DF_LOCK, flashVars,
                   modemVars, starts, names, lost>>

\* The menu key in the USB menu.
UsbMenuKey ==
    /\ DF_LOCK
    /\ DF_LOCK' = FALSE
    /\ UNCHANGED <<recVars, startPc, getPc, flashVars, modemVars, starts, names,
                   histVars>>

-----------------------------------------------------------------------------
(* The modem: it takes the commands and gives its answers in order         *)

NextCmd(at) ==
    /\ cmds # <<>> /\ Head(cmds).at = at
    /\ cmds' = Tail(cmds)

\* One recording at a time; a second one is refused.
ModemRecord ==
    /\ NextCmd("RECSTART")
    /\ recording' = IF recording = NoName THEN Head(cmds).name ELSE recording
    /\ UNCHANGED <<recVars, startPc, getPc, DF_LOCK, flashVars, lines, files,
                   starts, names, histVars>>

\* The six seconds are over, long after VOC_REC_Start.
ModemStop(size) ==
    /\ recording # NoName
    /\ startPc = "idle"
    /\ recording' = NoName
    /\ files' = [n \in DOMAIN files \cup {recording} |->
                   IF n = recording THEN size ELSE files[n]]
    /\ lines' = Append(lines, [what |-> "RECSTOP", name |-> recording,
                               off |-> 0, size |-> size])
    /\ UNCHANGED <<recVars, startPc, getPc, DF_LOCK, flashVars, cmds, starts,
                   names, histVars>>

\* A chunk of a file that is there, or an error.
ModemGet ==
    /\ NextCmd("RECFGET")
    /\ LET c == Head(cmds)
           there == c.name \in DOMAIN files /\ c.off < files[c.name]
       IN lines' = IF there
                     THEN Append(lines, [what |-> "RECFGET", name |-> c.name,
                                         off |-> c.off, size |-> 0])
                     ELSE lines
    /\ UNCHANGED <<recVars, startPc, getPc, DF_LOCK, flashVars, recording, files,
                   starts, names, histVars>>

\* All files are deleted.
ModemDelete ==
    /\ NextCmd("RECFDEL")
    /\ files' = <<>>
    /\ UNCHANGED <<recVars, startPc, getPc, DF_LOCK, flashVars, lines, recording,
                   starts, names, histVars>>

\* The modem starts again; its files are kept.
ModemRestart ==
    /\ Faults
    /\ cmds' = <<>> /\ lines' = <<>> /\ recording' = NoName
    /\ lost' = TRUE
    /\ UNCHANGED <<recVars, startPc, getPc, DF_LOCK, flashVars, files, starts,
                   names, uploading, orphaned>>

\* A power cut: the flash and the modem's files are kept.
PowerCut ==
    /\ Faults
    /\ running' = FALSE /\ Sate' = "IDLE" /\ ExcuteFlag' = FALSE
    /\ file_name' = NoName /\ filesize' = 0 /\ file_read' = 0
    /\ half_page' = 0 /\ curren_PageCNT' = 0 /\ HEX' = <<Blank, Blank>>
    /\ startPc' = "idle" /\ getPc' = "idle" /\ DF_LOCK' = FALSE
    /\ cmds' = <<>> /\ lines' = <<>> /\ recording' = NoName
    /\ uploading' = FALSE /\ lost' = TRUE
    /\ UNCHANGED <<flashVars, files, starts, names, orphaned>>

-----------------------------------------------------------------------------

AppStep   == VOC_REC_Start \/ StartState \/ StartFlag \/ StartPage
GsmStep   == VOC_REC_getinfolen \/ VOC_REC_dataGet \/ WriteHeader \/ FinishGet
ModemStep == ModemRecord \/ ModemGet \/ ModemDelete
             \/ \E size \in Chunks : ModemStop(size)

Next ==
    \/ AppStep
    \/ VOC_REC_process
    \/ GsmStep
    \/ ModemStep
    \/ Sound_send_end \/ UsbMenuKey
    \/ ModemRestart \/ PowerCut

Spec == Init /\ [][Next]_voiceVars

\* The threads run, the timer fires every second, and the modem takes its
\* commands and ends a recording.  What the centre and the driver do may stop.
Fairness ==
    /\ WF_voiceVars(StartState \/ StartFlag \/ StartPage)
    /\ WF_voiceVars(VOC_REC_process)
    /\ WF_voiceVars(GsmStep)
    /\ WF_voiceVars(ModemRecord \/ ModemGet \/ ModemDelete)
    /\ WF_voiceVars(\E size \in Chunks : ModemStop(size))

FairSpec == Spec /\ Fairness

-----------------------------------------------------------------------------
(* Properties                                                              *)

Commands == [at : {"RECSTART", "RECFGET", "RECFDEL"}, name : {NoName} \cup Names,
             off : 0 .. MaxChunks]
Answers  == [what : {"RECSTOP", "RECFGET"}, name : Names,
             off : 0 .. MaxChunks - 1, size : 0 .. MaxChunks]
AnyChunk == {Blank} \cup Names \X Chunks

TypeOK ==
    /\ running \in BOOLEAN /\ ExcuteFlag \in BOOLEAN
    /\ DF_LOCK \in BOOLEAN
    /\ uploading \in BOOLEAN /\ lost \in BOOLEAN /\ orphaned \in BOOLEAN
    /\ Sate \in {"IDLE", "RECORDING", "DataRXing", "DEL"}
    /\ file_name \in {NoName} \cup Names
    /\ filesize \in 0 .. MaxChunks /\ file_read \in 0 .. MaxChunks
    /\ half_page \in {0, 1} /\ curren_PageCNT \in Nat
    /\ HEX \in AnyChunk \X AnyChunk
    /\ startPc \in {"idle", "state", "flag", "page"}
    /\ getPc \in {"idle", "header", "finish"}
    /\ area \in [Slots -> AnyChunk]
    /\ header \in [name : {NoName} \cup Names, size : 0 .. MaxChunks]
    /\ cmds \in Seq(Commands) /\ lines \in Seq(Answers)
    /\ recording \in {NoName} \cup Names
    /\ DOMAIN files \subseteq Names
    /\ \A n \in DOMAIN files : files[n] \in Chunks
    /\ starts \in 0 .. MaxStarts /\ names \in Nat

\* Whenever the first page of the voice area names a file, the area holds all
\* chunks of that one recording, in order: also after a power cut or a restart
\* of the modem at any point, and with the timer and the two threads in any
\* order; unless the end of another upload declared the recorder idle in the
\* middle of its work.
VoiceFileWhole ==
    header # NoFile /\ ~orphaned =>
      \A i \in 1 .. header.size : area[i] = <<header.name, i>>

\* A voice file stays in the flash until its upload has ended: the recording the
\* centre asks for meanwhile does not erase it.
VoiceKept == uploading /\ ~orphaned => header # NoFile

\* A recording that no other upload declares finished gives the flash back to
\* the positions: DF_LOCK, set when the voice area is erased, does not stay set
\* as long as the modem answers.
LockReleased == [](~lost /\ ~orphaned) => (DF_LOCK ~> ~DF_LOCK)
=============================================================================
