------------------------- MODULE VoiceRecord_proofs -------------------------
(***************************************************************************)
(* Proofs about the voice recorder.  The argument: as long as nobody       *)
(* declares it idle in the middle of its work, at most one command waits   *)
(* for its effect at any time, so every chunk that arrives is the next one *)
(* of the file under collection.                                           *)
(***************************************************************************)
EXTENDS VoiceRecord, SequenceTheorems, TLAPS

Asked(i) == i \in 1 .. Len(cmds) /\ cmds[i].at # "RECFDEL"

\* The modem has a command, works on one, or has answered one.
Pending == (\E i \in 1 .. Len(cmds) : Asked(i)) \/ lines # <<>> \/ recording # NoName

\* One command at a time.
OneAtATime ==
    /\ \A i, j \in 1 .. Len(cmds) : Asked(i) /\ Asked(j) => i = j
    /\ Len(lines) <= 1
    /\ \A i \in 1 .. Len(cmds) : Asked(i) => lines = <<>> /\ recording = NoName
    /\ lines # <<>> => recording = NoName
    /\ Pending => ~ExcuteFlag

\* A command, or its answer, belongs to the state the recorder is in.
ForThisState ==
    /\ \A i \in 1 .. Len(cmds) :
         /\ cmds[i].at = "RECSTART" => Sate = "RECORDING" /\ startPc \in {"idle", "page"}
         /\ cmds[i].at = "RECFGET" =>
              Sate = "DataRXing" /\ cmds[i].name = file_name /\ cmds[i].off = file_read
    /\ recording # NoName => Sate = "RECORDING" /\ startPc \in {"idle", "page"}
    /\ \A i \in 1 .. Len(lines) :
         /\ lines[i].what = "RECSTOP" =>
              Sate = "RECORDING" /\ startPc = "idle" /\ lines[i].size >= 1
         /\ lines[i].what = "RECFGET" =>
              Sate = "DataRXing" /\ lines[i].name = file_name /\ lines[i].off = file_read

\* The threads and the state of the recorder.
Steps ==
    /\ ~running => Sate = "IDLE" /\ startPc = "idle"
    /\ Sate = "IDLE" => ~ExcuteFlag
    /\ startPc = "state" => Sate = "IDLE"
    /\ startPc = "flag" => Sate = "RECORDING" /\ ~ExcuteFlag
    /\ startPc = "page" => Sate = "RECORDING"
    /\ getPc # "idle" => Sate = "DataRXing" /\ ~Pending /\ ~ExcuteFlag
    /\ Sate = "RECORDING" /\ startPc = "idle" => curren_PageCNT = 1 /\ half_page = 0
    /\ uploading => running /\ startPc = "idle" /\ Sate \in {"DEL", "IDLE"}

\* What has arrived of the file is in the area and in the page buffer.
Collected ==
    /\ Sate = "RECORDING" /\ Pending => header = NoFile /\ file_name \in Names
    /\ Sate = "DataRXing" => startPc = "idle" /\ file_name \in Names
    /\ Sate = "DataRXing" /\ getPc # "finish" => header = NoFile
    /\ Sate = "DataRXing" /\ getPc = "idle" =>
         /\ curren_PageCNT >= 1
         /\ file_read = 2 * (curren_PageCNT - 1) + half_page
         /\ file_read < filesize
         /\ \A i \in Slots : i <= 2 * (curren_PageCNT - 1) => area[i] = <<file_name, i>>
         /\ half_page = 1 => HEX[1] = <<file_name, file_read>>
    /\ getPc = "finish" => header # NoFile
    /\ getPc = "header" => \A i \in Slots : i <= filesize => area[i] = <<file_name, i>>

Whole == header # NoFile => \A i \in Slots : i <= header.size => area[i] = <<header.name, i>>
Kept  == uploading => header # NoFile

Undisturbed == OneAtATime /\ ForThisState /\ Steps /\ Collected /\ Whole /\ Kept
UInv == ~orphaned => Undisturbed

-----------------------------------------------------------------------------
(* Types                                                                   *)

FlagType ==
    /\ running \in BOOLEAN /\ ExcuteFlag \in BOOLEAN /\ DF_LOCK \in BOOLEAN
    /\ uploading \in BOOLEAN /\ lost \in BOOLEAN /\ orphaned \in BOOLEAN

RecorderType ==
    /\ Sate \in {"IDLE", "RECORDING", "DataRXing", "DEL"}
    /\ file_name \in {NoName} \cup Names
    /\ filesize \in 0 .. MaxChunks /\ file_read \in 0 .. MaxChunks
    /\ half_page \in {0, 1} /\ curren_PageCNT \in Nat
    /\ HEX \in AnyChunk \X AnyChunk
    /\ startPc \in {"idle", "state", "flag", "page"}
    /\ getPc \in {"idle", "header", "finish"}
    /\ area \in [Slots -> AnyChunk]
    /\ header \in [name : {NoName} \cup Names, size : 0 .. MaxChunks]
    /\ starts \in 0 .. MaxStarts /\ names \in Nat
    /\ getPc = "idle" => file_read = 0 \/ file_read < filesize

ModemType ==
    /\ cmds \in Seq(Commands) /\ lines \in Seq(Answers)
    /\ recording \in {NoName} \cup Names
    /\ DOMAIN files \subseteq Names
    /\ \A n \in DOMAIN files : files[n] \in Chunks

TypeInv == FlagType /\ RecorderType /\ ModemType

\* A queue after a new element.
LEMMA AppendFacts ==
  ASSUME NEW S, NEW s \in Seq(S), NEW e \in S
  PROVE  /\ Append(s, e) \in Seq(S) /\ Len(s) \in Nat
         /\ Len(Append(s, e)) = Len(s) + 1
         /\ \A i \in 1 .. Len(s) : Append(s, e)[i] = s[i]
         /\ Append(s, e)[Len(s) + 1] = e
  BY AppendProperties, LenProperties

\* A queue without its first element.
LEMMA TailFacts ==
  ASSUME NEW S, NEW s \in Seq(S), s # <<>>
  PROVE  /\ Tail(s) \in Seq(S) /\ Len(s) \in Nat \ {0}
         /\ Len(Tail(s)) = Len(s) - 1
         /\ Head(s) = s[1] /\ Head(s) \in S
         /\ \A i \in 1 .. Len(s) - 1 : Tail(s)[i] = s[i + 1]
  BY HeadTailProperties, LenProperties

\* The recorder starts idle.
LEMMA TypeInit == Init => TypeInv
<1> SUFFICES ASSUME Init PROVE TypeInv
  OBVIOUS
<1>1. FlagType
  BY DEF Init, FlagType
<1>2. RecorderType
  BY VoiceAssumption DEF Init, RecorderType, AnyChunk, Blank, NoFile, NoName,
     Erased, Slots, Names
<1>3. ModemType
  BY DEF Init, ModemType, NoName
<1> QED
  BY <1>1, <1>2, <1>3 DEF TypeInv

\* The flags stay flags.
LEMMA TypeFlags == TypeInv /\ [Next]_voiceVars => FlagType'
<1> SUFFICES ASSUME FlagType, [Next]_voiceVars PROVE FlagType'
  BY DEF TypeInv
<1> USE DEF FlagType, histVars, recVars
<1>1. CASE AppStep
  BY <1>1, Zenon DEF AppStep, VOC_REC_Start, StartState, StartFlag, StartPage
<1>2. CASE VOC_REC_process
  BY <1>2, Zenon DEF VOC_REC_process, ProcessRecording, ProcessDataRXing, ProcessDel
<1>3. CASE GsmStep
  <2>1. CASE VOC_REC_getinfolen
    BY <2>1, Zenon DEF VOC_REC_getinfolen
  <2>2. CASE VOC_REC_dataGet
    BY <2>2, Zenon DEF VOC_REC_dataGet, NextChunk
  <2>3. CASE WriteHeader \/ FinishGet
    BY <2>3, Zenon DEF WriteHeader, FinishGet
  <2> QED
    BY <1>3, <2>1, <2>2, <2>3 DEF GsmStep
<1>4. CASE ModemStep
  BY <1>4, Zenon DEF ModemStep, ModemRecord, ModemGet, ModemDelete, ModemStop
<1>5. CASE Sound_send_end
  BY <1>5, Zenon DEF Sound_send_end
<1>6. CASE UsbMenuKey \/ ModemRestart \/ PowerCut
  BY <1>6, Zenon DEF UsbMenuKey, ModemRestart, PowerCut
<1>7. CASE UNCHANGED voiceVars
  BY <1>7, Zenon DEF voiceVars
<1> QED
  BY <1>1, <1>2, <1>3, <1>4, <1>5, <1>6, <1>7 DEF Next

\* So do the recorder's variables and the flash.
LEMMA TypeRecorder == TypeInv /\ [Next]_voiceVars => RecorderType'
<1> SUFFICES ASSUME RecorderType, ModemType, [Next]_voiceVars PROVE RecorderType'
  BY DEF TypeInv
<1> USE VoiceAssumption DEF RecorderType, recVars, flashVars
<1>1. CASE AppStep
  BY <1>1 DEF AppStep, VOC_REC_Start, StartState, StartFlag, StartPage
<1>2. CASE VOC_REC_process
  <2>1. CASE ProcessRecording
    <3>1. area' \in [Slots -> AnyChunk]
      BY <2>1 DEF ProcessRecording, Erased, AnyChunk
    <3>2. header' \in [name : {NoName} \cup Names, size : 0 .. MaxChunks]
      BY <2>1 DEF ProcessRecording, NoFile
    <3>3. file_name' \in Names /\ names' \in Nat
      BY <2>1 DEF ProcessRecording, Names
    <3> QED
      BY <2>1, <3>1, <3>2, <3>3 DEF ProcessRecording
  <2>2. CASE ProcessDataRXing \/ ProcessDel
    BY <2>2 DEF ProcessDataRXing, ProcessDel
  <2> QED
    BY <1>2, <2>1, <2>2 DEF VOC_REC_process
<1>3. ASSUME NEW what, NextLine(what)
      PROVE  Head(lines) \in Answers /\ getPc = "idle"
  BY <1>3, TailFacts DEF NextLine, ModemType
<1>4. CASE VOC_REC_getinfolen
  <2>1. Head(lines) \in Answers
    BY <1>3, <1>4 DEF VOC_REC_getinfolen
  <2>2. Head(lines).size \in 0 .. MaxChunks
    BY <2>1 DEF Answers
  <2> QED
    BY <1>4, <2>2 DEF VOC_REC_getinfolen
<1>5. CASE VOC_REC_dataGet
  <2>1. Head(lines) \in Answers /\ getPc = "idle"
    BY <1>3, <1>5 DEF VOC_REC_dataGet
  <2>2. CASE Sate # "DataRXing"
    BY <1>5, <2>2 DEF VOC_REC_dataGet
  <2>3. CASE Sate = "DataRXing"
    <3> DEFINE chunk == <<Head(lines).name, Head(lines).off + 1>>
    <3>1. chunk \in AnyChunk
      BY <2>1 DEF Answers, AnyChunk, Chunks
    <3>2. HEX' = [HEX EXCEPT ![half_page + 1] = chunk]
      BY <1>5, <2>3 DEF VOC_REC_dataGet
    <3>3. HEX' \in AnyChunk \X AnyChunk
      <4> HIDE DEF chunk
      <4> QED
        BY <3>1, <3>2
    <3>4. area' \in [Slots -> AnyChunk] /\ curren_PageCNT' \in Nat
      <4>1. CASE area' = area
        BY <1>5, <2>3, <4>1 DEF VOC_REC_dataGet
      <4>2. CASE WritePage(curren_PageCNT, HEX')
        <5>1. curren_PageCNT' \in Nat
          BY <1>5, <2>3 DEF VOC_REC_dataGet
        <5> QED
          BY <3>3, <4>2, <5>1 DEF WritePage
      <4> QED
        BY <1>5, <2>3, <4>1, <4>2 DEF VOC_REC_dataGet
    <3>5. /\ half_page' \in {0, 1}
          /\ file_read' \in 0 .. MaxChunks
          /\ getPc' \in {"idle", "header", "finish"}
          /\ getPc' = "idle" => file_read' = 0 \/ file_read' < filesize'
      BY <1>5, <2>1, <2>3 DEF VOC_REC_dataGet, OtherHalf, NextChunk
    <3>6. UNCHANGED <<Sate, file_name, filesize, startPc, header, starts, names>>
      BY <1>5 DEF VOC_REC_dataGet
    <3> QED
      BY <3>3, <3>4, <3>5, <3>6
  <2> QED
    BY <2>2, <2>3
<1>6. CASE WriteHeader \/ FinishGet
  BY <1>6 DEF WriteHeader, FinishGet
<1>7. CASE ModemStep
  <2>1. CASE ModemRecord
    BY <2>1 DEF ModemRecord
  <2>2. CASE ModemGet
    BY <2>2 DEF ModemGet
  <2>3. CASE ModemDelete
    BY <2>3 DEF ModemDelete
  <2>4. CASE \E size \in Chunks : ModemStop(size)
    BY <2>4 DEF ModemStop
  <2> QED
    BY <1>7, <2>1, <2>2, <2>3, <2>4 DEF ModemStep
<1>8. CASE Sound_send_end \/ UsbMenuKey \/ ModemRestart
  <2>1. CASE Sound_send_end
    BY <2>1 DEF Sound_send_end
  <2>2. CASE UsbMenuKey \/ ModemRestart
    BY <2>2 DEF UsbMenuKey, ModemRestart
  <2> QED
    BY <1>8, <2>1, <2>2
<1>9. CASE PowerCut
  BY <1>9 DEF PowerCut, AnyChunk, Blank, NoName
<1>10. CASE UNCHANGED voiceVars
  BY <1>10 DEF voiceVars
<1> QED
  BY <1>1, <1>2, <1>4, <1>5, <1>6, <1>7, <1>8, <1>9, <1>10 DEF Next, GsmStep

\* And so do the modem's queues and files.
LEMMA TypeModem == TypeInv /\ [Next]_voiceVars => ModemType'
<1> SUFFICES ASSUME RecorderType, ModemType, [Next]_voiceVars PROVE ModemType'
  BY DEF TypeInv
<1> USE VoiceAssumption DEF ModemType, modemVars
<1>1. ASSUME NEW c \in Commands, cmds' = Append(cmds, c)
      PROVE  cmds' \in Seq(Commands)
  BY <1>1, AppendFacts
<1>2. ASSUME NEW at, NextCmd(at)
      PROVE  cmds' \in Seq(Commands) /\ Head(cmds) \in Commands
  BY <1>2, TailFacts DEF NextCmd
<1>3. ASSUME NEW what, NextLine(what)
      PROVE  lines' \in Seq(Answers)
  BY <1>3, TailFacts DEF NextLine
<1>4. CASE AppStep
  BY <1>4 DEF AppStep, VOC_REC_Start, StartState, StartFlag, StartPage
<1>5. CASE ProcessRecording
  <2>1. [at |-> "RECSTART", name |-> names + 1, off |-> 0] \in Commands
    BY DEF RecorderType, Commands, Names
  <2> QED
    BY <1>1, <1>5, <2>1 DEF ProcessRecording
<1>6. CASE ProcessDataRXing
  <2>1. [at |-> "RECFGET", name |-> file_name, off |-> file_read] \in Commands
    BY DEF RecorderType, Commands
  <2> QED
    BY <1>1, <1>6, <2>1 DEF ProcessDataRXing
<1>7. CASE ProcessDel
  <2>1. [at |-> "RECFDEL", name |-> NoName, off |-> 0] \in Commands
    BY DEF Commands
  <2> QED
    BY <1>1, <1>7, <2>1 DEF ProcessDel
<1>8. CASE VOC_REC_getinfolen \/ VOC_REC_dataGet
  BY <1>3, <1>8 DEF VOC_REC_getinfolen, VOC_REC_dataGet
<1>9. CASE WriteHeader \/ FinishGet \/ Sound_send_end \/ UsbMenuKey
  BY <1>9 DEF WriteHeader, FinishGet, Sound_send_end, UsbMenuKey
<1>10. CASE ModemRecord
  <2>1. cmds' \in Seq(Commands) /\ Head(cmds) \in Commands
    BY <1>2, <1>10 DEF ModemRecord
  <2>2. recording' \in {NoName} \cup Names
    BY <1>10, <2>1 DEF ModemRecord, Commands
  <2> QED
    BY <1>10, <2>1, <2>2 DEF ModemRecord
<1>11. ASSUME NEW size \in Chunks, ModemStop(size) PROVE ModemType'
  <2> DEFINE answer == [what |-> "RECSTOP", name |-> recording, off |-> 0,
                        size |-> size]
  <2>1. recording \in Names
    BY <1>11 DEF ModemStop
  <2>2. answer \in Answers
    BY <2>1 DEF Answers, Chunks
  <2>3. lines' \in Seq(Answers)
    <3>1. lines' = Append(lines, answer)
      BY <1>11 DEF ModemStop
    <3> HIDE DEF answer
    <3> QED
      BY <2>2, <3>1, AppendFacts
  <2>4. /\ DOMAIN files' \subseteq Names
        /\ \A n \in DOMAIN files' : files'[n] \in Chunks
    BY <1>11, <2>1 DEF ModemStop
  <2>5. cmds' \in Seq(Commands) /\ recording' \in {NoName} \cup Names
    BY <1>11 DEF ModemStop
  <2> QED
    BY <2>3, <2>4, <2>5
<1>12. CASE ModemGet
  <2> DEFINE c == Head(cmds)
             answer == [what |-> "RECFGET", name |-> c.name, off |-> c.off,
                        size |-> 0]
             there == c.name \in DOMAIN files /\ c.off < files[c.name]
  <2>1. cmds' \in Seq(Commands) /\ c \in Commands
    BY <1>2, <1>12 DEF ModemGet
  <2>2. there => answer \in Answers
    BY <2>1 DEF Commands, Answers, Chunks
  <2>3. lines' \in Seq(Answers)
    <3>1. lines' = IF there THEN Append(lines, answer) ELSE lines
      BY <1>12 DEF ModemGet
    <3> HIDE DEF answer, there
    <3> QED
      BY <2>2, <3>1, AppendFacts
  <2> QED
    BY <1>12, <2>1, <2>3 DEF ModemGet
<1>13. CASE ModemDelete
  BY <1>2, <1>13 DEF ModemDelete
<1>14. CASE ModemRestart \/ PowerCut
  <2>1. cmds' = <<>> /\ lines' = <<>> /\ recording' = NoName /\ files' = files
    BY <1>14 DEF ModemRestart, PowerCut
  <2> QED
    BY <2>1
<1>15. CASE UNCHANGED voiceVars
  BY <1>15 DEF voiceVars
<1> QED
  BY <1>4, <1>5, <1>6, <1>7, <1>8, <1>9, <1>10, <1>11, <1>12, <1>13, <1>14, <1>15
  DEF Next, GsmStep, ModemStep, VOC_REC_process

\* What holds in every state: TypeOK with one fact more.
LEMMA TypesAlways == Spec => []TypeInv
<1>1. Init => TypeInv
  BY TypeInit
<1>2. TypeInv /\ [Next]_voiceVars => TypeInv'
  BY TypeFlags, TypeRecorder, TypeModem DEF TypeInv
<1> QED
  BY <1>1, <1>2, PTL DEF Spec

\* Every variable of the recorder, of the flash and of the modem stays in its
\* type, for files and numbers of recordings of any size.
THEOREM VoiceTypes == Spec => []TypeOK
<1>1. TypeInv => TypeOK
  BY DEF TypeInv, FlagType, RecorderType, ModemType, TypeOK
<1> QED
  BY <1>1, TypesAlways, PTL

-----------------------------------------------------------------------------
(* One command at a time                                                   *)

\* Nothing is under way at the start.
LEMMA UndisturbedInit == Init => UInv
  BY DEF Init, UInv, Undisturbed, OneAtATime, ForThisState, Steps, Collected,
     Whole, Kept, Pending, Asked, Blank, NoFile, NoName

\* The modem has nothing to do for the recorder but to delete files.
Quiet ==
    /\ \A i \in 1 .. Len(cmds) : cmds[i].at = "RECFDEL"
    /\ lines = <<>> /\ Len(lines) = 0
    /\ recording = NoName

\* Which is the same as nothing pending.
LEMMA QuietIfNotPending == ModemType => (~Pending <=> Quiet)
  BY DEF ModemType, Pending, Asked, Quiet

\* Outside of its two working states the recorder has nothing pending.
LEMMA QuietOtherwise ==
  ASSUME ModemType, ForThisState, Steps,
         Sate \notin {"RECORDING", "DataRXing"} \/ startPc \in {"state", "flag"}
  PROVE  Quiet
<1>1. \A i \in 1 .. Len(cmds) : cmds[i].at = "RECFDEL"
  <2> SUFFICES ASSUME NEW i \in 1 .. Len(cmds) PROVE cmds[i].at = "RECFDEL"
    OBVIOUS
  <2>1. cmds[i] \in Commands
    BY ElementOfSeq DEF ModemType
  <2>2. cmds[i].at \in {"RECSTART", "RECFGET", "RECFDEL"}
    BY <2>1 DEF Commands
  <2> QED
    BY <2>2 DEF ForThisState, Steps
<1>2. Len(lines) = 0
  <2> SUFFICES ASSUME Len(lines) # 0 PROVE FALSE
    OBVIOUS
  <2>1. 1 \in 1 .. Len(lines)
    BY LenProperties DEF ModemType
  <2>2. lines[1] \in Answers
    BY <2>1, ElementOfSeq DEF ModemType
  <2>3. lines[1].what \in {"RECSTOP", "RECFGET"}
    BY <2>2 DEF Answers
  <2> QED
    BY <2>1, <2>3 DEF ForThisState, Steps
<1>3. lines = <<>>
  BY <1>2, EmptySeq DEF ModemType
<1>4. recording = NoName
  BY DEF ForThisState, Steps
<1> QED
  BY <1>1, <1>2, <1>3, <1>4 DEF Quiet

\* The app808 thread, which only starts a recording when the last one is over.
LEMMA UndisturbedApp ==
  ASSUME TypeInv, Undisturbed, AppStep
  PROVE  Undisturbed'
<1> USE DEF Undisturbed, modemVars, flashVars, histVars
<1>1. CASE VOC_REC_Start
  <2> USE <1>1 DEF VOC_REC_Start
  <2>0. Quiet
    BY QuietOtherwise DEF TypeInv, Steps
  <2>1. OneAtATime'
    BY <2>0 DEF Quiet, OneAtATime, Pending, Asked
  <2>2. ForThisState'
    BY <2>0 DEF Quiet, ForThisState, OneAtATime, Pending, Asked
  <2>3. Steps'
    BY <2>0 DEF Quiet, Steps, OneAtATime, ForThisState, Pending, Asked
  <2>4. Collected'
    BY <2>0 DEF Quiet, Collected, Steps, OneAtATime, ForThisState, Pending, Asked
  <2>5. Whole'
    BY DEF Whole, Steps, Collected, Pending, Asked
  <2>6. Kept'
    BY DEF Kept, Steps, Whole, Pending, Asked
  <2> QED
    BY <2>1, <2>2, <2>3, <2>4, <2>5, <2>6
<1>2. CASE StartState
  <2> USE <1>2 DEF StartState
  <2>0. Quiet
    BY QuietOtherwise DEF TypeInv, Steps
  <2>1. OneAtATime'
    BY <2>0 DEF Quiet, OneAtATime, Pending, Asked
  <2>2. ForThisState'
    BY <2>0 DEF Quiet, ForThisState, OneAtATime, Pending, Asked
  <2>3. Steps'
    BY <2>0 DEF Quiet, Steps, OneAtATime, ForThisState, Pending, Asked
  <2>4. Collected'
    BY <2>0 DEF Quiet, Collected, Steps, OneAtATime, ForThisState, Pending, Asked
  <2>5. Whole'
    BY DEF Whole, Steps, Collected, Pending, Asked
  <2>6. Kept'
    BY DEF Kept, Steps, Whole, Pending, Asked
  <2> QED
    BY <2>1, <2>2, <2>3, <2>4, <2>5, <2>6
<1>3. CASE StartFlag
  <2> USE <1>3 DEF StartFlag
  <2>0. Quiet
    BY QuietOtherwise DEF TypeInv, Steps
  <2>1. OneAtATime'
    BY <2>0 DEF Quiet, OneAtATime, Pending, Asked
  <2>2. ForThisState'
    BY <2>0 DEF Quiet, ForThisState, OneAtATime, Pending, Asked
  <2>3. Steps'
    BY <2>0 DEF Quiet, Steps, OneAtATime, ForThisState, Pending, Asked
  <2>4. Collected'
    BY <2>0 DEF Quiet, Collected, Steps, OneAtATime, ForThisState, Pending, Asked
  <2>5. Whole'
    BY DEF Whole, Steps, Collected, Pending, Asked
  <2>6. Kept'
    BY DEF Kept, Steps, Whole, Pending, Asked
  <2> QED
    BY <2>1, <2>2, <2>3, <2>4, <2>5, <2>6
<1>4. CASE StartPage
  <2> USE <1>4 DEF StartPage
  <2>1. OneAtATime'
    BY DEF OneAtATime, Pending, Asked
  <2>2. ForThisState'
    BY DEF ForThisState, OneAtATime, Pending, Asked
  <2>3. Steps'
    BY DEF Steps, OneAtATime, ForThisState, Pending, Asked
  <2>4. Collected'
    BY DEF Collected, Steps, OneAtATime, ForThisState, Pending, Asked
  <2>5. Whole'
    BY DEF Whole, Steps, Collected, Pending, Asked
  <2>6. Kept'
    BY DEF Kept, Steps, Whole, Pending, Asked
  <2> QED
    BY <2>1, <2>2, <2>3, <2>4, <2>5, <2>6
<1> QED
  BY <1>1, <1>2, <1>3, <1>4 DEF AppStep

\* The timer sends its command only when nothing is pending.
LEMMA OneMoreCommand ==
  ASSUME ModemType, Quiet, NEW c \in Commands, cmds' = Append(cmds, c)
  PROVE  /\ Len(cmds) \in Nat /\ Len(cmds') = Len(cmds) + 1
         /\ \A i \in 1 .. Len(cmds') : \/ cmds'[i].at = "RECFDEL"
                                       \/ i = Len(cmds) + 1 /\ cmds'[i] = c
<1>1. /\ Len(cmds) \in Nat /\ Len(cmds') = Len(cmds) + 1
      /\ \A i \in 1 .. Len(cmds) : cmds'[i] = cmds[i]
      /\ cmds'[Len(cmds) + 1] = c
  BY AppendFacts DEF ModemType
<1>2. ASSUME NEW i \in 1 .. Len(cmds')
      PROVE  cmds'[i].at = "RECFDEL" \/ (i = Len(cmds) + 1 /\ cmds'[i] = c)
  <2>1. CASE i \in 1 .. Len(cmds)
    BY <1>1, <2>1 DEF Quiet
  <2>2. CASE i = Len(cmds) + 1
    BY <1>1, <2>2
  <2> QED
    BY <1>1, <2>1, <2>2
<1> QED
  BY <1>1, <1>2

\* The timer: it takes the flag and leaves the command.
LEMMA UndisturbedTimer ==
  ASSUME TypeInv, Undisturbed, VOC_REC_process
  PROVE  Undisturbed'
<1> USE DEF Undisturbed, flashVars, histVars
<1>1. ModemType /\ RecorderType
  BY DEF TypeInv
<1>2. Quiet
  BY <1>1, QuietIfNotPending
  DEF VOC_REC_process, ProcessRecording, ProcessDataRXing, ProcessDel, OneAtATime
<1>3. getPc = "idle"
  BY <1>1 DEF VOC_REC_process, ProcessRecording, ProcessDataRXing, ProcessDel,
     Steps
<1>4. CASE ProcessRecording
  <2> USE <1>4 DEF ProcessRecording
  <2> DEFINE c == [at |-> "RECSTART", name |-> names + 1, off |-> 0]
  <2>1. c \in Commands
    BY <1>1, VoiceAssumption DEF RecorderType, Commands, Names
  <2>2. /\ Len(cmds) \in Nat /\ Len(cmds') = Len(cmds) + 1
        /\ \A i \in 1 .. Len(cmds') : \/ cmds'[i].at = "RECFDEL"
                                      \/ i = Len(cmds) + 1 /\ cmds'[i] = c
    <3>1. cmds' = Append(cmds, c)
      OBVIOUS
    <3> HIDE DEF c
    <3> QED
      BY <1>1, <1>2, <2>1, <3>1, OneMoreCommand
  <2>3. OneAtATime'
    BY <1>1, <1>2, <1>3, <2>2 DEF OneAtATime, Quiet, Pending, Asked
  <2>4. ForThisState'
    BY <1>1, <1>2, <1>3, <2>2 DEF ForThisState, Steps, RecorderType, Quiet
  <2>5. Steps'
    BY <1>1, <1>2, <1>3, <2>2 DEF Steps, Quiet, Pending, Asked
  <2>6. Collected'
    BY <1>1, <1>2, <1>3, <2>2 DEF Collected, Steps, RecorderType, Names
  <2>7. Whole'
    BY <1>1, <1>2, <1>3, <2>2 DEF Whole, Steps, Collected, Quiet, Pending, Asked
  <2>8. Kept'
    BY <1>1, <1>2, <1>3, <2>2 DEF Kept, Steps, Whole, Quiet, Pending, Asked
  <2> QED
    BY <2>3, <2>4, <2>5, <2>6, <2>7, <2>8
<1>5. CASE ProcessDataRXing
  <2> USE <1>5 DEF ProcessDataRXing
  <2> DEFINE c == [at |-> "RECFGET", name |-> file_name, off |-> file_read]
  <2>1. c \in Commands
    BY <1>1, VoiceAssumption DEF RecorderType, Commands, Names
  <2>2. /\ Len(cmds) \in Nat /\ Len(cmds') = Len(cmds) + 1
        /\ \A i \in 1 .. Len(cmds') : \/ cmds'[i].at = "RECFDEL"
                                      \/ i = Len(cmds) + 1 /\ cmds'[i] = c
    <3>1. cmds' = Append(cmds, c)
      OBVIOUS
    <3> HIDE DEF c
    <3> QED
      BY <1>1, <1>2, <2>1, <3>1, OneMoreCommand
  <2>3. OneAtATime'
    BY <1>1, <1>2, <1>3, <2>2 DEF OneAtATime, Quiet, Pending, Asked
  <2>4. ForThisState'
    BY <1>1, <1>2, <1>3, <2>2 DEF ForThisState, OneAtATime, Quiet, Pending, Asked
  <2>5. Steps'
    BY <1>1, <1>2, <1>3, <2>2 DEF Steps, Quiet, Pending, Asked
  <2>6. Collected'
    BY <1>1, <1>2, <1>3, <2>2 DEF Collected, Steps, RecorderType, Quiet, Pending, Asked
  <2>7. Whole'
    BY <1>1, <1>2, <1>3, <2>2 DEF Whole, Steps, Collected, Quiet, Pending, Asked
  <2>8. Kept'
    BY <1>1, <1>2, <1>3, <2>2 DEF Kept, Steps, Whole, Quiet, Pending, Asked
  <2> QED
    BY <2>3, <2>4, <2>5, <2>6, <2>7, <2>8
<1>6. CASE ProcessDel
  <2> USE <1>6 DEF ProcessDel
  <2> DEFINE c == [at |-> "RECFDEL", name |-> NoName, off |-> 0]
  <2>1. c \in Commands
    BY <1>1, VoiceAssumption DEF RecorderType, Commands, Names
  <2>2. /\ Len(cmds) \in Nat /\ Len(cmds') = Len(cmds) + 1
        /\ \A i \in 1 .. Len(cmds') : \/ cmds'[i].at = "RECFDEL"
                                      \/ i = Len(cmds) + 1 /\ cmds'[i] = c
    <3>1. cmds' = Append(cmds, c)
      OBVIOUS
    <3> HIDE DEF c
    <3> QED
      BY <1>1, <1>2, <2>1, <3>1, OneMoreCommand
  <2>3. OneAtATime'
    BY <1>1, <1>2, <1>3, <2>2 DEF OneAtATime, Quiet, Pending, Asked
  <2>4. ForThisState'
    BY <1>1, <1>2, <1>3, <2>2 DEF ForThisState, OneAtATime, Quiet, Pending, Asked
  <2>5. Steps'
    BY <1>1, <1>2, <1>3, <2>2 DEF Steps, Quiet, Pending, Asked
  <2>6. Collected'
    BY <1>1, <1>2, <1>3, <2>2 DEF Collected, Steps, RecorderType, Quiet, Pending, Asked
  <2>7. Whole'
    BY <1>1, <1>2, <1>3, <2>2 DEF Whole, Steps, Collected, Quiet, Pending, Asked
  <2>8. Kept'
    BY <1>1, <1>2, <1>3, <2>2 DEF Kept, Steps, Whole, Quiet, Pending, Asked
  <2> QED
    BY <2>3, <2>4, <2>5, <2>6, <2>7, <2>8
<1> QED
  BY <1>4, <1>5, <1>6 DEF VOC_REC_process

\* An answer was the only thing pending.
LEMMA LineTaken ==
  ASSUME ModemType, OneAtATime, NEW what, NextLine(what),
         cmds' = cmds, recording' = recording
  PROVE  /\ Quiet' /\ ~ExcuteFlag
         /\ 1 \in 1 .. Len(lines) /\ lines[1] = Head(lines)
         /\ Head(lines) \in Answers
<1>1. /\ Len(lines) \in Nat \ {0} /\ Len(lines') = Len(lines) - 1
      /\ lines' \in Seq(Answers)
      /\ Head(lines) = lines[1] /\ Head(lines) \in Answers
  BY TailFacts DEF ModemType, NextLine
<1>2. Len(lines') = 0
  BY <1>1 DEF OneAtATime
<1>3. lines' = <<>>
  BY <1>1, <1>2, EmptySeq
<1>4. recording = NoName /\ Pending
  BY DEF OneAtATime, NextLine, Pending
<1>5. \A i \in 1 .. Len(cmds) : cmds[i].at = "RECFDEL"
  BY DEF OneAtATime, NextLine, Asked
<1> QED
  BY <1>1, <1>2, <1>3, <1>4, <1>5 DEF Quiet, OneAtATime

\* The gsm thread: what arrives is the next chunk of the file.
LEMMA UndisturbedGsm ==
  ASSUME TypeInv, Undisturbed, GsmStep
  PROVE  Undisturbed'
<1> USE DEF Undisturbed, flashVars, histVars, modemVars
<1>1. ModemType /\ RecorderType
  BY DEF TypeInv
<1>2. CASE VOC_REC_getinfolen
  <2> USE <1>2 DEF VOC_REC_getinfolen
  <2>1. /\ Quiet' /\ ~ExcuteFlag
        /\ 1 \in 1 .. Len(lines) /\ lines[1] = Head(lines)
        /\ Head(lines) \in Answers
    BY <1>1, LineTaken
  <2>2. /\ Sate = "RECORDING" /\ startPc = "idle" /\ getPc = "idle"
        /\ Pending
    BY <2>1 DEF ForThisState, NextLine, Pending
  <2>3. filesize' \in Nat \ {0}
    BY <2>1, <2>2 DEF ForThisState, NextLine, Answers
  <2>4. OneAtATime'
    BY <1>1, <2>1, <2>2, <2>3 DEF OneAtATime, Quiet, Pending, Asked
  <2>5. ForThisState'
    BY <1>1, <2>1, <2>2, <2>3 DEF ForThisState, Quiet
  <2>6. Steps'
    BY <1>1, <2>1, <2>2, <2>3 DEF Steps, Quiet
  <2>7. Collected'
    <3>1. /\ curren_PageCNT = 1 /\ half_page = 0
          /\ header = NoFile /\ file_name \in Names
      BY <2>2 DEF Steps, Collected
    <3>2. /\ Sate' = "DataRXing" /\ file_read' = 0
          /\ UNCHANGED <<curren_PageCNT, half_page, header, file_name, area, HEX,
                         startPc, getPc>>
      BY <2>2
    <3> QED
      BY <2>2, <2>3, <3>1, <3>2 DEF Collected, Slots
  <2>8. Whole'
    BY <1>1, <2>1, <2>2, <2>3 DEF Whole
  <2>9. Kept'
    BY <1>1, <2>1, <2>2, <2>3 DEF Kept, Steps
  <2> QED
    BY <2>4, <2>5, <2>6, <2>7, <2>8, <2>9
<1>3. CASE VOC_REC_dataGet
  <2> USE <1>3 DEF VOC_REC_dataGet, NextChunk
  <2>1. /\ Quiet' /\ ~ExcuteFlag
        /\ 1 \in 1 .. Len(lines) /\ lines[1] = Head(lines)
        /\ Head(lines) \in Answers
    BY <1>1, LineTaken
  <2>2. /\ Sate = "DataRXing" /\ startPc = "idle" /\ getPc = "idle"
        /\ Head(lines).name = file_name /\ Head(lines).off = file_read
    BY <2>1 DEF ForThisState, NextLine, Collected
  <2>3. HEX' = [HEX EXCEPT ![half_page + 1] = <<file_name, file_read + 1>>]
    BY <2>2
  <2>4. OneAtATime'
    BY <1>1, <2>1, <2>2, <2>3 DEF OneAtATime, Quiet, Pending, Asked
  <2>5. ForThisState'
    BY <1>1, <2>1, <2>2, <2>3 DEF ForThisState, Quiet
  <2>6. Steps'
    BY <1>1, <2>1, <2>2, <2>3 DEF Steps, Quiet, Pending, Asked
  <2>7. Collected'
    <3>1. /\ curren_PageCNT >= 1 /\ curren_PageCNT \in Nat
          /\ file_read = 2 * (curren_PageCNT - 1) + half_page
          /\ file_read < filesize /\ filesize \in 0 .. MaxChunks
          /\ \A i \in Slots : i <= 2 * (curren_PageCNT - 1) => area[i] = <<file_name, i>>
          /\ half_page = 1 => HEX[1] = <<file_name, file_read>>
          /\ half_page \in {0, 1} /\ HEX \in AnyChunk \X AnyChunk
          /\ file_name \in Names /\ header = NoFile
      BY <1>1, <2>2 DEF Collected, RecorderType
    <3>2. /\ half_page' = 1 - half_page /\ file_read' = file_read + 1
          /\ UNCHANGED <<Sate, file_name, filesize, header, startPc>>
      BY <2>2 DEF OtherHalf
    <3>3. /\ HEX'[1] = <<file_name, 2 * (curren_PageCNT - 1) + 1>>
          /\ half_page = 1 => HEX'[2] = <<file_name, 2 * curren_PageCNT>>
      <4>1. CASE half_page = 0
        BY <2>3, <3>1, <4>1
      <4>2. CASE half_page = 1
        <5>1. HEX'[1] = HEX[1] /\ HEX'[2] = <<file_name, file_read + 1>>
          BY <2>3, <3>1, <4>2
        <5> QED
          BY <3>1, <4>2, <5>1
      <4> QED
        BY <3>1, <4>1, <4>2
    <3>4. CASE half_page = 1 \/ file_read + 1 >= filesize
      <4>1. /\ WritePage(curren_PageCNT, HEX')
            /\ curren_PageCNT' = curren_PageCNT + 1
        BY <2>2, <3>1, <3>2, <3>4
      <4>2. \A i \in Slots : i <= file_read + 1 => area'[i] = <<file_name, i>>
        BY <3>1, <3>3, <4>1 DEF WritePage, Slots
      <4>3. CASE file_read + 1 >= filesize
        <5>1. getPc' = "header"
          BY <2>2, <4>3
        <5> QED
          BY <3>1, <3>2, <4>2, <4>3, <5>1, <2>2 DEF Collected, Slots
      <4>4. CASE file_read + 1 < filesize
        <5>1. getPc' = "idle" /\ half_page = 1
          BY <2>2, <3>1, <3>4, <4>4
        <5> QED
          BY <3>1, <3>2, <4>1, <4>2, <4>4, <5>1, <2>2 DEF Collected, Slots
      <4> QED
        BY <3>1, <4>3, <4>4
    <3>5. CASE half_page = 0 /\ file_read + 1 < filesize
      <4>1. UNCHANGED <<area, curren_PageCNT, getPc>>
        BY <2>2, <3>1, <3>2, <3>5
      <4> QED
        BY <2>2, <3>1, <3>2, <3>3, <3>5, <4>1 DEF Collected
    <3> QED
      BY <3>1, <3>4, <3>5
  <2>8. Whole'
    BY <1>1, <2>1, <2>2, <2>3 DEF Whole, Collected
  <2>9. Kept'
    BY <1>1, <2>1, <2>2, <2>3 DEF Kept, Steps
  <2> QED
    BY <2>4, <2>5, <2>6, <2>7, <2>8, <2>9
<1>4. CASE WriteHeader
  <2> USE <1>4 DEF WriteHeader
  <2>1. OneAtATime'
    BY <1>1 DEF OneAtATime, Pending, Asked
  <2>2. ForThisState'
    BY <1>1 DEF ForThisState
  <2>3. Steps'
    BY <1>1 DEF Steps, Pending, Asked, Collected
  <2>4. Collected'
    BY <1>1 DEF Collected, Steps, RecorderType, NoFile, NoName, Names
  <2>5. Whole'
    BY <1>1 DEF Whole, Collected, Steps
  <2>6. Kept'
    BY <1>1 DEF Kept, Steps
  <2> QED
    BY <2>1, <2>2, <2>3, <2>4, <2>5, <2>6
<1>5. CASE FinishGet
  <2> USE <1>5 DEF FinishGet
  <2>1. Quiet
    BY <1>1, QuietIfNotPending DEF Steps
  <2>2. OneAtATime'
    BY <1>1, <2>1 DEF OneAtATime, Quiet, Pending, Asked
  <2>3. ForThisState'
    BY <1>1, <2>1 DEF ForThisState, Quiet
  <2>4. Steps'
    BY <1>1, <2>1 DEF Steps, Quiet, Pending, Asked, Collected
  <2>5. Collected'
    BY <1>1, <2>1 DEF Collected, Steps, RecorderType
  <2>6. Whole'
    BY <1>1, <2>1 DEF Whole, Collected, Steps
  <2>7. Kept'
    BY <1>1, <2>1 DEF Kept, Steps, Collected
  <2> QED
    BY <2>2, <2>3, <2>4, <2>5, <2>6, <2>7
<1> QED
  BY <1>2, <1>3, <1>4, <1>5 DEF GsmStep

\* The modem takes the first command: the others move up, and when it was the
\* one that was pending, only deletions are left.
LEMMA CommandTaken ==
  ASSUME ModemType, OneAtATime, NEW at, NextCmd(at)
  PROVE  /\ Len(cmds) \in Nat \ {0} /\ Len(cmds') = Len(cmds) - 1
         /\ \A i \in 1 .. Len(cmds') : i + 1 \in 1 .. Len(cmds) /\ cmds'[i] = cmds[i + 1]
         /\ 1 \in 1 .. Len(cmds) /\ Head(cmds) = cmds[1] /\ cmds[1].at = at
         /\ Head(cmds) \in Commands
         /\ at # "RECFDEL" =>
              /\ \A i \in 1 .. Len(cmds') : cmds'[i].at = "RECFDEL"
              /\ lines = <<>> /\ Len(lines) = 0 /\ recording = NoName /\ ~ExcuteFlag
<1>1. /\ Len(cmds) \in Nat \ {0} /\ Len(cmds') = Len(cmds) - 1
      /\ Head(cmds) = cmds[1] /\ Head(cmds) \in Commands
      /\ \A i \in 1 .. Len(cmds) - 1 : cmds'[i] = cmds[i + 1]
      /\ Head(cmds).at = at
  BY TailFacts DEF ModemType, NextCmd
<1>2. /\ 1 \in 1 .. Len(cmds)
      /\ \A i \in 1 .. Len(cmds') : i + 1 \in 1 .. Len(cmds) /\ cmds'[i] = cmds[i + 1]
  BY <1>1
<1>3. ASSUME at # "RECFDEL"
      PROVE  /\ \A i \in 1 .. Len(cmds') : cmds'[i].at = "RECFDEL"
             /\ lines = <<>> /\ Len(lines) = 0 /\ recording = NoName /\ ~ExcuteFlag
  <2>1. Asked(1)
    BY <1>1, <1>2, <1>3 DEF Asked
  <2>2. lines = <<>> /\ recording = NoName /\ ~ExcuteFlag
    BY <1>2, <2>1 DEF OneAtATime, Pending
  <2>3. Len(lines) = 0
    BY <2>2, EmptySeq
  <2>4. ASSUME NEW i \in 1 .. Len(cmds') PROVE cmds'[i].at = "RECFDEL"
    <3>1. i + 1 \in 1 .. Len(cmds) /\ cmds'[i] = cmds[i + 1] /\ i + 1 # 1
      BY <1>1, <1>2
    <3>2. ~Asked(i + 1)
      BY <1>2, <2>1, <3>1 DEF OneAtATime
    <3> QED
      BY <3>1, <3>2 DEF Asked
  <2> QED
    BY <2>2, <2>3, <2>4
<1> QED
  BY <1>1, <1>2, <1>3

\* The modem turns what is pending into its next form.
LEMMA UndisturbedModem ==
  ASSUME TypeInv, Undisturbed, ModemStep
  PROVE  Undisturbed'
<1> USE DEF Undisturbed, flashVars, histVars, recVars
<1>1. ModemType /\ RecorderType
  BY DEF TypeInv
<1>2. CASE ModemRecord
  <2> USE <1>2 DEF ModemRecord
  <2>1. /\ \A i \in 1 .. Len(cmds') : cmds'[i].at = "RECFDEL"
        /\ lines = <<>> /\ Len(lines) = 0 /\ recording = NoName /\ ~ExcuteFlag
        /\ 1 \in 1 .. Len(cmds) /\ cmds[1].at = "RECSTART"
    BY <1>1, CommandTaken
  <2>2. /\ Sate = "RECORDING" /\ startPc \in {"idle", "page"} /\ getPc = "idle"
        /\ Pending
    BY <2>1 DEF ForThisState, Steps, Pending, Asked
  <2>3. OneAtATime'
    BY <1>1, <2>1, <2>2 DEF OneAtATime, Pending, Asked
  <2>4. ForThisState'
    BY <1>1, <2>1, <2>2 DEF ForThisState
  <2>5. Steps'
    BY <1>1, <2>1, <2>2 DEF Steps, Pending, Asked
  <2>6. Collected'
    BY <1>1, <2>1, <2>2 DEF Collected, Pending, Asked
  <2>7. Whole'
    BY <1>1, <2>1, <2>2 DEF Whole
  <2>8. Kept'
    BY <1>1, <2>1, <2>2 DEF Kept
  <2> QED
    BY <2>3, <2>4, <2>5, <2>6, <2>7, <2>8
<1>3. CASE ModemGet
  <2> USE <1>3 DEF ModemGet
  <2>1. /\ \A i \in 1 .. Len(cmds') : cmds'[i].at = "RECFDEL"
        /\ lines = <<>> /\ Len(lines) = 0 /\ recording = NoName /\ ~ExcuteFlag
        /\ 1 \in 1 .. Len(cmds) /\ cmds[1].at = "RECFGET" /\ Head(cmds) = cmds[1]
        /\ Head(cmds) \in Commands
    BY <1>1, CommandTaken
  <2>2. /\ Sate = "DataRXing" /\ getPc = "idle"
        /\ Head(cmds).name = file_name /\ Head(cmds).off = file_read
    BY <2>1 DEF ForThisState, Steps, Pending, Asked
  <2>3. /\ Len(lines') <= 1
        /\ \A i \in 1 .. Len(lines') :
             /\ lines'[i].what = "RECFGET"
             /\ lines'[i].name = file_name /\ lines'[i].off = file_read
    <3> DEFINE answer == [what |-> "RECFGET", name |-> file_name,
                          off |-> file_read, size |-> 0]
    <3>1. lines' = Append(<<>>, answer) \/ lines' = lines
      BY <2>1, <2>2
    <3>2. Append(<<>>, answer) = <<answer>>
      OBVIOUS
    <3> QED
      BY <2>1, <3>1, <3>2
  <2>4. OneAtATime'
    BY <1>1, <2>1, <2>2, <2>3 DEF OneAtATime, Pending, Asked
  <2>5. ForThisState'
    BY <1>1, <2>1, <2>2, <2>3 DEF ForThisState
  <2>6. Steps'
    BY <1>1, <2>1, <2>2, <2>3 DEF Steps, Pending, Asked
  <2>7. Collected'
    BY <1>1, <2>1, <2>2, <2>3 DEF Collected, Pending, Asked
  <2>8. Whole'
    BY <1>1, <2>1, <2>2, <2>3 DEF Whole
  <2>9. Kept'
    BY <1>1, <2>1, <2>2, <2>3 DEF Kept
  <2> QED
    BY <2>4, <2>5, <2>6, <2>7, <2>8, <2>9
<1>4. CASE ModemDelete
  <2> USE <1>4 DEF ModemDelete
  <2>1. /\ Len(cmds) \in Nat /\ Len(cmds') = Len(cmds) - 1
        /\ \A i \in 1 .. Len(cmds') : i + 1 \in 1 .. Len(cmds) /\ cmds'[i] = cmds[i + 1]
    BY <1>1, CommandTaken
  <2>2. \A i \in 1 .. Len(cmds') : Asked(i)' => Asked(i + 1)
    BY <2>1 DEF Asked
  <2>3. Pending' => Pending
    BY <2>1, <2>2 DEF Pending
  <2>4. OneAtATime'
    BY <1>1, <2>1, <2>2, <2>3 DEF OneAtATime
  <2>5. ForThisState'
    BY <1>1, <2>1, <2>2, <2>3 DEF ForThisState
  <2>6. Steps'
    BY <1>1, <2>1, <2>2, <2>3 DEF Steps
  <2>7. Collected'
    BY <1>1, <2>1, <2>2, <2>3 DEF Collected
  <2>8. Whole'
    BY <1>1, <2>1, <2>2, <2>3 DEF Whole
  <2>9. Kept'
    BY <1>1, <2>1, <2>2, <2>3 DEF Kept
  <2> QED
    BY <2>4, <2>5, <2>6, <2>7, <2>8, <2>9
<1>5. ASSUME NEW size \in Chunks, ModemStop(size) PROVE Undisturbed'
  <2> USE <1>5 DEF ModemStop
  <2>1. /\ \A i \in 1 .. Len(cmds) : cmds[i].at = "RECFDEL"
        /\ lines = <<>> /\ ~ExcuteFlag /\ Pending
    BY DEF OneAtATime, Pending, Asked
  <2>2. /\ Len(lines') = 1
        /\ \A i \in 1 .. Len(lines') : lines'[i].what = "RECSTOP" /\ lines'[i].size = size
    <3> DEFINE answer == [what |-> "RECSTOP", name |-> recording, off |-> 0,
                          size |-> size]
    <3>1. lines' = Append(<<>>, answer)
      BY <2>1
    <3>2. answer.what = "RECSTOP" /\ answer.size = size
      OBVIOUS
    <3> HIDE <1>5 DEF answer
    <3>3. Append(<<>>, answer) = <<answer>>
      OBVIOUS
    <3> QED
      BY <3>1, <3>2, <3>3
  <2>3. Sate = "RECORDING" /\ startPc = "idle" /\ size >= 1
    BY DEF ForThisState, Chunks
  <2>4. OneAtATime'
    BY <1>1, <2>1, <2>2, <2>3 DEF OneAtATime, Pending, Asked
  <2>5. ForThisState'
    BY <1>1, <2>1, <2>2, <2>3 DEF ForThisState
  <2>6. Steps'
    BY <1>1, <2>1, <2>2, <2>3 DEF Steps, Pending, Asked
  <2>7. Collected'
    BY <1>1, <2>1, <2>2, <2>3 DEF Collected, Pending, Asked
  <2>8. Whole'
    BY <1>1, <2>1, <2>2, <2>3 DEF Whole
  <2>9. Kept'
    BY <1>1, <2>1, <2>2, <2>3 DEF Kept
  <2> QED
    BY <2>4, <2>5, <2>6, <2>7, <2>8, <2>9
<1> QED
  BY <1>2, <1>3, <1>4, <1>5 DEF ModemStep

\* The end of an upload, the menu, and the faults.
LEMMA UndisturbedRest ==
  ASSUME TypeInv, Undisturbed, ~orphaned',
         \/ Sound_send_end \/ UsbMenuKey \/ ModemRestart \/ PowerCut
         \/ UNCHANGED voiceVars
  PROVE  Undisturbed'
<1> USE DEF Undisturbed, flashVars, histVars, recVars, modemVars
<1>1. ModemType /\ RecorderType
  BY DEF TypeInv
<1>2. CASE Sound_send_end
  <2> USE <1>2 DEF Sound_send_end
  <2>0. Sate = "IDLE" /\ startPc = "idle"
    OBVIOUS
  <2>1. OneAtATime'
    BY <1>1, <2>0 DEF OneAtATime, Pending, Asked
  <2>2. ForThisState'
    BY <1>1, <2>0 DEF ForThisState
  <2>3. Steps'
    BY <1>1, <2>0 DEF Steps, Pending, Asked
  <2>4. Collected'
    BY <1>1, <2>0 DEF Collected, Pending, Asked
  <2>5. Whole'
    BY <1>1, <2>0 DEF Whole
  <2>6. Kept'
    BY <1>1, <2>0 DEF Kept
  <2> QED
    BY <2>1, <2>2, <2>3, <2>4, <2>5, <2>6
<1>3. CASE UsbMenuKey
  <2> USE <1>3 DEF UsbMenuKey
  <2>1. OneAtATime'
    BY <1>1 DEF OneAtATime, Pending, Asked
  <2>2. ForThisState'
    BY <1>1 DEF ForThisState
  <2>3. Steps'
    BY <1>1 DEF Steps, Pending, Asked
  <2>4. Collected'
    BY <1>1 DEF Collected, Pending, Asked
  <2>5. Whole'
    BY <1>1 DEF Whole
  <2>6. Kept'
    BY <1>1 DEF Kept
  <2> QED
    BY <2>1, <2>2, <2>3, <2>4, <2>5, <2>6
<1>4. CASE ModemRestart \/ PowerCut
  <2>0. cmds' = <<>> /\ lines' = <<>> /\ recording' = NoName /\ Len(cmds') = 0
        /\ Len(lines') = 0
    BY <1>4 DEF ModemRestart, PowerCut
  <2> USE <1>4 DEF ModemRestart, PowerCut
  <2>1. OneAtATime'
    BY <1>1, <2>0 DEF OneAtATime, Pending, Asked
  <2>2. ForThisState'
    BY <1>1, <2>0 DEF ForThisState
  <2>3. Steps'
    BY <1>1, <2>0 DEF Steps, Pending, Asked
  <2>4. Collected'
    BY <1>1, <2>0 DEF Collected, Pending, Asked
  <2>5. Whole'
    BY <1>1, <2>0 DEF Whole
  <2>6. Kept'
    BY <1>1, <2>0 DEF Kept
  <2> QED
    BY <2>1, <2>2, <2>3, <2>4, <2>5, <2>6
<1>5. CASE UNCHANGED voiceVars
  <2> USE <1>5 DEF voiceVars
  <2>1. OneAtATime'
    BY <1>1 DEF OneAtATime, Pending, Asked
  <2>2. ForThisState'
    BY <1>1 DEF ForThisState
  <2>3. Steps'
    BY <1>1 DEF Steps, Pending, Asked
  <2>4. Collected'
    BY <1>1 DEF Collected, Pending, Asked
  <2>5. Whole'
    BY <1>1 DEF Whole
  <2>6. Kept'
    BY <1>1 DEF Kept
  <2> QED
    BY <2>1, <2>2, <2>3, <2>4, <2>5, <2>6
<1> QED
  BY <1>2, <1>3, <1>4, <1>5

\* Nothing ever takes back that the recorder was disturbed.
LEMMA OrphanedStays ==
  ASSUME TypeInv, [Next]_voiceVars, orphaned
  PROVE  orphaned'
<1> USE DEF histVars
<1>1. CASE AppStep \/ VOC_REC_process
  BY <1>1 DEF AppStep, VOC_REC_Start, StartState, StartFlag, StartPage,
     VOC_REC_process, ProcessRecording, ProcessDataRXing, ProcessDel
<1>2. CASE GsmStep
  BY <1>2 DEF GsmStep, VOC_REC_getinfolen, VOC_REC_dataGet, WriteHeader, FinishGet
<1>3. CASE ModemStep
  BY <1>3 DEF ModemStep, ModemRecord, ModemGet, ModemDelete, ModemStop
<1>4. CASE Sound_send_end \/ UsbMenuKey \/ ModemRestart \/ PowerCut
  BY <1>4 DEF Sound_send_end, UsbMenuKey, ModemRestart, PowerCut
<1>5. CASE UNCHANGED voiceVars
  BY <1>5 DEF voiceVars
<1> QED
  BY <1>1, <1>2, <1>3, <1>4, <1>5 DEF Next

\* The inductive step.
LEMMA UndisturbedStep == TypeInv /\ UInv /\ [Next]_voiceVars => UInv'
<1> SUFFICES ASSUME TypeInv, UInv, [Next]_voiceVars, ~orphaned'
             PROVE  Undisturbed'
  BY DEF UInv
<1>1. Undisturbed
  BY OrphanedStays DEF UInv
<1> QED
  BY <1>1, UndisturbedApp, UndisturbedTimer, UndisturbedGsm, UndisturbedModem,
     UndisturbedRest DEF Next

\* So it holds in every state.
LEMMA UndisturbedAlways == Spec => []UInv
<1>1. Init => UInv
  BY UndisturbedInit
<1>2. TypeInv /\ UInv /\ [Next]_voiceVars => UInv'
  BY UndisturbedStep
<1> QED
  BY <1>1, <1>2, TypesAlways, PTL DEF Spec

\* A voice file whose first page is in the flash is complete, whatever the size
\* of the recording, and whenever power fails or the modem starts again.
THEOREM VoiceFileComplete == Spec => []VoiceFileWhole
<1>1. TypeInv /\ UInv => VoiceFileWhole
  BY VoiceAssumption
  DEF TypeInv, RecorderType, UInv, Undisturbed, Whole, VoiceFileWhole, Slots
<1> QED
  BY <1>1, TypesAlways, UndisturbedAlways, PTL

\* A voice file is not erased before its upload has ended.
THEOREM VoiceFileKept == Spec => []VoiceKept
<1>1. UInv => VoiceKept
  BY DEF UInv, Undisturbed, Kept, VoiceKept
<1> QED
  BY <1>1, UndisturbedAlways, PTL
=============================================================================
