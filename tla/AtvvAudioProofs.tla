--------------------------- MODULE AtvvAudioProofs ---------------------------
(* Machine-checked, for any limit and any number of runs: the satellite       *)
(* records or runs one utterance at a time, what it records belongs to one    *)
(* press, and a recording of PCM is one piece of one stream.                  *)
EXTENDS AtvvAudio, FiniteSetTheorems, TLAPS

(* ------------------------------ the invariant ---------------------------- *)

\* Only the task in _processing_task is alive.
RunIsKnown == Alive \subseteq {processing}

OneUtterance ==
  /\ timeout <=> buffer # None
  /\ buffer # None => Alive = {}
  /\ ~loaded => buffer = None /\ Alive = {}

\* After the run of a press, unless it was short, no packet is recorded: the run goes
\* on, or the stream is over, or nobody listens.
AnsweredOnce ==
  answered # "no" /\ ~short =>
    /\ answered = "once"
    /\ buffer.packets = 0
    /\ Alive # {} \/ ~stream \/ ~loaded

EndsWithKey == transport = "opus" /\ buffer # None => held \/ late

SInv == TypeOK /\ RunIsKnown /\ OneUtterance /\ AnsweredOnce /\ EndsWithKey

\* A stream left alone is recorded in step: its decoder is right or missing, and one
\* that is missing, or a stream that is over, has nothing in the buffer.
InStep ==
  transport = "pcm" =>
    /\ missed \/ spliced \/ decoder = "wrong" => disturbed
    /\ decoder = "none" /\ ~disturbed => buffer.packets = 0
    /\ ~stream => buffer.packets = 0

IInv == SInv /\ InStep

(* ---------------------------- the satellite's steps ---------------------- *)

LEMMA BufferFacts ==
  ASSUME TypeOK
  PROVE  /\ buffer.packets \in 0 .. MaxPackets
         /\ buffer.kind \in {"none", "opus", "pcm"}
         /\ buffer.packets > 0 => buffer # None
         /\ None.packets = 0 /\ None \in [kind : {"none", "opus", "pcm"}, packets : 0 .. MaxPackets]
  BY LimitAssumption DEF TypeOK, None

LEMMA FinishStep ==
  ASSUME SInv, FinishRecording
  PROVE  /\ timeout' = FALSE /\ buffer' = None /\ buffer'.packets = 0
         /\ pc' \in [Runs -> {"idle", "decode", "pipeline"}]
         /\ processing' \in Runs \cup {NoRun}
         /\ playing' \in 0 .. MaxResponses /\ state' \in {"idle", "listening", "responding"}
         /\ answered' \in {"no", "once", "again"}
         /\ RunIsKnown'
         /\ ~loaded => Alive' = {}
         /\ answered' # "no" /\ ~short =>
              answered' = "once" /\ (Alive' # {} \/ ~stream \/ ~loaded)
<1>1. CASE buffer.packets > 0
  <2>1. Alive = {} /\ buffer # None /\ loaded
    BY <1>1, BufferFacts DEF SInv, OneUtterance
  <2>2. PICK r \in Runs \ Alive :
          /\ pc' = [pc EXCEPT ![r] = IF buffer.kind = "opus" THEN "decode" ELSE "pipeline"]
          /\ processing' = r
          /\ answered' = CASE answered = "no" -> "once" [] OTHER -> "again"
          /\ UNCHANGED <<playing, state>>
    BY <1>1 DEF FinishRecording
  <2>3. Alive' = {r}
    BY <2>1, <2>2 DEF Alive, SInv, TypeOK
  <2>4. answered # "no" /\ ~short => FALSE
    BY <1>1, BufferFacts DEF SInv, AnsweredOnce
  <2> QED
    BY <2>1, <2>2, <2>3, <2>4, BufferFacts
    DEF FinishRecording, SInv, TypeOK, RunIsKnown, TimeoutCancelled
<1>2. CASE ~(buffer.packets > 0)
  <2>1. UNCHANGED <<assist, answered>> /\ state' = "idle" /\ timeout' = FALSE /\ buffer' = None
    BY <1>2 DEF FinishRecording, TimeoutCancelled
  <2>2. Alive' = Alive
    BY <2>1 DEF Alive, assist
  <2> QED
    BY <2>1, <2>2, BufferFacts
    DEF SInv, TypeOK, RunIsKnown, OneUtterance, AnsweredOnce, assist
<1> QED
  BY <1>1, <1>2

LEMMA StartStep ==
  ASSUME SInv, NEW kind \in {"opus", "pcm"}, StartRecording(kind)
  PROVE  /\ buffer' \in [kind : {"none", "opus", "pcm"}, packets : 0 .. MaxPackets]
         /\ timeout' \in BOOLEAN /\ state' \in {"idle", "listening", "responding"}
         /\ timeout' <=> buffer' # None
         /\ buffer' # None => Alive = {}
         /\ buffer'.packets = 0 \/ buffer' = buffer
         /\ ~(buffer = None /\ Alive = {}) => buffer' = buffer
<1>1. Empty(kind) # None /\ Empty(kind).packets = 0
      /\ Empty(kind) \in [kind : {"none", "opus", "pcm"}, packets : 0 .. MaxPackets]
  BY LimitAssumption DEF Empty, None
<1>2. MayStart => Alive = {} /\ buffer = None
  BY DEF MayStart, SInv, RunIsKnown
<1> QED
  BY <1>1, <1>2 DEF StartRecording, SInv, TypeOK, OneUtterance, recording

LEMMA PressStep ==
  ASSUME SInv, Press
  PROVE  SInv'
<1>1. /\ Alive' = Alive /\ UNCHANGED <<loaded, stream, transport, pc, processing, playing>>
      /\ StartRecording("opus") /\ loaded /\ held' = TRUE
      /\ answered' = "no" /\ late' = FALSE /\ short' = FALSE
  BY DEF Press, Alive, assist, entity
<1>2. TypeOK'
  BY <1>1, StartStep DEF SInv, TypeOK
<1>3. RunIsKnown'
  BY <1>1 DEF SInv, RunIsKnown
<1>4. OneUtterance'
  BY <1>1, StartStep DEF SInv, OneUtterance
<1>5. AnsweredOnce' /\ EndsWithKey'
  BY <1>1 DEF AnsweredOnce, EndsWithKey
<1> QED
  BY <1>2, <1>3, <1>4, <1>5 DEF SInv

LEMMA EndStep ==
  ASSUME SInv, FinishRecording, UNCHANGED <<loaded, transport, short>>,
         held' \in BOOLEAN, stream' \in BOOLEAN, late' \in BOOLEAN, stream' => stream
  PROVE  SInv'
<1>1. TypeOK'
  BY FinishStep, BufferFacts DEF SInv, TypeOK
<1>2. RunIsKnown'
  BY FinishStep
<1>3. buffer' = None /\ buffer'.packets = 0 /\ timeout' = FALSE /\ (~loaded => Alive' = {})
  BY FinishStep
<1>4. OneUtterance' /\ EndsWithKey'
  BY <1>3 DEF OneUtterance, EndsWithKey
<1>5. answered' # "no" /\ ~short => answered' = "once" /\ (Alive' # {} \/ ~stream \/ ~loaded)
  BY FinishStep
<1>6. AnsweredOnce'
  BY <1>3, <1>5 DEF AnsweredOnce
<1> QED
  BY <1>1, <1>2, <1>4, <1>6 DEF SInv

LEMMA ReleaseStep ==
  ASSUME SInv, Release
  PROVE  SInv'
<1>1. /\ FinishRecording /\ UNCHANGED <<loaded, transport, late, short>>
      /\ held' = FALSE /\ stream' \in {stream, FALSE}
  BY DEF Release, EndByRelease, entity
<1>2. held' \in BOOLEAN /\ stream' \in BOOLEAN /\ late' \in BOOLEAN
  BY <1>1 DEF SInv, TypeOK
<1>3. stream' => stream
  BY <1>1
<1> QED
  BY <1>1, <1>2, <1>3, EndStep

LEMMA StreamEndsStep ==
  ASSUME SInv, StreamEnds
  PROVE  SInv'
<1>1. /\ FinishRecording /\ UNCHANGED <<loaded, transport, late, short>> /\ stream
      /\ held' \in {held, FALSE} /\ stream' \in BOOLEAN
  BY DEF StreamEnds, entity
<1> QED
  BY <1>1, EndStep DEF SInv, TypeOK

LEMMA StreamStep ==
  ASSUME SInv, StreamStarts \/ OpusEnds
  PROVE  SInv'
<1>1. /\ Alive' = Alive /\ stream' \in BOOLEAN
      /\ UNCHANGED <<held, buffer, timeout, pc, processing, playing, state, transport, loaded,
                    answered, late, short>>
  BY DEF StreamStarts, OpusEnds, Alive, assist, recording, entity, history
<1>2. answered = "no" \/ ~stream'
  BY DEF StreamStarts, OpusEnds
<1>3. TypeOK'
  BY <1>1 DEF SInv, TypeOK
<1>4. RunIsKnown' /\ OneUtterance' /\ EndsWithKey'
  BY <1>1 DEF SInv, RunIsKnown, OneUtterance, EndsWithKey
<1>5. AnsweredOnce'
  BY <1>1, <1>2 DEF SInv, AnsweredOnce
<1> QED
  BY <1>3, <1>4, <1>5 DEF SInv

LEMMA PacketStep ==
  ASSUME SInv, Packet
  PROVE  SInv'
<1>1. /\ loaded /\ stream /\ UNCHANGED <<remote, entity, short>>
      /\ late' = (late \/ (transport = "opus" /\ ~held)) /\ late' \in BOOLEAN
  BY DEF Packet, SInv, TypeOK
<1>2. CASE FirstPacket
  <2>1. Alive' = Alive /\ answered' = answered /\ playing' = playing /\ processing' = processing
        /\ pc' = pc
    BY <1>2 DEF FirstPacket, Alive, assist
  <2>2. CASE MayStart
    <3>1. buffer' = [kind |-> transport, packets |-> 1] /\ timeout' = TRUE /\ state' = "listening"
      BY <1>2, <2>2 DEF FirstPacket
    <3>2. Alive = {} /\ buffer' # None
      BY <2>2, <3>1 DEF MayStart, SInv, RunIsKnown, None
    <3>3. buffer' \in [kind : {"none", "opus", "pcm"}, packets : 0 .. MaxPackets]
      BY <3>1, LimitAssumption DEF SInv, TypeOK
    <3>4. answered # "no" /\ ~short => FALSE
      BY <1>1, <3>2 DEF SInv, AnsweredOnce
    <3> QED
      BY <1>1, <2>1, <3>1, <3>2, <3>3, <3>4
      DEF SInv, TypeOK, RunIsKnown, OneUtterance, AnsweredOnce, EndsWithKey, remote, entity
  <2>3. CASE ~MayStart
    BY <1>1, <1>2, <2>1, <2>3
    DEF FirstPacket, SInv, TypeOK, RunIsKnown, OneUtterance, AnsweredOnce, EndsWithKey, remote,
        entity, recording
  <2> QED
    BY <2>2, <2>3
<1>3. CASE NextPacket /\ Fits
  <2>1. CASE buffer' = [buffer EXCEPT !.packets = @ + 1]
             /\ UNCHANGED <<timeout, assist, state, answered>>
    <3>1. buffer' \in [kind : {"none", "opus", "pcm"}, packets : 0 .. MaxPackets]
      BY <1>3, <2>1, BufferFacts, LimitAssumption DEF SInv, TypeOK, Fits
    <3>2. buffer.kind = transport /\ buffer'.kind = buffer.kind /\ transport \in {"opus", "pcm"}
      BY <1>3, <2>1 DEF SInv, TypeOK, Fits
    <3>3. buffer' # None
      BY <3>2 DEF None
    <3>4. Alive' = Alive /\ Alive = {} /\ buffer # None /\ timeout
      BY <1>3, <2>1 DEF Alive, assist, NextPacket, SInv, OneUtterance
    <3>5. answered # "no" /\ ~short => FALSE
      BY <1>1, <3>4 DEF SInv, AnsweredOnce
    <3>6. TypeOK'
      BY <1>1, <2>1, <3>1 DEF SInv, TypeOK, remote, entity, assist
    <3>7. RunIsKnown' /\ OneUtterance'
      BY <1>1, <2>1, <3>3, <3>4 DEF RunIsKnown, OneUtterance, entity
    <3>8. AnsweredOnce' /\ EndsWithKey'
      BY <1>1, <2>1, <3>5 DEF AnsweredOnce, EndsWithKey, remote, entity, SInv, TypeOK
    <3> QED
      BY <3>6, <3>7, <3>8 DEF SInv
  <2> QED
    BY <1>3, <2>1 DEF NextPacket
<1>4. CASE NextPacket /\ ~Fits
  <2>1. FinishRecording
    BY <1>4 DEF NextPacket
  <2>2. UNCHANGED <<loaded, transport, short, held, stream>>
    BY <1>1 DEF remote, entity
  <2> QED
    BY <1>1, <2>1, <2>2, EndStep DEF SInv, TypeOK
<1> QED
  BY <1>2, <1>3, <1>4 DEF Packet

LEMMA TimeoutStep ==
  ASSUME SInv, Timeout
  PROVE  SInv'
<1>1. FinishRecording /\ UNCHANGED <<held, stream, transport, loaded, late, short>>
  BY DEF Timeout, remote, entity
<1> QED
  BY <1>1, EndStep DEF SInv, TypeOK

LEMMA RunStep ==
  ASSUME SInv, NEW r \in Runs, Decoded(r) \/ RunFails(r) \/ RunEnds(r)
  PROVE  SInv'
<1>1. CASE Decoded(r)
  <2>1. Alive' = Alive
    BY <1>1 DEF Decoded, Alive, SInv, TypeOK
  <2> QED
    BY <1>1, <2>1
    DEF Decoded, SInv, TypeOK, RunIsKnown, OneUtterance, AnsweredOnce, EndsWithKey, remote,
        recording, entity, history
<1>2. CASE RunFails(r) \/ RunEnds(r)
  <2>1. /\ pc' = [pc EXCEPT ![r] = "idle"] /\ processing' = NoRun
        /\ short' = (short \/ stream)
        /\ UNCHANGED <<remote, recording, entity, answered, late>>
        /\ playing' \in 0 .. MaxResponses /\ state' \in {"idle", "responding"}
    BY <1>2, ResponseAssumption DEF RunFails, RunEnds, SInv, TypeOK
  <2>2. r \in Alive
    BY <1>2 DEF RunFails, RunEnds, Alive
  <2>3. Alive' = {}
    BY <2>1, <2>2 DEF Alive, SInv, TypeOK, RunIsKnown
  <2>4. TypeOK'
    BY <2>1 DEF SInv, TypeOK, remote, recording, entity
  <2>5. RunIsKnown' /\ OneUtterance' /\ EndsWithKey'
    BY <2>1, <2>3
    DEF SInv, RunIsKnown, OneUtterance, EndsWithKey, remote, recording, entity
  <2>6. AnsweredOnce'
    BY <2>1, <2>3 DEF SInv, TypeOK, AnsweredOnce, remote, recording, entity
  <2> QED
    BY <2>4, <2>5, <2>6 DEF SInv
<1> QED
  BY <1>1, <1>2

LEMMA PlayedStep ==
  ASSUME SInv, ResponsePlayed
  PROVE  SInv'
<1>1. Alive' = Alive
  BY DEF ResponsePlayed, Alive
<1>2. playing' \in 0 .. MaxResponses
  BY ResponseAssumption DEF ResponsePlayed, SInv, TypeOK
<1> QED
  BY <1>1, <1>2
  DEF ResponsePlayed, Played, SInv, TypeOK, RunIsKnown, OneUtterance, AnsweredOnce, EndsWithKey,
      remote, recording, entity, history

LEMMA RemoveStep ==
  ASSUME SInv, Remove
  PROVE  SInv'
<1>1. Alive' = {}
  BY DEF Remove, RunsCancelled, Alive, SInv, RunIsKnown
<1>2. pc' \in [Runs -> {"idle", "decode", "pipeline"}]
  BY DEF Remove, RunsCancelled, SInv, TypeOK
<1> QED
  BY <1>1, <1>2, BufferFacts
  DEF Remove, SInv, TypeOK, RunIsKnown, OneUtterance, AnsweredOnce, EndsWithKey, remote, history

LEMMA SameSatellite ==
  ASSUME SInv, UNCHANGED vars
  PROVE  SInv'
<1>1. Alive' = Alive
  BY DEF vars, assist, Alive
<1> QED
  BY <1>1
  DEF vars, remote, recording, assist, entity, history, SInv, TypeOK, RunIsKnown, OneUtterance,
      AnsweredOnce, EndsWithKey

\* A step of the specification is one of the satellite or leaves it alone.
LEMMA SatelliteStep ==
  ASSUME SInv, [AtvvNext]_allVars
  PROVE  SInv'
<1>1. \/ UNCHANGED vars \/ Press \/ Release \/ Remove \/ StreamStarts \/ OpusEnds \/ StreamEnds
      \/ Packet \/ Timeout \/ ResponsePlayed
      \/ \E r \in Runs : Decoded(r) \/ RunFails(r) \/ RunEnds(r)
  <2>1. CASE UNCHANGED allVars
    BY <2>1 DEF allVars
  <2>2. CASE AtvvNext
    BY <2>2
    DEF AtvvNext, Capabilities, Search, AudioStarts, AudioSync, AudioStops, Decodable, Others,
        TimesOut, Plays, Ends, Drops, Undecodable, FailsAloud
  <2> QED
    BY <2>1, <2>2
<1> QED
  BY <1>1, PressStep, ReleaseStep, RemoveStep, StreamStep, StreamEndsStep, PacketStep,
     TimeoutStep, PlayedStep, RunStep, SameSatellite

(* -------------------------------- the sound ------------------------------ *)

LEMMA KeepsBuffer ==
  ASSUME UNCHANGED vars
  PROVE  UNCHANGED <<buffer, stream, transport>>
  BY DEF vars, recording, remote, entity

\* What the other actions do to the buffer of a PCM recording.
LEMMA BufferStep ==
  ASSUME SInv, transport = "pcm"
  PROVE  /\ StreamEnds => buffer'.packets = 0
         /\ Timeout => buffer'.packets = 0 /\ UNCHANGED <<stream, transport>>
         /\ Release => buffer'.packets = 0 /\ UNCHANGED <<stream, transport>>
         /\ Remove => buffer'.packets = 0 /\ UNCHANGED <<stream, transport>>
         /\ Press => buffer'.packets \in {0, buffer.packets} /\ UNCHANGED <<stream, transport>>
         /\ Packet => UNCHANGED <<stream, transport>>
<1>1. StreamEnds => FinishRecording
  BY DEF StreamEnds
<1>2. Timeout => FinishRecording /\ UNCHANGED <<stream, transport>>
  BY DEF Timeout, remote, entity
<1>3. Release => FinishRecording /\ UNCHANGED <<stream, transport>>
  BY DEF Release, EndByRelease, entity
<1>4. Remove => buffer'.packets = 0 /\ UNCHANGED <<stream, transport>>
  BY DEF Remove, None, remote
<1>5. Press => StartRecording("opus") /\ UNCHANGED <<stream, transport>>
  BY DEF Press, entity
<1>6. Packet => UNCHANGED <<stream, transport>>
  BY DEF Packet, remote, entity
<1>7. StartRecording("opus") => buffer'.packets \in {0, buffer.packets}
  BY StartStep
<1> QED
  BY <1>1, <1>2, <1>3, <1>4, <1>5, <1>6, <1>7, FinishStep

LEMMA NothingRecorded ==
  ASSUME NEW lost, Records(lost), buffer'.packets = 0
  PROVE  missed' = FALSE /\ spliced' = FALSE
<1>1. ~(buffer'.packets > 0)
  OBVIOUS
<1> QED
  BY <1>1, Zenon DEF Records

LEMMA SoundStep ==
  ASSUME SInv, InStep, [AtvvNext]_allVars
  PROVE  InStep'
<1> SUFFICES ASSUME transport' = "pcm" PROVE InStep'
  BY DEF InStep
<1>t. transport = "pcm"
  BY DEF AtvvNext, allVars, vars, entity, Capabilities, Search, AudioStarts, AudioSync, AudioStops,
         Decodable, Others, TimesOut, Plays, Ends, Drops, Undecodable, FailsAloud, Press, Release,
         Remove, StreamStarts, OpusEnds, StreamEnds, Packet, Timeout, ResponsePlayed, Decoded,
         RunFails, RunEnds
<1>b. buffer.packets \in Nat
  BY BufferFacts DEF SInv
<1>1. CASE (Capabilities \/ Search \/ AudioSync) /\ Records(FALSE)
  <2>1. UNCHANGED <<buffer, stream, transport>> /\ buffer'.packets = buffer.packets
    BY <1>1, KeepsBuffer DEF Capabilities, Search, AudioSync
  <2> QED
    BY <1>1, <1>t, <1>b, <2>1 DEF Capabilities, Search, AudioSync, Records, InStep
<1>2. CASE AudioStarts /\ Records(FALSE)
  <2>1. CASE StreamStarts /\ disturbed' = FALSE
    <3>1. buffer.packets = 0 /\ buffer' = buffer
      BY <1>t, <2>1 DEF StreamStarts, InStep, recording
    <3>2. missed' = FALSE /\ spliced' = FALSE /\ buffer'.packets = 0
      BY <1>2, <3>1, NothingRecorded
    <3>3. decoder' # "wrong"
      BY <1>2 DEF AudioStarts
    <3> QED
      BY <3>2, <3>3 DEF InStep
  <2>2. CASE stream /\ disturbed' = TRUE /\ UNCHANGED vars
    BY <1>2, <2>2, KeepsBuffer DEF AudioStarts, Records, InStep
  <2> QED
    BY <1>2, <2>1, <2>2 DEF AudioStarts
<1>3. CASE (AudioStops /\ Records(FALSE)) \/ (Undecodable /\ Records(TRUE))
  <2>1. buffer'.packets = 0 /\ decoder' = "none"
    BY <1>3, <1>t, BufferStep DEF AudioStops, Undecodable, FailsAloud
  <2>2. missed' = FALSE /\ spliced' = FALSE
    BY <1>3, <2>1, NothingRecorded
  <2> QED
    BY <2>1, <2>2 DEF InStep
<1>4. CASE Decodable /\ Records(FALSE)
  <2>1. Packet /\ stream /\ decoder # "none" /\ UNCHANGED <<decoder, disturbed, stream, transport>>
    BY <1>4, <1>t, BufferStep DEF Decodable, Packet, audio
  <2> QED
    BY <1>4, <1>t, <2>1 DEF Records, InStep
<1>5. CASE (Others \/ TimesOut \/ Plays \/ \E r \in Runs : Ends(r)) /\ Records(FALSE)
  <2>1. UNCHANGED <<decoder, disturbed>>
    BY <1>5 DEF Others, TimesOut, Plays, Ends, audio
  <2>2. buffer'.packets \in {0, buffer.packets} /\ UNCHANGED <<stream, transport>>
    <3>1. CASE ResponsePlayed \/ \E r \in Runs : Decoded(r) \/ RunFails(r) \/ RunEnds(r)
      BY <3>1 DEF ResponsePlayed, Decoded, RunFails, RunEnds, recording, remote, entity
    <3> QED
      BY <1>5, <1>t, <3>1, BufferStep DEF Others, TimesOut, Plays, Ends
  <2> QED
    BY <1>5, <1>t, <1>b, <2>1, <2>2 DEF Records, InStep
<1>6. CASE Drops /\ Records(TRUE)
  <2>1. UNCHANGED <<buffer, stream, transport>> /\ stream
    BY <1>6, KeepsBuffer DEF Drops
  <2>2. buffer'.packets = buffer.packets /\ stream'
    BY <2>1
  <2>3. CASE disturbed' = TRUE
    BY <2>1, <2>2, <2>3 DEF InStep
  <2>4. CASE decoder = "none" /\ UNCHANGED <<decoder, disturbed>> /\ ~disturbed
    <3>1. buffer'.packets = 0
      BY <1>t, <2>2, <2>4 DEF InStep
    <3>2. missed' = FALSE /\ spliced' = FALSE
      BY <1>6, <3>1, NothingRecorded
    <3> QED
      BY <2>4, <3>1, <3>2 DEF InStep
  <2>5. CASE decoder = "none" /\ UNCHANGED <<decoder, disturbed>> /\ disturbed
    BY <2>2, <2>5 DEF InStep
  <2> QED
    BY <1>6, <2>3, <2>4, <2>5 DEF Drops
<1>7. CASE UNCHANGED allVars
  BY <1>7, KeepsBuffer DEF allVars, audio, InStep
<1> QED
  BY <1>1, <1>2, <1>3, <1>4, <1>5, <1>6, <1>7 DEF AtvvNext

(* ------------------------------- the theorems ---------------------------- *)

LEMMA InitIInv ==
  ASSUME AtvvInit
  PROVE  IInv
<1>1. Alive = {}
  BY DEF AtvvInit, Init, Alive
<1>2. buffer = None /\ buffer.packets = 0
      /\ buffer \in [kind : {"none", "opus", "pcm"}, packets : 0 .. MaxPackets]
  BY LimitAssumption DEF AtvvInit, Init, None
<1>3. playing \in 0 .. MaxResponses
  BY ResponseAssumption DEF AtvvInit, Init
<1> QED
  BY <1>1, <1>2, <1>3
  DEF AtvvInit, Init, IInv, SInv, TypeOK, RunIsKnown, OneUtterance, AnsweredOnce, EndsWithKey,
      InStep

THEOREM Invariant == AtvvSpec => []IInv
<1>1. AtvvInit => IInv
  BY InitIInv
<1>2. IInv /\ [AtvvNext]_allVars => IInv'
  BY SatelliteStep, SoundStep DEF IInv
<1> QED
  BY <1>1, <1>2, PTL DEF AtvvSpec

\* Every variable of the satellite keeps to its values, the limit of a buffer
\* (voice.py 171-205) included.
THEOREM TypeCorrect == AtvvSpec => []TypeOK
<1>1. IInv => TypeOK
  BY DEF IInv, SInv
<1> QED
  BY <1>1, Invariant, PTL

\* One recording with its timeout, or one run, and neither after the removal
\* (assist_satellite.py 181-214, 289-298).
THEOREM Alone == AtvvSpec => []OneAtATime
<1>1. IInv => OneAtATime
  <2> SUFFICES ASSUME IInv PROVE OneAtATime
    OBVIOUS
  <2>1. IsFiniteSet({processing}) /\ Cardinality({processing}) = 1
    BY FS_Singleton
  <2>2. Cardinality(Alive) <= 1
    BY <2>1, FS_Subset DEF IInv, SInv, RunIsKnown
  <2> QED
    BY <2>2 DEF IInv, SInv, OneUtterance, OneAtATime
<1> QED
  BY <1>1, Invariant, PTL

\* A recording ends with its key, and a press makes one run (assist_satellite.py
\* 140-179).
THEOREM OfOnePress == AtvvSpec => []RecordingsFollowPress
<1>1. IInv => RecordingsFollowPress
  BY DEF IInv, SInv, AnsweredOnce, EndsWithKey, RecordingsFollowPress
<1> QED
  BY <1>1, Invariant, PTL

\* What a recording of PCM holds is one piece of one stream (manager.py 1044-1152).
THEOREM Whole == AtvvSpec => []SoundIsWhole
<1>1. IInv => SoundIsWhole
  BY DEF IInv, InStep, SoundIsWhole
<1> QED
  BY <1>1, Invariant, PTL
=============================================================================
