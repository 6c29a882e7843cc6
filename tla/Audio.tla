------------------------------- MODULE Audio -------------------------------
(***************************************************************************)
(* The audio driver behind mmdevapi: the streams of the guest (audio.rs of *)
(* the OS layer) and the one host queue that all of them play through (the *)
(* audio crate).  The host calls Refill back on a thread of its own, under *)
(* the lock of the staged samples, at any moment while the queue exists.   *)
(*                                                                         *)
(* A frame is the number of its release: frame n is the n-th frame that    *)
(* any stream handed over.  heard and cut are history: the newest frame    *)
(* the host took, and the newest one when the queue was last emptied.      *)
(* Formats, positions and the guest's buffers themselves are left out; the *)
(* entries that only answer a question change nothing.                     *)
(***************************************************************************)
EXTENDS Integers, Sequences

CONSTANTS MaxStreams,   \* streams made in a run (a bound of the model)
          MaxBuffer,    \* MAX_BUFFER_FRAMES: the largest buffer of a stream
          MaxStaged,    \* MAX_STAGED_FRAMES
          HostFrames,   \* FRAMES_PER_BUFFER: what one callback asks for
          MaxSent       \* frames released in a run (a bound of the model)

ASSUME AudioAssumption ==
    /\ MaxStaged \in Nat \ {0} /\ HostFrames \in Nat
    /\ {MaxStreams, MaxBuffer, MaxSent} \subseteq Nat

VARIABLES streams, next_stream, queue, sent, heard, cut

avars == <<streams, next_stream, queue, sent, heard, cut>>

NoFrames == -1     \* Stream::held is None
Closed == [open |-> FALSE, started |-> FALSE, pcm |-> <<>>]

AInit == /\ streams = [h \in {} |-> {}]
         /\ next_stream = 0
         /\ queue = Closed
         /\ sent = 0 /\ heard = 0 /\ cut = 0

OpenStreams == DOMAIN streams

(***************************************************************************)
(* The host queue: CoreAudioSink.                                          *)
(***************************************************************************)
SinkOpen == [open |-> TRUE, started |-> FALSE, pcm |-> <<>>]
SinkStart(q) == [q EXCEPT !.started = q.open]
SinkStop(q) == [q EXCEPT !.started = FALSE]
SinkReset(q) == [q EXCEPT !.pcm = <<>>]

Newest(s) == SubSeq(s, Len(s) - MaxStaged + 1, Len(s))
Oldest(s) == SubSeq(s, 1, MaxStaged)

SinkWrite_DropsNew(q, frames) ==
    LET pcm == q.pcm \o frames IN
    IF ~q.open THEN q
    ELSE [q EXCEPT !.pcm = IF Len(pcm) > MaxStaged THEN Oldest(pcm) ELSE pcm]

SinkWrite(q, frames) ==
    LET pcm == q.pcm \o frames IN
    IF ~q.open THEN q
    ELSE [q EXCEPT !.pcm = IF Len(pcm) > MaxStaged THEN Newest(pcm) ELSE pcm]

\* The callback of the host's thread: it takes what there is, up to one buffer,
\* and fills the rest with silence.
Refill == LET n == IF Len(queue.pcm) < HostFrames THEN Len(queue.pcm) ELSE HostFrames IN
          /\ queue.open
          /\ n > 0
          /\ heard' = queue.pcm[n]
          /\ queue' = [queue EXCEPT !.pcm = SubSeq(@, n + 1, Len(@))]
          /\ UNCHANGED <<streams, next_stream, sent, cut>>

(***************************************************************************)
(* The driver's entries.                                                   *)
(***************************************************************************)

\* The sink closes what was open before it opens, so a second stream takes the
\* queue from the first; a device that refuses leaves no queue at all.
audio_create_stream(capacity, opens) ==
    /\ next_stream < MaxStreams
    /\ queue' = IF opens THEN SinkOpen ELSE Closed
    /\ cut' = sent
    /\ IF opens
        THEN /\ next_stream' = next_stream + 1
             /\ streams' = [h \in OpenStreams \cup {next_stream'} |->
                              IF h = next_stream'
                              THEN [capacity |-> capacity, held |-> NoFrames, started |-> FALSE]
                              ELSE streams[h]]
        ELSE UNCHANGED <<streams, next_stream>>
    /\ UNCHANGED <<sent, heard>>

\* The frames are held even when the guest gave no place for the pointer.
audio_get_render_buffer(h, frames) ==
    /\ streams[h].held = NoFrames
    /\ frames <= streams[h].capacity
    /\ streams' = [streams EXCEPT ![h].held = frames]
    /\ UNCHANGED <<next_stream, queue, sent, heard, cut>>

\* A buffer that can no longer be read faults after the stream has let go of it.
audio_release_render_buffer(h, written, readable) ==
    /\ streams[h].held # NoFrames
    /\ written <= streams[h].held
    /\ streams' = [streams EXCEPT ![h].held = NoFrames]
    /\ IF readable
        THEN /\ sent + written <= MaxSent
             /\ sent' = sent + written
             /\ queue' = SinkWrite(queue, [i \in 1 .. written |-> sent + i])
        ELSE UNCHANGED <<sent, queue>>
    /\ UNCHANGED <<next_stream, heard, cut>>

StartStream(h) == /\ streams' = [streams EXCEPT ![h].started = TRUE]
            /\ queue' = SinkStart(queue)
            /\ UNCHANGED <<next_stream, sent, heard, cut>>

StopStream(h) == /\ streams' = [streams EXCEPT ![h].started = FALSE]
           /\ queue' = SinkStop(queue)
           /\ UNCHANGED <<next_stream, sent, heard, cut>>

\* A reset empties the queue of every stream, whoever asks for it.
ResetStream(h) == /\ ~streams[h].started
            /\ streams' = [streams EXCEPT ![h].held = NoFrames]
            /\ queue' = SinkReset(queue)
            /\ cut' = sent
            /\ UNCHANGED <<next_stream, sent, heard>>

LeftBy(remaining) == IF remaining = {} THEN Closed ELSE queue

entry_release_stream(h) ==
    LET remaining == OpenStreams \ {h} IN
    /\ streams' = [s \in remaining |-> streams[s]]
    /\ queue' = LeftBy(remaining)
    /\ cut' = IF remaining = {} THEN sent ELSE cut
    /\ UNCHANGED <<next_stream, sent, heard>>

entry_process_detach == /\ streams' = [h \in {} |-> {}]
                        /\ queue' = Closed
                        /\ cut' = sent
                        /\ UNCHANGED <<next_stream, sent, heard>>

ANext ==
    \/ \E capacity \in 1 .. MaxBuffer, opens \in BOOLEAN : audio_create_stream(capacity, opens)
    \/ \E h \in OpenStreams : \/ \E frames \in 0 .. MaxBuffer : audio_get_render_buffer(h, frames)
                          \/ \E written \in 0 .. MaxBuffer, readable \in BOOLEAN :
                                audio_release_render_buffer(h, written, readable)
                          \/ StartStream(h) \/ StopStream(h) \/ ResetStream(h) \/ entry_release_stream(h)
    \/ entry_process_detach
    \/ Refill

ASpec == AInit /\ [][ANext]_avars

(***************************************************************************)
(* What the driver keeps.                                                  *)
(***************************************************************************)

\* Between the guest's releases, the resets and closings of any stream and the
\* host's callback, the staged frames are always the last ones released, in
\* order: none the host has taken or a reset has dropped comes back, and only
\* the oldest are given up when too many wait.  With no stream left the host
\* has no queue to call back for.
PlaysTheTail ==
    LET n == Len(queue.pcm) IN
    /\ OpenStreams = {} => ~queue.open
    /\ n <= MaxStaged
    /\ \A i \in 1 .. n : queue.pcm[i] = sent - n + i
    /\ n > 0 => heard <= sent - n /\ cut <= sent - n
    /\ queue.open /\ n = 0 => heard = sent \/ cut = sent
=============================================================================
