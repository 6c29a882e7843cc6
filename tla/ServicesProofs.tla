--------------------------- MODULE ServicesProofs ---------------------------
(***************************************************************************)
(* Theorems about services that have a state machine of their own: the     *)
(* audio driver, the sockets, the child processes, exception dispatch and  *)
(* the loader of DLLs with the calls to their DllMain.                     *)
(***************************************************************************)
EXTENDS Audio, Sockets, ChildProcesses, ExceptionDispatch, Dlls, TLAPS, SequenceTheorems,
        WellFoundedInduction

-----------------------------------------------------------------------------
(* The audio driver.  PlaysTheTail is inductive once the queue is known to *)
(* be a sequence of frames, empty where the host has none, and the history *)
(* to be of frames that were released.                                     *)

Queues == [open : BOOLEAN, started : BOOLEAN, pcm : Seq(Nat)]
AudioTyped ==
    /\ queue \in Queues /\ {sent, heard, cut} \subseteq Nat
    /\ heard <= sent /\ cut <= sent
    /\ ~queue.open => queue.pcm = <<>>
AudioInv == AudioTyped /\ PlaysTheTail

\* A call that may change the streams but not what is played.
LEMMA QueueStays ==
  ASSUME AudioInv, UNCHANGED <<sent, heard, cut>>,
         queue' \in Queues, queue'.open = queue.open, queue'.pcm = queue.pcm,
         OpenStreams' = {} => ~queue.open
  PROVE  AudioInv'
  BY DEF AudioInv, AudioTyped, PlaysTheTail

\* An empty queue plays nothing, once what was sent so far is cut off.
LEMMA QueueEmptied ==
  ASSUME AudioInv, UNCHANGED <<sent, heard>>, cut' = sent,
         queue' \in Queues, queue'.pcm = <<>>, OpenStreams' = {} => ~queue'.open
  PROVE  AudioInv'
<1>1. Len(queue'.pcm) = 0
  OBVIOUS
<1> QED BY <1>1, AudioAssumption DEF AudioInv, AudioTyped, PlaysTheTail

\* What to show of a queue of n frames.
LEMMA TailShown ==
  ASSUME NEW n \in Nat, Len(queue'.pcm) = n, n <= MaxStaged,
         OpenStreams' = {} => ~queue'.open,
         \A i \in 1 .. n : queue'.pcm[i] = sent' - n + i,
         n > 0 => heard' <= sent' - n /\ cut' <= sent' - n,
         queue'.open /\ n = 0 => heard' = sent' \/ cut' = sent'
  PROVE  PlaysTheTail'
  BY DEF PlaysTheTail

\* CoreAudioSink::write: frames are added at the end and the oldest given up.
LEMMA WriteKeeps ==
  ASSUME AudioInv, NEW written \in Nat, sent' = sent + written, UNCHANGED <<heard, cut>>,
         queue' = SinkWrite(queue, [i \in 1 .. written |-> sent + i]),
         OpenStreams' = {} => ~queue.open
  PROVE  AudioInv'
<1> DEFINE played == [i \in 1 .. written |-> sent + i]
           pcm == queue.pcm \o played
           n == Len(queue.pcm)
           m == Len(pcm)
<1>0. sent \in Nat /\ heard \in Nat /\ cut \in Nat /\ heard <= sent /\ cut <= sent
  BY DEF AudioInv, AudioTyped
<1>1. queue \in Queues /\ queue.pcm \in Seq(Nat) /\ n \in Nat /\ n = Len(queue.pcm)
  BY DEF AudioInv, AudioTyped, Queues
<1>2. played \in Seq(Nat) /\ Len(played) = written
  BY <1>0
<1>3. pcm \in Seq(Nat) /\ m = n + written /\ m \in Nat /\ m = Len(pcm)
  BY <1>1, <1>2
<1>4. \A i \in 1 .. m : pcm[i] = sent' - m + i
  <2> SUFFICES ASSUME NEW i \in 1 .. m  PROVE pcm[i] = sent' - m + i
    OBVIOUS
  <2>1. CASE i <= n
    <3>1. pcm[i] = queue.pcm[i]
      BY <1>1, <1>2, <1>3, <2>1
    <3>2. queue.pcm[i] = sent - n + i
      BY <1>1, <1>3, <2>1 DEF AudioInv, PlaysTheTail
    <3> HIDE DEF pcm
    <3> QED BY <1>0, <1>1, <1>3, <3>1, <3>2
  <2>2. CASE i > n
    <3>1. pcm[i] = played[i - n]
      BY <1>1, <1>2, <1>3, <2>2
    <3>2. played[i - n] = sent + (i - n)
      BY <1>1, <1>3, <2>2
    <3> HIDE DEF pcm, played
    <3> QED BY <1>0, <1>1, <1>3, <3>1, <3>2
  <2> QED BY <1>1, <1>3, <2>1, <2>2
<1>s. sent' = sent + written /\ heard' = heard /\ cut' = cut
  OBVIOUS
<1> HIDE DEF played, pcm, n, m
<1>5. CASE ~queue.open
  <2>1. queue' = queue
    BY <1>5 DEF SinkWrite
  <2>2. queue.pcm = <<>> /\ Len(queue.pcm) = 0
    BY <1>5 DEF AudioInv, AudioTyped
  <2>3. sent' \in Nat /\ heard' <= sent' /\ cut' <= sent' /\ {sent', heard', cut'} \subseteq Nat
    BY <1>0, <1>s
  <2>4. AudioTyped'
    BY <1>1, <2>1, <2>2, <2>3 DEF AudioTyped
  <2>5. PlaysTheTail'
    <3>1. Len(queue'.pcm) = 0 /\ ~queue'.open /\ 0 <= MaxStaged /\ 0 \in Nat
      BY <1>5, <2>1, <2>2, AudioAssumption
    <3>2. \A i \in 1 .. 0 : queue'.pcm[i] = sent' - 0 + i
      OBVIOUS
    <3> QED BY <3>1, <3>2, TailShown
  <2> QED BY <2>4, <2>5 DEF AudioInv
<1>6. CASE queue.open
  <2>1. n > 0 => heard <= sent - n /\ cut <= sent - n
    BY <1>1 DEF AudioInv, PlaysTheTail
  <2>2. n = 0 => heard = sent \/ cut = sent
    BY <1>1, <1>6 DEF AudioInv, PlaysTheTail
  <2>3. CASE m > MaxStaged
    <3>1. queue' = [queue EXCEPT !.pcm = Newest(pcm)]
      BY <1>3, <1>6, <2>3 DEF SinkWrite, pcm, played
    <3>2. /\ Newest(pcm) \in Seq(Nat) /\ Len(Newest(pcm)) = MaxStaged
          /\ \A i \in 1 .. MaxStaged : Newest(pcm)[i] = pcm[m - MaxStaged + i]
      <4>1. m - MaxStaged + 1 \in 1 .. m + 1 /\ MaxStaged \in Nat
        BY <1>3, <2>3, AudioAssumption
      <4>2. Newest(pcm) = SubSeq(pcm, m - MaxStaged + 1, m)
        BY <1>3 DEF Newest
      <4>3. m - (m - MaxStaged + 1) + 1 = MaxStaged
        BY <1>3, <4>1
      <4>4. ASSUME NEW i \in 1 .. MaxStaged
            PROVE  (m - MaxStaged + 1) + i - 1 = m - MaxStaged + i
        BY <1>3, <4>1
      <4>5. \A i \in m - MaxStaged + 1 .. m : pcm[i] \in Nat
        BY <1>3, <4>1
      <4> DEFINE from == m - MaxStaged + 1
      <4>6. from \in Int /\ m \in Int /\ from <= m
        BY <1>3, <4>1, <2>3, AudioAssumption
      <4>7. /\ SubSeq(pcm, from, m) \in Seq(Nat) /\ Len(SubSeq(pcm, from, m)) = m - from + 1
            /\ \A i \in 1 .. m - from + 1 : SubSeq(pcm, from, m)[i] = pcm[from + i - 1]
        <5> HIDE DEF from
        <5> QED BY <4>5, <4>6, SubSeqProperties DEF from
      <4> QED BY <4>2, <4>3, <4>4, <4>7
    <3>3. queue' \in Queues /\ queue'.open /\ queue'.pcm = Newest(pcm)
      BY <1>1, <1>6, <3>1, <3>2 DEF Queues
    <3>4. \A i \in 1 .. MaxStaged : queue'.pcm[i] = sent' - MaxStaged + i
      <4>1. ASSUME NEW i \in 1 .. MaxStaged
            PROVE  queue'.pcm[i] = sent' - MaxStaged + i
        <5> DEFINE k == m - MaxStaged + i
        <5>1. k \in 1 .. m
          BY <1>3, <2>3, AudioAssumption
        <5>2. queue'.pcm[i] = pcm[k]
          BY <3>2, <3>3
        <5>3. pcm[k] = sent' - m + k
          <6> HIDE DEF k
          <6> QED BY <1>4, <5>1
        <5>4. sent' - m + k = sent' - MaxStaged + i
          BY <1>0, <1>s, <1>3, AudioAssumption
        <5> QED BY <5>2, <5>3, <5>4
      <4> QED BY <4>1
    <3>5. heard <= sent' - MaxStaged /\ cut <= sent' - MaxStaged
      BY <1>0, <1>s, <1>1, <1>3, <2>1, <2>3, AudioAssumption
    <3>6. sent' \in Nat /\ heard' = heard /\ cut' = cut /\ heard <= sent' /\ cut <= sent'
      BY <1>0, <1>s
    <3>7. AudioTyped'
      BY <1>0, <3>3, <3>6 DEF AudioTyped
    <3>8. PlaysTheTail'
      <4>1. Len(queue'.pcm) = MaxStaged /\ queue'.open /\ (OpenStreams' = {} => ~queue.open)
        BY <3>2, <3>3
      <4>2. heard' <= sent' - MaxStaged /\ cut' <= sent' - MaxStaged /\ MaxStaged \in Nat /\ MaxStaged # 0
            /\ MaxStaged <= MaxStaged
        BY <3>5, <3>6, AudioAssumption
      <4> QED BY <1>6, <3>4, <4>1, <4>2, TailShown
    <3> QED BY <3>7, <3>8 DEF AudioInv
  <2>4. CASE ~(m > MaxStaged)
    <3>1. queue' = [queue EXCEPT !.pcm = pcm]
      BY <1>3, <1>6, <2>4 DEF SinkWrite, pcm, played
    <3>2. queue' \in Queues /\ queue'.open /\ queue'.pcm = pcm
      BY <1>1, <1>3, <1>6, <3>1 DEF Queues
    <3>3. m > 0 => heard <= sent' - m /\ cut <= sent' - m
      <4>1. sent' - m = sent - n
        BY <1>0, <1>s, <1>1, <1>3
      <4>2. CASE n > 0
        BY <2>1, <4>1, <4>2
      <4>3. CASE n = 0
        BY <1>0, <4>1, <4>3
      <4> QED BY <1>1, <4>2, <4>3
    <3>4. m = 0 => heard = sent' \/ cut = sent'
      BY <1>0, <1>s, <1>1, <1>3, <2>2
    <3>5. sent' \in Nat /\ heard' = heard /\ cut' = cut /\ heard <= sent' /\ cut <= sent' /\ m <= MaxStaged
      BY <1>0, <1>s, <1>1, <1>3, <2>4, AudioAssumption
    <3>6. \A i \in 1 .. m : queue'.pcm[i] = sent' - m + i
      BY <1>4, <3>2
    <3> QED BY <1>0, <1>1, <1>3, <1>6, <3>2, <3>3, <3>4, <3>5, <3>6
            DEF AudioInv, AudioTyped, PlaysTheTail
  <2> QED BY <2>3, <2>4
<1> QED BY <1>5, <1>6

\* The host's callback takes the oldest frames.
LEMMA RefillKeeps ==
  ASSUME AudioInv, Refill
  PROVE  AudioInv'
<1> DEFINE len == Len(queue.pcm)
           n == IF len < HostFrames THEN len ELSE HostFrames
           rest == SubSeq(queue.pcm, n + 1, len)
<1>0. /\ sent \in Nat /\ heard \in Nat /\ cut \in Nat /\ heard <= sent /\ cut <= sent
      /\ queue \in Queues /\ queue.pcm \in Seq(Nat) /\ len \in Nat
  BY DEF AudioInv, AudioTyped, Queues
<1>1. /\ queue.open /\ n > 0 /\ heard' = queue.pcm[n] /\ queue' = [queue EXCEPT !.pcm = rest]
      /\ UNCHANGED <<streams, sent, cut>>
  BY DEF Refill
<1>2. n \in 1 .. len
  BY <1>0, <1>1, AudioAssumption
<1>2a. len > 0
  BY <1>0, <1>2
<1>3. /\ len <= MaxStaged /\ \A i \in 1 .. len : queue.pcm[i] = sent - len + i
      /\ heard <= sent - len /\ cut <= sent - len
      /\ OpenStreams = {} => ~queue.open
  BY <1>2a DEF AudioInv, PlaysTheTail
<1> HIDE DEF n
<1>4. heard' = sent - len + n
  BY <1>1, <1>2, <1>3
<1>5. /\ rest \in Seq(Nat) /\ Len(rest) = len - n
      /\ \A i \in 1 .. len - n : rest[i] = queue.pcm[n + i]
  <2> DEFINE q == queue.pcm
  <2>1. n + 1 \in Int /\ len \in Int /\ \A i \in n + 1 .. len : q[i] \in Nat
    BY <1>0, <1>2
  <2>2. rest = SubSeq(q, n + 1, len)
    OBVIOUS
  <2> HIDE DEF q, rest, len
  <2>3. /\ rest \in Seq(Nat) /\ Len(rest) = IF n + 1 <= len THEN len - (n + 1) + 1 ELSE 0
        /\ \A i \in 1 .. len - (n + 1) + 1 : rest[i] = q[(n + 1) + i - 1]
    BY <2>1, <2>2, SubSeqProperties
  <2>4. /\ len - (n + 1) + 1 = len - n /\ (n + 1 > len => len - n = 0)
        /\ \A i \in 1 .. len - n : (n + 1) + i - 1 = n + i
    BY <1>0, <1>2
  <2>5. Len(rest) = len - n
    BY <1>0, <1>2, <2>3, <2>4
  <2> QED BY <2>3, <2>4, <2>5 DEF q
<1> HIDE DEF rest, len
<1>6. queue' \in Queues /\ queue'.open /\ queue'.pcm = rest
  BY <1>0, <1>1, <1>5 DEF Queues
<1>7. \A i \in 1 .. len - n : rest[i] = sent - (len - n) + i
  <2>1. ASSUME NEW i \in 1 .. len - n
        PROVE  rest[i] = sent - (len - n) + i
    <3>1. n + i \in 1 .. len
      BY <1>0, <1>2
    <3>2. queue.pcm[n + i] = sent - len + (n + i)
      BY <1>3, <3>1
    <3>3. rest[i] = queue.pcm[n + i]
      BY <1>5
    <3>4. sent - len + (n + i) = sent - (len - n) + i
      BY <1>0, <1>2
    <3> QED BY <3>2, <3>3, <3>4
  <2> QED BY <2>1
<1>8. /\ heard' \in Nat /\ heard' <= sent
      /\ heard' = sent - (len - n) /\ cut <= sent - (len - n)
  BY <1>0, <1>2, <1>3, <1>4
<1>9. OpenStreams' = OpenStreams
  BY <1>1 DEF OpenStreams
<1>10. AudioTyped'
  BY <1>0, <1>1, <1>6, <1>8 DEF AudioTyped
<1>11. PlaysTheTail'
  <2>1. Len(queue'.pcm) = len - n /\ len - n \in Nat /\ len - n <= MaxStaged
    BY <1>0, <1>2, <1>3, <1>5, <1>6, AudioAssumption
  <2> QED BY <2>1, <1>0, <1>1, <1>2, <1>3, <1>5, <1>6, <1>7, <1>8, <1>9, AudioAssumption, SMTT(20) DEF PlaysTheTail
<1> QED BY <1>10, <1>11 DEF AudioInv

LEMMA AudioStep == AudioInv /\ [ANext]_avars => AudioInv'
<1> SUFFICES ASSUME AudioInv, [ANext]_avars  PROVE AudioInv'
  OBVIOUS
<1>0. /\ queue \in Queues /\ queue.pcm \in Seq(Nat) /\ (OpenStreams = {} => ~queue.open)
      /\ SinkOpen \in Queues /\ Closed \in Queues
  BY DEF AudioInv, AudioTyped, PlaysTheTail, Queues, SinkOpen, Closed
<1>1. ASSUME NEW capacity, NEW opens \in BOOLEAN, audio_create_stream(capacity, opens)
      PROVE  AudioInv'
  <2>1. /\ queue' = (IF opens THEN SinkOpen ELSE Closed) /\ cut' = sent
        /\ UNCHANGED <<sent, heard>>
    BY <1>1 DEF audio_create_stream
  <2>2. opens => OpenStreams' # {}
    BY <1>1 DEF audio_create_stream, OpenStreams
  <2>3. queue' \in Queues /\ queue'.pcm = <<>> /\ (~opens => ~queue'.open)
    BY <1>0, <2>1 DEF SinkOpen, Closed
  <2> QED BY <2>1, <2>2, <2>3, QueueEmptied
<1>2. ASSUME NEW h \in OpenStreams, NEW buffer, audio_get_render_buffer(h, buffer)
      PROVE  AudioInv'
  <2>1. OpenStreams' = OpenStreams /\ UNCHANGED <<queue, sent, heard, cut>>
    BY <1>2 DEF audio_get_render_buffer, OpenStreams
  <2> QED BY <1>0, <2>1, QueueStays
<1>3. ASSUME NEW h \in OpenStreams, NEW written \in 0 .. MaxBuffer, NEW readable \in BOOLEAN,
             audio_release_render_buffer(h, written, readable)
      PROVE  AudioInv'
  <2>1. OpenStreams' = OpenStreams /\ UNCHANGED <<heard, cut>> /\ written \in Nat
    BY <1>3, AudioAssumption DEF audio_release_render_buffer, OpenStreams
  <2>2. CASE readable
    <3>1. sent' = sent + written /\ queue' = SinkWrite(queue, [i \in 1 .. written |-> sent + i])
      BY <1>3, <2>2 DEF audio_release_render_buffer
    <3> QED BY <1>0, <2>1, <3>1, WriteKeeps
  <2>3. CASE ~readable
    <3>1. UNCHANGED <<sent, queue>>
      BY <1>3, <2>3 DEF audio_release_render_buffer
    <3> QED BY <1>0, <2>1, <3>1, QueueStays
  <2> QED BY <2>2, <2>3
<1>4. ASSUME NEW h \in OpenStreams, StartStream(h) \/ StopStream(h)
      PROVE  AudioInv'
  <2>1. OpenStreams' = OpenStreams /\ UNCHANGED <<sent, heard, cut>>
    BY <1>4 DEF StartStream, StopStream, OpenStreams
  <2>2. queue' \in Queues /\ queue'.open = queue.open /\ queue'.pcm = queue.pcm
    BY <1>0, <1>4 DEF StartStream, StopStream, SinkStart, SinkStop, Queues
  <2> QED BY <1>0, <2>1, <2>2, QueueStays
<1>5. ASSUME NEW h \in OpenStreams, ResetStream(h)
      PROVE  AudioInv'
  <2>1. OpenStreams' = OpenStreams /\ UNCHANGED <<sent, heard>> /\ cut' = sent
    BY <1>5 DEF ResetStream, OpenStreams
  <2>2. queue' \in Queues /\ queue'.open = queue.open /\ queue'.pcm = <<>>
    <3>1. <<>> \in Seq(Nat)
      OBVIOUS
    <3> QED BY <3>1, <1>0, <1>5 DEF ResetStream, SinkReset, Queues
  <2> QED BY <1>0, <2>1, <2>2, QueueEmptied
<1>6. ASSUME NEW h \in OpenStreams, entry_release_stream(h)
      PROVE  AudioInv'
  <2> DEFINE remaining == OpenStreams \ {h}
  <2>1. /\ OpenStreams' = remaining /\ UNCHANGED <<sent, heard>>
        /\ queue' = (IF remaining = {} THEN Closed ELSE queue)
        /\ cut' = (IF remaining = {} THEN sent ELSE cut)
    BY <1>6 DEF entry_release_stream, LeftBy, OpenStreams
  <2>2. CASE remaining = {}
    BY <1>0, <2>1, <2>2, QueueEmptied DEF Closed
  <2>3. CASE remaining # {}
    BY <1>0, <2>1, <2>3, QueueStays
  <2> QED BY <2>2, <2>3
<1>7. ASSUME entry_process_detach
      PROVE  AudioInv'
  <2>1. queue' = Closed /\ cut' = sent /\ UNCHANGED <<sent, heard>>
    BY <1>7 DEF entry_process_detach
  <2> QED BY <1>0, <2>1, QueueEmptied DEF Closed
<1>8. CASE UNCHANGED avars
  BY <1>0, <1>8, QueueStays DEF avars, OpenStreams
<1> QED BY <1>1, <1>2, <1>3, <1>4, <1>5, <1>6, <1>7, <1>8, RefillKeeps DEF ANext

\* However releases, resets, streams that come and go and the host's callback
\* follow each other, what is staged is the tail of what was released: nothing
\* taken or dropped is played again, and only the oldest frames are given up
\* (audio_release_render_buffer, CoreAudioSink::write, reset and close, the
\* callback); for every size of the buffers.
THEOREM TailIsPlayed == ASpec => []PlaysTheTail
<1>1. AInit => AudioInv
  BY AudioAssumption DEF AInit, AudioInv, AudioTyped, PlaysTheTail, Queues, Closed, OpenStreams
<1>2. AudioInv => PlaysTheTail
  BY DEF AudioInv
<1> QED BY <1>1, <1>2, AudioStep, PTL DEF ASpec

-----------------------------------------------------------------------------
(* The sockets.  A connection belongs to one socket: it is what the socket *)
(* is connected to, or one of those in its line.                           *)

SocketRecords ==
    [kind : {"none", "stream", "dgram"}, ep : {"unbound", "listener", "datagram", "stream"},
     conn : Nat, bound : {"no", "any", "chosen"}, listening : BOOLEAN,
     backlog : Seq(Nat), pending : Seq(Nat), taken : Nat, rd_shutdown : BOOLEAN]
Ends == [bytes : Nat, eof : BOOLEAN]

InOrder(line, low) == \A i \in DOMAIN line : /\ low < line[i]
                                             /\ \A j \in 1 .. i - 1 : line[j] < line[i]
Connected(s) == s.ep \in {"stream", "datagram"}
InLine(s) == {Line(s)[i] : i \in DOMAIN Line(s)}
Holds(s) == InLine(s) \cup (IF Connected(s) THEN {s.conn} ELSE {})

\* What is right of a socket where n connections have been made.
SocketRight(s, n) ==
    /\ s \in SocketRecords
    /\ InOrder(Line(s), s.taken) /\ s.taken <= n /\ \A c \in InLine(s) : c <= n
    /\ Connected(s) => s.conn \in 1 .. n /\ s.conn \notin InLine(s)

SocketsRight ==
    /\ opened \in Nat /\ wire \in Seq(Ends)
    /\ sockets = [h \in OpenSockets |-> sockets[h]] /\ OpenSockets \subseteq 1 .. opened
    /\ \A h \in OpenSockets : SocketRight(sockets[h], Len(wire))
    /\ \A h, k \in OpenSockets : h # k => Holds(sockets[h]) \cap Holds(sockets[k]) = {}
DatagramsOpen == \A h \in OpenSockets : sockets[h].ep = "datagram" => ~wire[sockets[h].conn].eof

Kept(p) == /\ p[2] = "accept" => ~AcceptBlocks(sockets[p[1]])
           /\ p[2] = "read" => ~RecvBlocks(sockets[p[1]])
PromisesRight == /\ promised \subseteq OpenSockets \X {"accept", "read"}
                 /\ \A p \in promised : Kept(p)

SocketsInv == SocketsRight /\ DatagramsOpen /\ PromisesRight

LEMMA LineType ==
  ASSUME NEW s \in SocketRecords
  PROVE  /\ Line(s) \in Seq(Nat) /\ Len(Line(s)) = Len(s.pending) + Len(s.backlog)
         /\ \A i \in 1 .. Len(s.pending) : Line(s)[i] = s.pending[i]
         /\ s.pending \in Seq(Nat) /\ s.backlog \in Seq(Nat)
         /\ InLine(s) \subseteq Nat
<1>1. s.pending \in Seq(Nat) /\ s.backlog \in Seq(Nat)
  BY DEF SocketRecords
<1>2. Line(s) \in Seq(Nat) /\ Len(Line(s)) = Len(s.pending) + Len(s.backlog)
  BY <1>1 DEF Line
<1>3. \A i \in 1 .. Len(s.pending) : Line(s)[i] = s.pending[i]
  <2> DEFINE p == s.pending
             b == s.backlog
  <2>1. p \in Seq(Nat) /\ b \in Seq(Nat)
    BY <1>1
  <2> HIDE DEF p, b
  <2>2. \A i \in 1 .. Len(p) : (p \o b)[i] = p[i]
    BY <2>1
  <2> QED BY <2>2 DEF Line, p, b
<1>4. InLine(s) \subseteq Nat
  <2> DEFINE l == Line(s)
  <2>1. l \in Seq(Nat)
    BY <1>2
  <2> HIDE DEF l
  <2>2. \A i \in DOMAIN l : l[i] \in Nat
    BY <2>1
  <2> QED BY <2>2 DEF InLine, l
<1> QED BY <1>1, <1>2, <1>3, <1>4

\* Serving the line's head leaves it in order after the head.
LEMMA TailInOrder ==
  ASSUME NEW l \in Seq(Nat), l # <<>>, NEW low, InOrder(l, low)
  PROVE  /\ Tail(l) \in Seq(Nat) /\ Head(l) \in Nat /\ InOrder(Tail(l), Head(l)) /\ low < Head(l)
         /\ \A i \in DOMAIN Tail(l) : /\ i + 1 \in DOMAIN l /\ Tail(l)[i] = l[i + 1]
                                      /\ Tail(l)[i] # Head(l)
<1>1. Tail(l) \in Seq(Nat) /\ Len(Tail(l)) = Len(l) - 1 /\ Head(l) = l[1] /\ Len(l) \in Nat /\ Len(l) # 0
  OBVIOUS
<1>2. DOMAIN l = 1 .. Len(l) /\ DOMAIN Tail(l) = 1 .. Len(l) - 1
  BY <1>1
<1>3. \A i \in DOMAIN Tail(l) : i + 1 \in DOMAIN l /\ Tail(l)[i] = l[i + 1]
  BY <1>1, <1>2
<1>4. 1 \in DOMAIN l /\ \A i \in DOMAIN l : l[i] \in Nat
  BY <1>1, <1>2
<1>5. ASSUME NEW i \in DOMAIN Tail(l)
      PROVE  /\ Head(l) < Tail(l)[i]
             /\ \A j \in 1 .. i - 1 : Tail(l)[j] < Tail(l)[i]
  <2>1. i + 1 \in DOMAIN l /\ Tail(l)[i] = l[i + 1] /\ i \in Nat
    BY <1>2, <1>3
  <2>2. \A j \in 1 .. i : l[j] < l[i + 1]
    BY <2>1 DEF InOrder
  <2>3. 1 \in 1 .. i
    BY <1>2
  <2>4. ASSUME NEW j \in 1 .. i - 1
        PROVE  Tail(l)[j] < Tail(l)[i]
    <3>1. j \in DOMAIN Tail(l) /\ j + 1 \in 1 .. i
      BY <1>1, <1>2, <2>1
    <3> QED BY <1>3, <2>1, <2>2, <3>1
  <2> QED BY <1>1, <2>1, <2>2, <2>3, <2>4
<1>6. Head(l) \in Nat /\ low < Head(l)
  BY <1>1, <1>4 DEF InOrder
<1>7. \A i \in DOMAIN Tail(l) : Tail(l)[i] # Head(l)
  BY <1>3, <1>4, <1>5, <1>6
<1>8. InOrder(Tail(l), Head(l))
  BY <1>5 DEF InOrder
<1> QED BY <1>1, <1>3, <1>6, <1>7, <1>8

\* A newcomer goes last.
LEMMA AppendInOrder ==
  ASSUME NEW l \in Seq(Nat), NEW low \in Nat, InOrder(l, low), NEW c \in Nat, low < c,
         \A i \in DOMAIN l : l[i] < c
  PROVE  InOrder(Append(l, c), low)
<1>1. DOMAIN Append(l, c) = 1 .. Len(l) + 1 /\ Append(l, c)[Len(l) + 1] = c
      /\ DOMAIN l = 1 .. Len(l) /\ Len(l) \in Nat
  OBVIOUS
<1>2. \A i \in 1 .. Len(l) : Append(l, c)[i] = l[i]
  OBVIOUS
<1>3. ASSUME NEW i \in 1 .. Len(l) + 1
      PROVE  /\ low < Append(l, c)[i]
             /\ \A j \in 1 .. i - 1 : Append(l, c)[j] < Append(l, c)[i]
  <2> DEFINE a == Append(l, c)
  <2> HIDE DEF a
  <2>1. CASE i \in 1 .. Len(l)
    <3>1. \A j \in 1 .. i - 1 : a[j] = l[j]
      BY <1>1, <1>2, <2>1 DEF a
    <3> QED BY <1>1, <1>2, <2>1, <3>1 DEF InOrder, a
  <2>2. CASE i = Len(l) + 1
    <3>1. \A j \in 1 .. i - 1 : a[j] = l[j] /\ j \in DOMAIN l
      BY <1>1, <1>2, <2>2 DEF a
    <3> QED BY <1>1, <2>2, <3>1 DEF a
  <2> QED BY <1>1, <2>1, <2>2
<1> QED BY <1>1, <1>3 DEF InOrder

LEMMA AcceptingLine ==
  ASSUME NEW s \in SocketRecords, Line(s) # <<>>
  PROVE  /\ Accepting(s) \in SocketRecords
         /\ Line(Accepting(s)) = Tail(Line(s)) /\ Accepting(s).taken = Head(Line(s))
         /\ Accepting(s).ep = s.ep /\ Accepting(s).conn = s.conn
         /\ Accepting(s).rd_shutdown = s.rd_shutdown
<1>1. s.pending \in Seq(Nat) /\ s.backlog \in Seq(Nat)
  BY DEF SocketRecords
<1>2. CASE s.pending # <<>>
  <2>1. Accepting(s) = [s EXCEPT !.pending = Tail(s.pending), !.taken = Head(s.pending)]
    BY <1>2 DEF Accepting
  <2>2. Tail(s.pending) \in Seq(Nat) /\ Head(s.pending) \in Nat
    BY <1>1, <1>2
  <2>3. /\ Accepting(s) \in SocketRecords /\ Accepting(s).taken = Head(s.pending)
        /\ Accepting(s).pending = Tail(s.pending) /\ Accepting(s).backlog = s.backlog
        /\ Accepting(s).ep = s.ep /\ Accepting(s).conn = s.conn
        /\ Accepting(s).rd_shutdown = s.rd_shutdown
    BY <2>1, <2>2 DEF SocketRecords
  <2>4. Tail(s.pending) \o s.backlog = Tail(s.pending \o s.backlog)
        /\ Head(s.pending \o s.backlog) = Head(s.pending)
    <3> DEFINE h == Head(s.pending)
               t == Tail(s.pending)
               b == s.backlog
    <3>1. h \in Nat /\ t \in Seq(Nat) /\ b \in Seq(Nat) /\ s.pending = <<h>> \o t
      BY <1>1, <1>2
    <3> HIDE DEF h, t, b
    <3>2. <<h>> \in Seq(Nat) /\ t \o b \in Seq(Nat)
      BY <3>1
    <3>3. (<<h>> \o t) \o b = <<h>> \o (t \o b)
      BY <3>1, <3>2, ConcatAssociative
    <3> DEFINE u == t \o b
    <3>4. Head(<<h>> \o u) = h /\ Tail(<<h>> \o u) = u
      <4> HIDE DEF u
      <4>1. u \in Seq(Nat)
        BY <3>2 DEF u
      <4> QED BY <3>1, <4>1, SMTT(20)
    <3>5. s.pending \o b = <<h>> \o u
      BY <3>1, <3>3
    <3> HIDE DEF u
    <3>6. Tail(s.pending \o b) = u /\ Head(s.pending \o b) = h
      BY <3>4, <3>5
    <3> QED BY <3>6 DEF u, t, b, h
  <2> QED BY <2>3, <2>4 DEF Line
<1>3. CASE s.pending = <<>>
  <2>0. Line(s) = s.backlog /\ s.backlog # <<>>
    BY <1>1, <1>3 DEF Line
  <2>1. Accepting(s) = [s EXCEPT !.backlog = Tail(s.backlog), !.taken = Head(s.backlog)]
    BY <1>3 DEF Accepting
  <2>2. Tail(s.backlog) \in Seq(Nat) /\ Head(s.backlog) \in Nat
    BY <1>1, <2>0
  <2>3. /\ Accepting(s) \in SocketRecords /\ Accepting(s).taken = Head(s.backlog)
        /\ Accepting(s).backlog = Tail(s.backlog) /\ Accepting(s).pending = s.pending
        /\ Accepting(s).ep = s.ep /\ Accepting(s).conn = s.conn
        /\ Accepting(s).rd_shutdown = s.rd_shutdown
    BY <2>1, <2>2 DEF SocketRecords
  <2>4. <<>> \o Tail(s.backlog) = Tail(s.backlog)
    BY <2>2
  <2> QED BY <1>3, <2>0, <2>3, <2>4 DEF Line
<1> QED BY <1>2, <1>3

\* A poll moves a connection forward in the line.
LEMMA ProbedLine ==
  ASSUME NEW s \in SocketRecords
  PROVE  /\ Probed(s) \in SocketRecords /\ Line(Probed(s)) = Line(s)
         /\ Probed(s).taken = s.taken /\ Probed(s).ep = s.ep /\ Probed(s).conn = s.conn
         /\ Probed(s).rd_shutdown = s.rd_shutdown
<1>1. CASE ~(s.ep = "listener" /\ s.pending = <<>> /\ s.backlog # <<>>)
  BY <1>1 DEF Probed
<1>2. CASE s.ep = "listener" /\ s.pending = <<>> /\ s.backlog # <<>>
  <2>0. s.backlog \in Seq(Nat)
    BY DEF SocketRecords
  <2> DEFINE first == <<Head(s.backlog)>>
             rest == Tail(s.backlog)
  <2>1. first \in Seq(Nat) /\ rest \in Seq(Nat) /\ first \o rest = s.backlog /\ <<>> \o s.backlog = s.backlog
    BY <1>2, <2>0
  <2>2. Probed(s) = [s EXCEPT !.backlog = rest, !.pending = first]
    BY <1>2 DEF Probed
  <2> HIDE DEF first, rest
  <2>3. /\ Probed(s) \in SocketRecords /\ Probed(s).pending = first /\ Probed(s).backlog = rest
        /\ Probed(s).taken = s.taken /\ Probed(s).ep = s.ep /\ Probed(s).conn = s.conn
        /\ Probed(s).rd_shutdown = s.rd_shutdown
    BY <2>1, <2>2 DEF SocketRecords
  <2> QED BY <1>2, <2>1, <2>3 DEF Line
<1> QED BY <1>1, <1>2

\* Accept and read block on an empty line or wire only, so a poll that finds
\* something has nothing to take back.
LEMMA BlocksIs ==
  ASSUME NEW s \in SocketRecords
  PROVE  AcceptBlocks(s) <=> s.ep = "listener" /\ Line(s) = <<>>
<1>1. s.pending \in Seq(Nat) /\ s.backlog \in Seq(Nat)
  BY DEF SocketRecords
<1>2. Line(s) = <<>> <=> s.pending = <<>> /\ s.backlog = <<>>
  BY <1>1 DEF Line
<1> QED BY <1>2 DEF AcceptBlocks

-----------------------------------------------------------------------------
(* What a step has to show.                                                *)

LEMMA HeldBelow ==
  ASSUME SocketsRight, NEW h \in OpenSockets
  PROVE  /\ Len(wire) \in Nat /\ sockets[h] \in SocketRecords
         /\ \A c \in Holds(sockets[h]) : c \in 0 .. Len(wire)
<1>1. Len(wire) \in Nat /\ SocketRight(sockets[h], Len(wire))
  BY DEF SocketsRight
<1>2. InLine(sockets[h]) \subseteq Nat /\ sockets[h] \in SocketRecords
  BY <1>1, LineType DEF SocketRight
<1> QED BY <1>1, <1>2 DEF SocketRight, Holds

\* One socket changes, and holds what it did or connections that are new.
LEMMA OneChanges ==
  ASSUME SocketsRight, NEW h \in OpenSockets, NEW s,
         sockets' = [sockets EXCEPT ![h] = s], opened' = opened,
         wire' \in Seq(Ends), Len(wire) <= Len(wire'), SocketRight(s, Len(wire')),
         \A c \in Holds(s) : c \in Holds(sockets[h]) \/ c > Len(wire)
  PROVE  /\ SocketsRight' /\ OpenSockets' = OpenSockets
         /\ sockets'[h] = s /\ \A k \in OpenSockets \ {h} : sockets'[k] = sockets[k]
<1>1. /\ OpenSockets' = OpenSockets /\ sockets'[h] = s
      /\ \A k \in OpenSockets \ {h} : sockets'[k] = sockets[k]
      /\ sockets' = [k \in OpenSockets |-> sockets'[k]]
  BY DEF SocketsRight, OpenSockets
<1>2. Len(wire) \in Nat /\ Len(wire') \in Nat
  BY DEF SocketsRight
<1>3. ASSUME NEW k \in OpenSockets
      PROVE  SocketRight(sockets'[k], Len(wire'))
  <2>1. CASE k = h
    BY <1>1, <2>1
  <2>2. CASE k # h
    <3>1. SocketRight(sockets[k], Len(wire))
      BY DEF SocketsRight
    <3>2. InLine(sockets[k]) \subseteq Nat /\ sockets[k].taken \in Nat
      BY <3>1, LineType DEF SocketRight, SocketRecords
    <3> QED BY <1>1, <1>2, <2>2, <3>1, <3>2 DEF SocketRight
  <2> QED BY <2>1, <2>2
<1>4. ASSUME NEW k \in OpenSockets, k # h
      PROVE  Holds(sockets'[k]) \cap Holds(s) = {}
  <2>1. Holds(sockets[k]) \cap Holds(sockets[h]) = {}
    BY <1>4 DEF SocketsRight
  <2>2. \A c \in Holds(sockets[k]) : c \in 0 .. Len(wire)
    BY HeldBelow
  <2> QED BY <1>1, <1>2, <1>4, <2>1, <2>2
<1>5. ASSUME NEW k \in OpenSockets, NEW l \in OpenSockets, k # l
      PROVE  Holds(sockets'[k]) \cap Holds(sockets'[l]) = {}
  <2>1. CASE k = h
    BY <1>1, <1>4, <1>5, <2>1
  <2>2. CASE l = h
    BY <1>1, <1>4, <1>5, <2>2
  <2>3. CASE k # h /\ l # h
    BY <1>1, <1>5, <2>3 DEF SocketsRight
  <2> QED BY <2>1, <2>2, <2>3
<1>6. opened' \in Nat /\ OpenSockets' \subseteq 1 .. opened'
  BY <1>1 DEF SocketsRight
<1>7. sockets' = [k \in OpenSockets' |-> sockets'[k]]
  BY <1>1
<1>8. (\A k \in OpenSockets : SocketRight(sockets[k], Len(wire)))'
  BY <1>1, <1>3
<1>9. (\A k, l \in OpenSockets : k # l => Holds(sockets[k]) \cap Holds(sockets[l]) = {})'
  BY <1>1, <1>5
<1>10. SocketsRight'
  BY <1>6, <1>7, <1>8, <1>9 DEF SocketsRight
<1> QED BY <1>1, <1>10

\* A promise stays good when what it rests on does.
HasNews(w, c) == ~(w[c].bytes = 0 /\ ~w[c].eof)
NoWorse(p) ==
    /\ sockets'[p[1]].ep = sockets[p[1]].ep /\ sockets'[p[1]].conn = sockets[p[1]].conn
    /\ sockets[p[1]].rd_shutdown => sockets'[p[1]].rd_shutdown
    /\ p[2] = "accept" => (Line(sockets[p[1]]) # <<>> => Line(sockets'[p[1]]) # <<>>)
    /\ p[2] = "read" /\ Connected(sockets[p[1]])
         => (HasNews(wire, sockets[p[1]].conn) => HasNews(wire', sockets[p[1]].conn))

LEMMA StaysKept ==
  ASSUME SocketsRight, SocketsRight', NEW p, p[1] \in OpenSockets, p[1] \in OpenSockets',
         Kept(p), NoWorse(p)
  PROVE  Kept(p)'
<1>1. sockets[p[1]] \in SocketRecords
  BY DEF SocketsRight, SocketRight
<1>2. sockets'[p[1]] \in SocketRecords
  BY DEF SocketsRight, SocketRight
<1>3. p[2] = "accept" => ~AcceptBlocks(sockets'[p[1]])
  BY <1>1, <1>2, BlocksIs DEF Kept, NoWorse
<1>4. p[2] = "read" => ~RecvBlocks(sockets[p[1]])'
  <2>1. SUFFICES ASSUME p[2] = "read"  PROVE ~RecvBlocks(sockets[p[1]])'
    OBVIOUS
  <2>2. ~RecvBlocks(sockets[p[1]])
    BY <2>1 DEF Kept
  <2> QED BY <1>1, <1>2, <2>1, <2>2 DEF NoWorse, RecvBlocks, HasNews, Connected
<1> QED BY <1>3, <1>4 DEF Kept

LEMMA PromisesStay ==
  ASSUME SocketsInv, SocketsRight', promised' \subseteq promised,
         \A p \in promised' : p[1] \in OpenSockets' /\ NoWorse(p)
  PROVE  PromisesRight'
<1>1. ASSUME NEW p \in promised'
      PROVE  p \in OpenSockets' \X {"accept", "read"} /\ Kept(p)'
  <2>1. p \in OpenSockets \X {"accept", "read"} /\ Kept(p)
    BY DEF SocketsInv, PromisesRight
  <2>2. Kept(p)'
    BY <2>1, StaysKept DEF SocketsInv
  <2> QED BY <2>1, <2>2
<1> QED BY <1>1 DEF PromisesRight

\* One socket changes and the wires that are there do not.
LEMMA OneKeeps ==
  ASSUME SocketsInv, NEW h \in OpenSockets, NEW s,
         sockets' = [sockets EXCEPT ![h] = s], opened' = opened,
         wire' \in Seq(Ends), Len(wire) <= Len(wire'), SocketRight(s, Len(wire')),
         \A c \in 1 .. Len(wire) : wire'[c] = wire[c],
         \A c \in Holds(s) : c \in Holds(sockets[h]) \/ c > Len(wire),
         s.ep = "datagram" => ~wire'[s.conn].eof,
         promised' \subseteq promised, \A p \in promised' : p[1] = h => NoWorse(p)
  PROVE  SocketsInv'
<1>1. /\ SocketsRight' /\ OpenSockets' = OpenSockets
      /\ sockets'[h] = s /\ \A k \in OpenSockets \ {h} : sockets'[k] = sockets[k]
  BY OneChanges DEF SocketsInv
<1>2. \A k \in OpenSockets : Connected(sockets[k]) => sockets[k].conn \in 1 .. Len(wire)
  BY DEF SocketsInv, SocketsRight, SocketRight
<1>3. DatagramsOpen'
  <2>1. ASSUME NEW k \in OpenSockets, sockets'[k].ep = "datagram"
        PROVE  ~wire'[sockets'[k].conn].eof
    BY <1>1, <1>2, <2>1 DEF SocketsInv, DatagramsOpen, Connected
  <2> QED BY <1>1, <2>1 DEF DatagramsOpen
<1>4. PromisesRight'
  <2>1. ASSUME NEW p \in promised'
        PROVE  p[1] \in OpenSockets' /\ NoWorse(p)
    <3>1. p[1] \in OpenSockets
      BY DEF SocketsInv, PromisesRight
    <3>2. CASE p[1] # h
      BY <1>1, <1>2, <3>1, <3>2 DEF NoWorse, HasNews
    <3> QED BY <1>1, <3>1, <3>2
  <2> QED BY <1>1, <2>1, PromisesStay
<1> QED BY <1>1, <1>3, <1>4 DEF SocketsInv

LEMMA ArrivedIs ==
  ASSUME SocketsRight
  PROVE  /\ Len(wire) \in Nat /\ NextConn = Len(wire) + 1
         /\ Arrived \in Seq(Ends) /\ Len(Arrived) = Len(wire) + 1
         /\ \A c \in 1 .. Len(wire) : Arrived[c] = wire[c]
         /\ ~Arrived[NextConn].eof
<1>1. wire \in Seq(Ends) /\ [bytes |-> 0, eof |-> FALSE] \in Ends
  BY DEF SocketsRight, Ends
<1> DEFINE new == [bytes |-> 0, eof |-> FALSE]
<1>2. ~new.eof
  OBVIOUS
<1> HIDE DEF new
<1>3. Arrived = Append(wire, new)
  BY DEF Arrived, new
<1>4. new \in Ends
  BY <1>1 DEF new
<1> QED BY <1>1, <1>2, <1>3, <1>4 DEF NextConn

\* Giving the host's listener up leaves what is parked.
LEMMA ParkedStays ==
  ASSUME NEW o \in SocketRecords, NEW s \in SocketRecords,
         s.pending = o.pending, s.backlog = <<>>, s.taken = o.taken, InOrder(Line(o), o.taken)
  PROVE  InOrder(Line(s), s.taken) /\ InLine(s) \subseteq InLine(o)
<1>1. Line(s) = o.pending /\ o.pending \in Seq(Nat)
  BY DEF Line, SocketRecords
<1>2. /\ DOMAIN o.pending = 1 .. Len(o.pending) /\ Len(o.pending) \in Nat
      /\ \A i \in 1 .. Len(o.pending) : i \in DOMAIN Line(o) /\ Line(o)[i] = o.pending[i]
  <2> DEFINE p == o.pending
             l == Line(o)
  <2>1. /\ p \in Seq(Nat) /\ l \in Seq(Nat) /\ Len(p) <= Len(l) /\ \A i \in 1 .. Len(p) : l[i] = p[i]
    <3>1. /\ p \in Seq(Nat) /\ l \in Seq(Nat) /\ o.backlog \in Seq(Nat)
          /\ Len(l) = Len(p) + Len(o.backlog) /\ \A i \in 1 .. Len(p) : l[i] = p[i]
      BY LineType
    <3> HIDE DEF p, l
    <3>2. Len(p) \in Nat /\ Len(o.backlog) \in Nat
      BY <3>1
    <3> QED BY <3>1, <3>2
  <2> HIDE DEF p, l
  <2>2. DOMAIN p = 1 .. Len(p) /\ Len(p) \in Nat /\ \A i \in 1 .. Len(p) : i \in DOMAIN l
    BY <2>1
  <2> QED BY <2>1, <2>2 DEF p, l
<1>3. InOrder(o.pending, o.taken)
  BY <1>2 DEF InOrder
<1>4. \A i \in DOMAIN o.pending : o.pending[i] \in InLine(o)
  BY <1>2 DEF InLine
<1> QED BY <1>1, <1>3, <1>4 DEF InLine

-----------------------------------------------------------------------------
(* The actions.                                                            *)

LEMMA OpenKeeps ==
  ASSUME SocketsInv, nt_open_afd
  PROVE  SocketsInv'
<1>1. /\ opened' = opened + 1 /\ OpenSockets' = OpenSockets \cup {opened'}
      /\ sockets' = [h \in OpenSockets' |-> sockets'[h]] /\ sockets'[opened'] = NewSocket
      /\ \A h \in OpenSockets : h # opened' => sockets'[h] = sockets[h]
      /\ UNCHANGED <<wire, promised>>
  BY DEF nt_open_afd, OpenSockets
<1>2. opened \in Nat /\ OpenSockets \subseteq 1 .. opened /\ Len(wire) \in Nat
  BY DEF SocketsInv, SocketsRight
<1>3. opened' \notin OpenSockets /\ opened' \in Nat /\ OpenSockets' \subseteq 1 .. opened'
  BY <1>1, <1>2
<1>4. NewSocket \in SocketRecords /\ Line(NewSocket) = <<>> /\ ~Connected(NewSocket)
      /\ NewSocket.taken = 0
  BY DEF NewSocket, SocketRecords, Line, Connected, NoConn
<1>5. SocketRight(NewSocket, Len(wire)) /\ Holds(NewSocket) = {}
  <2>1. DOMAIN Line(NewSocket) = {}
    BY <1>4
  <2> QED BY <1>2, <1>4, <2>1 DEF SocketRight, Holds, InLine, InOrder
<1>6. \A h \in OpenSockets' : SocketRight(sockets'[h], Len(wire'))
  BY <1>1, <1>3, <1>5 DEF SocketsInv, SocketsRight
<1>7. \A h, k \in OpenSockets' : h # k => Holds(sockets'[h]) \cap Holds(sockets'[k]) = {}
  BY <1>1, <1>3, <1>5 DEF SocketsInv, SocketsRight
<1>8. (\A h \in OpenSockets : SocketRight(sockets[h], Len(wire)))'
  BY <1>6
<1>9. (\A h, k \in OpenSockets : h # k => Holds(sockets[h]) \cap Holds(sockets[k]) = {})'
  BY <1>7
<1>10. SocketsRight'
  BY <1>1, <1>3, <1>8, <1>9 DEF SocketsInv, SocketsRight
<1>11. DatagramsOpen'
  BY <1>1, <1>3 DEF SocketsInv, DatagramsOpen, NewSocket
<1>12. PromisesRight'
  <2>1. ASSUME NEW p \in promised'
        PROVE  p[1] \in OpenSockets' /\ NoWorse(p)
    <3>1. p[1] \in OpenSockets
      BY <1>1 DEF SocketsInv, PromisesRight
    <3> QED BY <1>1, <1>3, <3>1 DEF NoWorse, HasNews
  <2> QED BY <1>1, <1>10, <2>1, PromisesStay
<1> QED BY <1>10, <1>11, <1>12 DEF SocketsInv

LEMMA CloseKeeps ==
  ASSUME SocketsInv, NEW h \in OpenSockets, close_socket(h)
  PROVE  SocketsInv'
<1>1. /\ OpenSockets' = OpenSockets \ {h} /\ sockets' = [k \in OpenSockets' |-> sockets'[k]]
      /\ \A k \in OpenSockets' : sockets'[k] = sockets[k]
      /\ UNCHANGED <<opened, wire>> /\ promised' = Forget(h)
  BY DEF close_socket, OpenSockets
<1>2. (\A k \in OpenSockets : SocketRight(sockets[k], Len(wire)))'
  BY <1>1 DEF SocketsInv, SocketsRight
<1>3. (\A k, l \in OpenSockets : k # l => Holds(sockets[k]) \cap Holds(sockets[l]) = {})'
  BY <1>1 DEF SocketsInv, SocketsRight
<1>4. SocketsRight'
  BY <1>1, <1>2, <1>3 DEF SocketsInv, SocketsRight
<1>5. DatagramsOpen'
  BY <1>1 DEF SocketsInv, DatagramsOpen
<1>6. PromisesRight'
  <2>1. ASSUME NEW p \in promised'
        PROVE  p \in promised /\ p[1] \in OpenSockets' /\ NoWorse(p)
    <3>1. p \in promised /\ p[1] \in OpenSockets /\ p[1] # h
      BY <1>1 DEF SocketsInv, PromisesRight, Forget
    <3> QED BY <1>1, <3>1 DEF NoWorse, HasNews
  <2> QED BY <1>4, <2>1, PromisesStay
<1> QED BY <1>4, <1>5, <1>6 DEF SocketsInv

LEMMA CreateKeeps ==
  ASSUME SocketsInv, NEW h \in OpenSockets, NEW kind \in {"stream", "dgram"}, afd_create(h, kind)
  PROVE  SocketsInv'
<1> DEFINE s == [NewSocket EXCEPT !.kind = kind]
<1>1. sockets[h] = NewSocket /\ sockets' = [sockets EXCEPT ![h] = s] /\ UNCHANGED <<opened, wire, promised>>
  BY DEF afd_create
<1>2. /\ s \in SocketRecords /\ Line(s) = <<>> /\ Line(NewSocket) = <<>> /\ s.ep = "unbound"
      /\ s.taken = 0 /\ s.conn = NewSocket.conn /\ NewSocket.ep = "unbound"
      /\ NewSocket.rd_shutdown = FALSE
  <2>1. NewSocket \in SocketRecords
    BY DEF NewSocket, SocketRecords, NoConn
  <2>2. /\ NewSocket.pending = <<>> /\ NewSocket.backlog = <<>> /\ NewSocket.taken = 0
        /\ NewSocket.ep = "unbound" /\ NewSocket.rd_shutdown = FALSE
    BY DEF NewSocket
  <2>3. /\ s \in SocketRecords /\ s.pending = NewSocket.pending /\ s.backlog = NewSocket.backlog
        /\ s.taken = NewSocket.taken /\ s.conn = NewSocket.conn /\ s.ep = NewSocket.ep
    BY <2>1 DEF SocketRecords
  <2> QED BY <2>2, <2>3 DEF Line
<1> HIDE DEF s
<1>3. DOMAIN Line(s) = {}
  BY <1>2
<1>4. wire \in Seq(Ends) /\ Len(wire) \in Nat
  BY DEF SocketsInv, SocketsRight
<1>5. SocketRight(s, Len(wire)) /\ Holds(s) = {}
  BY <1>2, <1>3, <1>4 DEF SocketRight, Holds, InLine, InOrder, Connected
<1>6. sockets'[h] = s
  BY <1>1 DEF OpenSockets
<1>7. \A p \in promised' : p[1] = h => NoWorse(p)
  BY <1>1, <1>2, <1>6 DEF NoWorse, HasNews
<1>8. /\ wire' = wire /\ promised' \subseteq promised /\ opened' = opened
      /\ wire' \in Seq(Ends) /\ Len(wire) <= Len(wire') /\ SocketRight(s, Len(wire'))
      /\ s.ep # "datagram"
  BY <1>1, <1>2, <1>4, <1>5
<1> QED BY <1>1, <1>5, <1>7, <1>8, OneKeeps

\* Only flags change.
LEMMA FlagKeeps ==
  ASSUME SocketsInv, NEW h \in OpenSockets, afd_listen(h) \/ afd_shutdown(h)
  PROVE  SocketsInv'
<1> DEFINE o == sockets[h]
<1>1. o \in SocketRecords /\ SocketRight(o, Len(wire)) /\ wire \in Seq(Ends) /\ Len(wire) \in Nat
  BY DEF SocketsInv, SocketsRight, SocketRight
<1>2. \E s : /\ sockets' = [sockets EXCEPT ![h] = s]
              /\ (s = [o EXCEPT !.listening = TRUE] \/ s = [o EXCEPT !.rd_shutdown = TRUE])
  BY DEF afd_listen, afd_shutdown
<1>3. PICK s : /\ sockets' = [sockets EXCEPT ![h] = s]
               /\ (s = [o EXCEPT !.listening = TRUE] \/ s = [o EXCEPT !.rd_shutdown = TRUE])
  BY <1>2
<1>4. UNCHANGED <<opened, wire, promised>>
  BY DEF afd_listen, afd_shutdown
<1>5. /\ s \in SocketRecords /\ s.pending = o.pending /\ s.backlog = o.backlog /\ s.taken = o.taken
      /\ s.ep = o.ep /\ s.conn = o.conn /\ (o.rd_shutdown => s.rd_shutdown)
  BY <1>1, <1>3 DEF SocketRecords
<1>6. Line(s) = Line(o) /\ Holds(s) = Holds(o) /\ SocketRight(s, Len(wire))
  BY <1>1, <1>5 DEF Line, Holds, InLine, SocketRight, Connected
<1>7. sockets'[h] = s
  BY <1>3 DEF OpenSockets
<1>8. \A p \in promised' : p[1] = h => NoWorse(p)
  BY <1>4, <1>5, <1>6, <1>7 DEF NoWorse, HasNews
<1>9. s.ep = "datagram" => ~wire[s.conn].eof
  BY <1>5 DEF SocketsInv, DatagramsOpen
<1>10. /\ wire' = wire /\ promised' \subseteq promised /\ opened' = opened
       /\ wire' \in Seq(Ends) /\ Len(wire) <= Len(wire') /\ SocketRight(s, Len(wire'))
  BY <1>1, <1>4, <1>6
<1> QED BY <1>3, <1>6, <1>8, <1>9, <1>10, OneKeeps

\* Binding and connecting change the endpoint; what a poll parked stays.
LEMMA EndpointKeeps ==
  ASSUME SocketsInv, NEW h \in OpenSockets, NEW s \in SocketRecords,
         sockets' = [sockets EXCEPT ![h] = s], opened' = opened, promised' = Forget(h),
         s.pending = sockets[h].pending, s.backlog = <<>>, s.taken = sockets[h].taken,
         \/ ~Connected(s) /\ wire' = wire
         \/ s.conn = NextConn /\ wire' = Arrived
  PROVE  SocketsInv'
<1> DEFINE o == sockets[h]
<1>1. o \in SocketRecords /\ SocketRight(o, Len(wire)) /\ wire \in Seq(Ends) /\ Len(wire) \in Nat
  BY DEF SocketsInv, SocketsRight, SocketRight
<1>2. /\ InOrder(Line(s), s.taken) /\ InLine(s) \subseteq InLine(o)
      /\ s.taken <= Len(wire) /\ s.taken \in Nat
      /\ \A c \in InLine(s) : c <= Len(wire) /\ c \in Nat
  <2>1. InOrder(Line(o), o.taken) /\ o.taken <= Len(wire) /\ \A c \in InLine(o) : c <= Len(wire)
    BY <1>1 DEF SocketRight
  <2>2. InOrder(Line(s), s.taken) /\ InLine(s) \subseteq InLine(o)
    BY <1>1, <2>1, ParkedStays
  <2>3. InLine(o) \subseteq Nat /\ o.taken \in Nat
    BY <1>1, LineType DEF SocketRecords
  <2> QED BY <2>1, <2>2, <2>3
<1>3. \A p \in promised' : p \in promised /\ p[1] # h
  BY DEF Forget
<1>4. CASE ~Connected(s) /\ wire' = wire
  <2>1. SocketRight(s, Len(wire')) /\ Holds(s) \subseteq Holds(o)
    BY <1>2, <1>4 DEF SocketRight, Holds
  <2>2. /\ wire' \in Seq(Ends) /\ Len(wire) <= Len(wire') /\ promised' \subseteq promised
        /\ s.ep # "datagram"
    BY <1>1, <1>3, <1>4 DEF Connected
  <2> QED BY <1>3, <1>4, <2>1, <2>2, OneKeeps
<1>5. CASE s.conn = NextConn /\ wire' = Arrived
  <2>1. /\ Len(wire') = Len(wire) + 1 /\ NextConn = Len(wire) + 1 /\ wire' \in Seq(Ends)
        /\ \A c \in 1 .. Len(wire) : wire'[c] = wire[c]
        /\ ~wire'[s.conn].eof
    BY <1>5, ArrivedIs DEF SocketsInv
  <2>2. SocketRight(s, Len(wire'))
    BY <1>1, <1>2, <1>5, <2>1 DEF SocketRight
  <2>3. \A c \in Holds(s) : c \in Holds(o) \/ c > Len(wire)
    BY <1>1, <1>2, <1>5, <2>1 DEF Holds
  <2>4. promised' \subseteq promised /\ Len(wire) <= Len(wire')
    BY <1>1, <1>3, <2>1
  <2> QED BY <1>3, <2>1, <2>2, <2>3, <2>4, OneKeeps
<1> QED BY <1>4, <1>5

LEMMA BindKeeps ==
  ASSUME SocketsInv, NEW h \in OpenSockets, NEW port \in {"any", "chosen"}, afd_bind(h, port)
  PROVE  SocketsInv'
<1> DEFINE o == sockets[h]
           dgram == o.kind = "dgram"
           s == [o EXCEPT !.ep = IF dgram THEN "datagram" ELSE "listener",
                          !.conn = IF dgram THEN NextConn ELSE NoConn,
                          !.backlog = <<>>, !.bound = port]
<1>1. o \in SocketRecords /\ NextConn \in Nat /\ NoConn \in Nat /\ <<>> \in Seq(Nat)
  BY DEF SocketsInv, SocketsRight, SocketRight, NextConn, NoConn
<1>2. sockets' = [sockets EXCEPT ![h] = s] /\ opened' = opened /\ promised' = Forget(h)
  BY DEF afd_bind
<1>3. wire' = IF dgram THEN Arrived ELSE wire
  BY DEF afd_bind
<1>4. /\ s \in SocketRecords /\ s.pending = o.pending /\ s.backlog = <<>> /\ s.taken = o.taken
      /\ s.ep = (IF dgram THEN "datagram" ELSE "listener") /\ (dgram => s.conn = NextConn)
  BY <1>1 DEF SocketRecords
<1> HIDE DEF s
<1>5. \/ ~Connected(s) /\ wire' = wire
      \/ s.conn = NextConn /\ wire' = Arrived
  BY <1>3, <1>4 DEF Connected
<1> QED BY <1>2, <1>4, <1>5, EndpointKeeps

LEMMA ConnectKeeps ==
  ASSUME SocketsInv, NEW h \in OpenSockets, NEW accepted \in BOOLEAN, afd_connect(h, accepted)
  PROVE  SocketsInv'
<1> DEFINE o == sockets[h]
           ep == IF ~accepted THEN "unbound"
                 ELSE IF o.kind = "dgram" /\ o.ep = "unbound" THEN "datagram" ELSE "stream"
           s == [o EXCEPT !.ep = ep, !.conn = IF accepted THEN NextConn ELSE NoConn, !.backlog = <<>>]
<1>1. /\ o \in SocketRecords /\ NextConn \in Nat /\ NoConn \in Nat /\ <<>> \in Seq(Nat)
      /\ ep \in {"unbound", "datagram", "stream"} /\ (~accepted => ep = "unbound")
  BY DEF SocketsInv, SocketsRight, SocketRight, NextConn, NoConn
<1>2. sockets' = [sockets EXCEPT ![h] = s] /\ opened' = opened /\ promised' = Forget(h)
  BY DEF afd_connect
<1>3. wire' = IF accepted THEN Arrived ELSE wire
  BY DEF afd_connect
<1> HIDE DEF ep
<1>4. /\ s \in SocketRecords /\ s.pending = o.pending /\ s.backlog = <<>> /\ s.taken = o.taken
      /\ s.ep = ep /\ (accepted => s.conn = NextConn)
  BY <1>1 DEF SocketRecords
<1> HIDE DEF s
<1>5. \/ ~Connected(s) /\ wire' = wire
      \/ s.conn = NextConn /\ wire' = Arrived
  BY <1>1, <1>3, <1>4 DEF Connected
<1> QED BY <1>2, <1>4, <1>5, EndpointKeeps

LEMMA PeerConnectsKeeps ==
  ASSUME SocketsInv, NEW h \in OpenSockets, PeerConnects(h)
  PROVE  SocketsInv'
<1> DEFINE o == sockets[h]
           s == [o EXCEPT !.backlog = Append(o.backlog, NextConn)]
<1>1. o \in SocketRecords /\ SocketRight(o, Len(wire)) /\ Len(wire) \in Nat /\ o.ep = "listener"
  BY DEF SocketsInv, SocketsRight, SocketRight, PeerConnects
<1>2. sockets' = [sockets EXCEPT ![h] = s] /\ UNCHANGED <<opened, promised>> /\ wire' = Arrived
  BY DEF PeerConnects
<1>3. /\ Len(wire') = Len(wire) + 1 /\ NextConn = Len(wire) + 1 /\ wire' \in Seq(Ends)
      /\ \A c \in 1 .. Len(wire) : wire'[c] = wire[c]
  BY <1>2, ArrivedIs DEF SocketsInv
<1>4. o.backlog \in Seq(Nat) /\ o.pending \in Seq(Nat) /\ NextConn \in Nat
  BY <1>1, <1>3 DEF SocketRecords
<1>5. Append(o.backlog, NextConn) \in Seq(Nat)
  BY <1>4
<1>6. /\ s \in SocketRecords /\ s.pending = o.pending /\ s.backlog = Append(o.backlog, NextConn)
      /\ s.taken = o.taken /\ s.ep = o.ep /\ s.conn = o.conn /\ s.rd_shutdown = o.rd_shutdown
  BY <1>1, <1>5 DEF SocketRecords
<1> HIDE DEF s
<1>7. Line(s) = Append(Line(o), NextConn)
  <2> DEFINE p == o.pending
             b == o.backlog
  <2>1. p \in Seq(Nat) /\ b \in Seq(Nat) /\ NextConn \in Nat
    BY <1>4
  <2>2. Line(s) = p \o Append(b, NextConn) /\ Line(o) = p \o b
    BY <1>6 DEF Line
  <2> HIDE DEF p, b
  <2>3. p \o Append(b, NextConn) = Append(p \o b, NextConn)
    BY <2>1
  <2> QED BY <2>2, <2>3
<1> DEFINE l == Line(o)
<1>8. /\ l \in Seq(Nat) /\ InOrder(l, o.taken) /\ o.taken \in Nat /\ o.taken <= Len(wire)
      /\ \A i \in DOMAIN l : l[i] <= Len(wire) /\ l[i] \in Nat
  <2>1. l \in Seq(Nat) /\ InLine(o) \subseteq Nat
    BY <1>1, LineType
  <2>2. \A i \in DOMAIN l : l[i] \in InLine(o)
    BY DEF InLine
  <2> QED BY <1>1, <2>1, <2>2 DEF SocketRight, SocketRecords
<1>9. InOrder(Line(s), s.taken)
  <2> HIDE DEF l
  <2>1. o.taken < NextConn /\ \A i \in DOMAIN l : l[i] < NextConn
    BY <1>1, <1>3, <1>8
  <2>2. InOrder(Append(l, NextConn), o.taken)
    BY <1>4, <1>8, <2>1, AppendInOrder
  <2> QED BY <1>6, <1>7, <2>2 DEF l
<1>10. InLine(s) = InLine(o) \cup {NextConn}
  <2> HIDE DEF l
  <2> DEFINE a == Append(l, NextConn)
  <2>1. /\ DOMAIN a = 1 .. Len(l) + 1 /\ DOMAIN l = 1 .. Len(l) /\ a[Len(l) + 1] = NextConn
        /\ Len(l) \in Nat /\ \A i \in 1 .. Len(l) : a[i] = l[i]
    BY <1>4, <1>8
  <2> HIDE DEF a
  <2>2. {a[i] : i \in DOMAIN a} = {l[i] : i \in DOMAIN l} \cup {NextConn}
    BY <2>1
  <2> QED BY <1>7, <2>2 DEF InLine, a, l
<1>11. \A c \in InLine(o) : c <= Len(wire) /\ c \in Nat
  BY <1>1, LineType DEF SocketRight
<1>12. ~Connected(s) /\ ~Connected(o) /\ s.ep # "datagram"
  BY <1>1, <1>6 DEF Connected
<1>13. SocketRight(s, Len(wire'))
  BY <1>1, <1>3, <1>6, <1>8, <1>9, <1>10, <1>11, <1>12 DEF SocketRight
<1>14. \A c \in Holds(s) : c \in Holds(o) \/ c > Len(wire)
  BY <1>1, <1>3, <1>10, <1>12 DEF Holds
<1>15. sockets'[h] = s
  BY <1>2 DEF OpenSockets
<1>16. Line(s) # <<>>
  <2> HIDE DEF l
  <2>0. l \in Seq(Nat)
    BY <1>8
  <2>1. Append(l, NextConn) # <<>>
    <3>1. Append(l, NextConn)[Len(l) + 1] = NextConn /\ Len(Append(l, NextConn)) = Len(l) + 1 /\ Len(l) \in Nat
      BY <1>4, <2>0
    <3>2. Len(<<>>) = 0
      OBVIOUS
    <3> QED BY <3>1, <3>2
  <2> QED BY <1>7, <2>1 DEF l
<1>17. \A p \in promised' : p[1] = h => NoWorse(p)
  BY <1>6, <1>12, <1>15, <1>16 DEF NoWorse
<1>18. promised' \subseteq promised /\ Len(wire) <= Len(wire') /\ opened' = opened
  BY <1>1, <1>2, <1>3
<1> QED BY <1>2, <1>3, <1>12, <1>13, <1>14, <1>17, <1>18, OneKeeps

\* The connection that is accepted moves from the line to a socket of its own.
LEMMA AcceptKeeps ==
  ASSUME SocketsInv, NEW h \in OpenSockets, afd_accept(h)
  PROVE  SocketsInv'
<1> DEFINE o == sockets[h]
           s == Accepting(o)
           l == Line(o)
           c == Head(l)
           new == [NewSocket EXCEPT !.kind = "stream", !.ep = "stream", !.conn = s.taken]
<1>1. o \in SocketRecords /\ SocketRight(o, Len(wire)) /\ Len(wire) \in Nat /\ l # <<>>
  BY DEF SocketsInv, SocketsRight, SocketRight, afd_accept
<1>2. /\ opened \in Nat /\ OpenSockets \subseteq 1 .. opened /\ opened' = opened + 1
      /\ UNCHANGED wire /\ promised' = promised \ {<<h, "accept">>}
  BY DEF SocketsInv, SocketsRight, afd_accept
<1>3. opened' \notin OpenSockets /\ h # opened' /\ opened' \in Nat
  BY <1>2
<1>4. sockets' = [k \in OpenSockets \cup {opened'} |->
                     CASE k = h -> s [] k = opened' -> new [] OTHER -> sockets[k]]
  BY DEF afd_accept
<1> HIDE DEF s, new
<1>5. /\ OpenSockets' = OpenSockets \cup {opened'} /\ sockets' = [k \in OpenSockets' |-> sockets'[k]]
      /\ sockets'[h] = s /\ sockets'[opened'] = new
      /\ \A k \in OpenSockets \ {h} : sockets'[k] = sockets[k]
  BY <1>3, <1>4 DEF OpenSockets
<1>6. /\ s \in SocketRecords /\ Line(s) = Tail(l) /\ s.taken = c /\ s.ep = o.ep /\ s.conn = o.conn
      /\ s.rd_shutdown = o.rd_shutdown
  BY <1>1, AcceptingLine DEF s
<1>7. l \in Seq(Nat) /\ InLine(o) \subseteq Nat /\ InOrder(l, o.taken)
  BY <1>1, LineType DEF SocketRight
<1>8. /\ c \in Nat /\ InOrder(Tail(l), c) /\ o.taken < c /\ o.taken \in Nat
      /\ \A i \in DOMAIN Tail(l) : i + 1 \in DOMAIN l /\ Tail(l)[i] = l[i + 1] /\ Tail(l)[i] # c
  <2> HIDE DEF l
  <2>1. l # <<>>
    BY <1>1
  <2> QED BY <1>1, <1>7, <2>1, TailInOrder DEF SocketRecords
<1>9. c \in InLine(o)
  <2> HIDE DEF l
  <2>1. 1 \in DOMAIN l /\ c = l[1]
    BY <1>1, <1>7
  <2> QED BY <2>1 DEF InLine, l
<1>10. InLine(s) \subseteq InLine(o) \ {c}
  BY <1>6, <1>8 DEF InLine
<1>11. c <= Len(wire) /\ c >= 1 /\ c \in 1 .. Len(wire)
  BY <1>1, <1>8, <1>9 DEF SocketRight
<1>12. SocketRight(s, Len(wire))
  BY <1>1, <1>6, <1>8, <1>10, <1>11 DEF SocketRight, Connected
<1>13. /\ new \in SocketRecords /\ new.ep = "stream" /\ new.conn = c /\ new.taken = 0
       /\ Line(new) = <<>> /\ new.ep # "datagram"
  <2>1. NewSocket \in SocketRecords
    BY DEF NewSocket, SocketRecords, NoConn
  <2>2. NewSocket.pending = <<>> /\ NewSocket.backlog = <<>> /\ NewSocket.taken = 0
    BY DEF NewSocket
  <2>3. /\ new \in SocketRecords /\ new.ep = "stream" /\ new.conn = c /\ new.pending = NewSocket.pending
        /\ new.backlog = NewSocket.backlog /\ new.taken = NewSocket.taken
    BY <1>6, <1>8, <2>1 DEF SocketRecords, new
  <2> QED BY <2>2, <2>3 DEF Line
<1>14. SocketRight(new, Len(wire)) /\ Holds(new) = {c}
  <2>1. DOMAIN Line(new) = {} /\ InLine(new) = {}
    BY <1>13 DEF InLine
  <2> QED BY <1>1, <1>11, <1>13, <2>1 DEF SocketRight, Holds, InOrder, Connected
<1>15. Holds(s) \subseteq Holds(o) \ {c} /\ c \in Holds(o)
  BY <1>1, <1>6, <1>9, <1>10 DEF Holds, Connected, SocketRight
<1>16. ASSUME NEW k \in OpenSockets'
       PROVE  SocketRight(sockets'[k], Len(wire'))
  BY <1>2, <1>5, <1>12, <1>14 DEF SocketsInv, SocketsRight
<1>17. ASSUME NEW k \in OpenSockets \ {h}
       PROVE  Holds(sockets'[k]) \cap Holds(o) = {}
  BY <1>5 DEF SocketsInv, SocketsRight
<1>18. ASSUME NEW k \in OpenSockets', NEW m \in OpenSockets', k # m
       PROVE  Holds(sockets'[k]) \cap Holds(sockets'[m]) = {}
  <2>1. CASE (k = opened' /\ m = h) \/ (k = h /\ m = opened')
    BY <1>5, <1>14, <1>15, <2>1
  <2>2. CASE (k = opened' /\ m \in OpenSockets \ {h}) \/ (m = opened' /\ k \in OpenSockets \ {h})
    BY <1>5, <1>14, <1>15, <1>17, <2>2
  <2>3. CASE (k = h /\ m \in OpenSockets \ {h}) \/ (m = h /\ k \in OpenSockets \ {h})
    BY <1>5, <1>15, <1>17, <2>3
  <2>4. CASE k \in OpenSockets \ {h} /\ m \in OpenSockets \ {h}
    BY <1>5, <1>18, <2>4 DEF SocketsInv, SocketsRight
  <2> QED BY <1>5, <1>18, <2>1, <2>2, <2>3, <2>4
<1>19. SocketsRight'
  <2>1. (\A k \in OpenSockets : SocketRight(sockets[k], Len(wire)))'
    BY <1>16
  <2>2. (\A k, m \in OpenSockets : k # m => Holds(sockets[k]) \cap Holds(sockets[m]) = {})'
    BY <1>18
  <2>3. opened' \in Nat /\ OpenSockets' \subseteq 1 .. opened' /\ wire' \in Seq(Ends)
    BY <1>2, <1>5 DEF SocketsInv, SocketsRight
  <2> QED BY <1>5, <2>1, <2>2, <2>3 DEF SocketsRight
<1>20. DatagramsOpen'
  <2>1. ASSUME NEW k \in OpenSockets', sockets'[k].ep = "datagram"
        PROVE  ~wire'[sockets'[k].conn].eof
    <3>1. k # opened'
      BY <1>5, <1>13, <2>1
    <3> QED BY <1>2, <1>5, <1>6, <2>1, <3>1 DEF SocketsInv, DatagramsOpen
  <2> QED BY <2>1 DEF DatagramsOpen
<1>21. PromisesRight'
  <2>1. ASSUME NEW p \in promised'
        PROVE  p[1] \in OpenSockets' /\ NoWorse(p)
    <3>1. p \in OpenSockets \X {"accept", "read"} /\ p # <<h, "accept">>
      BY <1>2 DEF SocketsInv, PromisesRight
    <3>2. CASE p[1] # h
      <4>1. p[1] \in OpenSockets \ {h}
        BY <3>1, <3>2
      <4> QED BY <1>2, <1>5, <4>1 DEF NoWorse, HasNews
    <3>3. CASE p[1] = h
      <4>1. p[2] # "accept"
        BY <3>1, <3>3
      <4> QED BY <1>2, <1>5, <1>6, <3>3, <4>1 DEF NoWorse, HasNews
    <3> QED BY <3>2, <3>3
  <2>2. promised' \subseteq promised
    BY <1>2
  <2> QED BY <1>19, <2>1, <2>2, PromisesStay
<1> QED BY <1>19, <1>20, <1>21 DEF SocketsInv

\* A connection is read by the socket it belongs to, and by no other.
LEMMA WiresKeep ==
  ASSUME SocketsInv, UNCHANGED <<sockets, opened>>, promised' \subseteq promised,
         wire' \in Seq(Ends), Len(wire') = Len(wire),
         \A k \in OpenSockets : sockets[k].ep = "datagram" =>
             wire'[sockets[k].conn].eof = wire[sockets[k].conn].eof,
         \A p \in promised' : Connected(sockets[p[1]]) /\ p[2] = "read" =>
             (HasNews(wire, sockets[p[1]].conn) => HasNews(wire', sockets[p[1]].conn))
  PROVE  SocketsInv'
<1>1. OpenSockets' = OpenSockets
  BY DEF OpenSockets
<1>2. SocketsRight'
  BY <1>1 DEF SocketsInv, SocketsRight
<1>3. DatagramsOpen'
  BY <1>1 DEF SocketsInv, DatagramsOpen
<1>4. \A p \in promised' : p[1] \in OpenSockets' /\ NoWorse(p)
  BY <1>1 DEF SocketsInv, PromisesRight, NoWorse
<1> QED BY <1>2, <1>3, <1>4, PromisesStay DEF SocketsInv

LEMMA RecvKeeps ==
  ASSUME SocketsInv, NEW h \in OpenSockets, NEW n \in 0 .. MaxBytes, afd_recv(h, n)
  PROVE  SocketsInv'
<1> DEFINE s == sockets[h]
           t == Taken(s, n)
<1>1. /\ UNCHANGED <<sockets, opened>> /\ promised' = promised \ {<<h, "read">>}
      /\ wire' = IF t = 0 THEN wire ELSE [wire EXCEPT ![s.conn].bytes = @ - t]
      /\ RecvBlocks(s) => s.ep = "stream" /\ n = 0
  BY DEF afd_recv
<1>2. wire \in Seq(Ends) /\ SocketRight(s, Len(wire)) /\ Len(wire) \in Nat /\ n \in Nat
  BY SocketsAssumption DEF SocketsInv, SocketsRight
<1>3. CASE t = 0
  <2>1. wire' = wire
    BY <1>1, <1>3
  <2> QED BY <1>1, <1>2, <2>1, WiresKeep DEF HasNews
<1>4. CASE t # 0
  <2> DEFINE c == s.conn
  <2>1. Connected(s) /\ ~s.rd_shutdown
    BY <1>4 DEF Taken, Connected
  <2>2. c \in 1 .. Len(wire) /\ wire[c] \in Ends
    BY <1>2, <2>1 DEF SocketRight
  <2>3. wire[c].bytes \in Nat /\ wire[c].eof \in BOOLEAN
    BY <2>2 DEF Ends
  <2>4. t <= wire[c].bytes /\ t \in Nat
    <3>1. CASE s.ep = "datagram"
      <4>1. ~wire[c].eof /\ t = 1
        BY <1>4, <2>1, <3>1 DEF SocketsInv, DatagramsOpen, Taken
      <4>2. ~RecvBlocks(s)
        BY <1>1, <3>1
      <4> QED BY <2>1, <2>3, <3>1, <4>1, <4>2 DEF RecvBlocks
    <3>2. CASE s.ep # "datagram"
      BY <1>2, <1>4, <2>1, <2>3, <3>2 DEF Taken
    <3> QED BY <3>1, <3>2
  <2> HIDE DEF t
  <2> DEFINE end == [wire[c] EXCEPT !.bytes = wire[c].bytes - t]
  <2>5. end \in Ends /\ end.eof = wire[c].eof
    BY <2>2, <2>3, <2>4 DEF Ends
  <2>6. wire' = [wire EXCEPT ![c] = end]
    BY <1>1, <1>4
  <2> HIDE DEF end, c
  <2>7. /\ wire' \in Seq(Ends) /\ Len(wire') = Len(wire) /\ wire'[c] = end
        /\ \A d \in 1 .. Len(wire) : d # c => wire'[d] = wire[d]
    BY <1>2, <2>2, <2>5, <2>6
  <2>8. ASSUME NEW k \in OpenSockets, Connected(sockets[k]), k # h
        PROVE  sockets[k].conn # c /\ sockets[k].conn \in 1 .. Len(wire)
    <3>1. Holds(sockets[k]) \cap Holds(s) = {} /\ SocketRight(sockets[k], Len(wire))
      BY <2>8 DEF SocketsInv, SocketsRight
    <3> QED BY <2>1, <2>8, <3>1 DEF Holds, SocketRight, c
  <2>9. ASSUME NEW k \in OpenSockets, sockets[k].ep = "datagram"
        PROVE  wire'[sockets[k].conn].eof = wire[sockets[k].conn].eof
    <3>1. CASE k = h
      BY <2>5, <2>7, <3>1 DEF c
    <3>2. CASE k # h
      <4>1. Connected(sockets[k])
        BY <2>9 DEF Connected
      <4> QED BY <2>7, <2>8, <3>2, <4>1
    <3> QED BY <3>1, <3>2
  <2>10. ASSUME NEW p \in promised', Connected(sockets[p[1]]), p[2] = "read"
         PROVE  HasNews(wire, sockets[p[1]].conn) => HasNews(wire', sockets[p[1]].conn)
    <3>1. p \in OpenSockets \X {"accept", "read"} /\ p # <<h, "read">>
      BY <1>1 DEF SocketsInv, PromisesRight
    <3>2. p[1] \in OpenSockets /\ p[1] # h
      BY <2>10, <3>1
    <3> QED BY <2>7, <2>8, <2>10, <3>2 DEF HasNews
  <2> QED BY <1>1, <2>7, <2>9, <2>10, WiresKeep
<1> QED BY <1>3, <1>4

LEMMA PeerKeeps ==
  ASSUME SocketsInv, NEW c \in DOMAIN wire, PeerSends(c) \/ PeerCloses(c)
  PROVE  SocketsInv'
<1>1. UNCHANGED <<sockets, opened, promised>> /\ wire \in Seq(Ends) /\ wire[c] \in Ends
  BY DEF PeerSends, PeerCloses, SocketsInv, SocketsRight
<1>2. \E end \in Ends : /\ wire' = [wire EXCEPT ![c] = end]
                        /\ (end.bytes # 0 \/ end.eof)
                        /\ \A k \in OpenSockets : sockets[k].ep = "datagram" /\ sockets[k].conn = c =>
                                end.eof = wire[c].eof
  <2>1. CASE PeerSends(c)
    <3> DEFINE end == [wire[c] EXCEPT !.bytes = wire[c].bytes + 1]
    <3>1. end \in Ends /\ end.bytes # 0 /\ end.eof = wire[c].eof
      BY <1>1 DEF Ends
    <3>2. wire' = [wire EXCEPT ![c] = end]
      BY <2>1 DEF PeerSends
    <3> QED BY <3>1, <3>2
  <2>2. CASE PeerCloses(c)
    <3> DEFINE end == [wire[c] EXCEPT !.eof = TRUE]
    <3>1. end \in Ends /\ end.eof
      BY <1>1 DEF Ends
    <3>2. wire' = [wire EXCEPT ![c] = end]
      BY <2>2 DEF PeerCloses
    <3> QED BY <2>2, <3>1, <3>2 DEF PeerCloses
  <2> QED BY <2>1, <2>2
<1>3. PICK end \in Ends : /\ wire' = [wire EXCEPT ![c] = end]
                         /\ (end.bytes # 0 \/ end.eof)
                         /\ \A k \in OpenSockets : sockets[k].ep = "datagram" /\ sockets[k].conn = c =>
                                end.eof = wire[c].eof
  BY <1>2
<1>4. /\ wire' \in Seq(Ends) /\ Len(wire') = Len(wire) /\ wire'[c] = end
      /\ \A d \in DOMAIN wire : d # c => wire'[d] = wire[d]
      /\ DOMAIN wire = 1 .. Len(wire)
  <2>1. wire' = [wire EXCEPT ![c] = end]
    BY <1>3
  <2>2. c \in 1 .. Len(wire) /\ DOMAIN wire = 1 .. Len(wire)
    BY <1>1
  <2> QED BY <1>1, <2>1, <2>2, ExceptSeq
<1>5. \A k \in OpenSockets : Connected(sockets[k]) => sockets[k].conn \in DOMAIN wire
  BY <1>4 DEF SocketsInv, SocketsRight, SocketRight
<1>6. \A k \in OpenSockets : sockets[k].ep = "datagram" =>
         wire'[sockets[k].conn].eof = wire[sockets[k].conn].eof
  BY <1>3, <1>4, <1>5 DEF Connected
<1>7. \A p \in promised' : Connected(sockets[p[1]]) /\ p[2] = "read" =>
         (HasNews(wire, sockets[p[1]].conn) => HasNews(wire', sockets[p[1]].conn))
  <2>1. \A p \in promised' : p[1] \in OpenSockets
    BY <1>1 DEF SocketsInv, PromisesRight
  <2> QED BY <1>3, <1>4, <1>5, <2>1 DEF HasNews
<1> QED BY <1>1, <1>4, <1>6, <1>7, WiresKeep

\* A poll may move a connection of each socket it asks, and promises what it saw.
LEMMA SelectKeeps ==
  ASSUME SocketsInv, NEW asked \in SUBSET OpenSockets, NEW want \in SUBSET {"accept", "read"},
         afd_select(asked, want)
  PROVE  SocketsInv'
<1>1. /\ sockets' = [h \in OpenSockets |-> IF h \in asked THEN Probed(sockets[h]) ELSE sockets[h]]
      /\ UNCHANGED <<opened, wire>>
      /\ promised' = promised \cup {p \in asked \X want : p[2] \in afd_readiness(sockets[p[1]])}
  BY DEF afd_select
<1>2. /\ OpenSockets' = OpenSockets /\ sockets' = [h \in OpenSockets' |-> sockets'[h]]
      /\ \A h \in OpenSockets : sockets'[h] = Probed(sockets[h]) \/ sockets'[h] = sockets[h]
  BY <1>1 DEF OpenSockets
<1>3. ASSUME NEW h \in OpenSockets
      PROVE  /\ sockets[h] \in SocketRecords /\ sockets'[h] \in SocketRecords
             /\ Line(sockets'[h]) = Line(sockets[h])
             /\ sockets'[h].taken = sockets[h].taken /\ sockets'[h].ep = sockets[h].ep
             /\ sockets'[h].conn = sockets[h].conn
             /\ sockets'[h].rd_shutdown = sockets[h].rd_shutdown
  <2>1. sockets[h] \in SocketRecords
    BY DEF SocketsInv, SocketsRight, SocketRight
  <2> QED BY <1>2, <2>1, ProbedLine
<1>4. ASSUME NEW h \in OpenSockets
      PROVE  SocketRight(sockets'[h], Len(wire')) /\ Holds(sockets'[h]) = Holds(sockets[h])
  <2>1. SocketRight(sockets[h], Len(wire))
    BY DEF SocketsInv, SocketsRight
  <2> QED BY <1>1, <1>3, <2>1 DEF SocketRight, Holds, InLine, Connected
<1>5. SocketsRight'
  <2>1. (\A h \in OpenSockets : SocketRight(sockets[h], Len(wire)))'
    BY <1>2, <1>4
  <2>2. (\A h, k \in OpenSockets : h # k => Holds(sockets[h]) \cap Holds(sockets[k]) = {})'
    BY <1>2, <1>4 DEF SocketsInv, SocketsRight
  <2>3. opened' \in Nat /\ OpenSockets' \subseteq 1 .. opened' /\ wire' \in Seq(Ends)
    BY <1>1, <1>2 DEF SocketsInv, SocketsRight
  <2> QED BY <1>2, <2>1, <2>2, <2>3 DEF SocketsRight
<1>6. DatagramsOpen'
  BY <1>1, <1>2, <1>3 DEF SocketsInv, DatagramsOpen
<1>7. ASSUME NEW p \in promised'
      PROVE  p \in OpenSockets \X {"accept", "read"} /\ Kept(p)
  <2>1. CASE p \in promised
    BY <2>1 DEF SocketsInv, PromisesRight
  <2>2. CASE p \in asked \X want /\ p[2] \in afd_readiness(sockets[p[1]])
    <3> DEFINE s == sockets[p[1]]
    <3>1. p \in OpenSockets \X {"accept", "read"} /\ p[1] \in OpenSockets
      BY <2>2
    <3>2. s \in SocketRecords /\ SocketRight(s, Len(wire)) /\ wire \in Seq(Ends)
      BY <3>1 DEF SocketsInv, SocketsRight, SocketRight
    <3>3. p[2] = "accept" => Line(s) # <<>>
      BY <2>2 DEF afd_readiness
    <3>4. p[2] = "accept" => ~AcceptBlocks(s)
      BY <3>2, <3>3, BlocksIs
    <3>5. ASSUME p[2] = "read"  PROVE ~RecvBlocks(s)
      <4>1. \/ s.ep = "listener"
            \/ wire[s.conn].bytes > 0 \/ wire[s.conn].eof
        BY <2>2, <3>5 DEF afd_readiness
      <4> QED BY <4>1 DEF RecvBlocks
    <3> QED BY <3>1, <3>4, <3>5 DEF Kept
  <2> QED BY <1>1, <2>1, <2>2
<1>8. PromisesRight'
  <2>1. ASSUME NEW p \in promised'
        PROVE  p \in OpenSockets' \X {"accept", "read"} /\ Kept(p)'
    <3>1. p \in OpenSockets \X {"accept", "read"} /\ Kept(p) /\ p[1] \in OpenSockets /\ p[1] \in OpenSockets'
      BY <1>2, <1>7
    <3>2. NoWorse(p)
      BY <1>1, <1>3, <3>1 DEF NoWorse, HasNews
    <3>3. Kept(p)'
      BY <1>5, <3>1, <3>2, StaysKept DEF SocketsInv
    <3> QED BY <1>2, <3>1, <3>3
  <2> QED BY <2>1 DEF PromisesRight
<1> QED BY <1>5, <1>6, <1>8 DEF SocketsInv

LEMMA SocketsStart == SktInit => SocketsInv
<1> SUFFICES ASSUME SktInit  PROVE SocketsInv
  OBVIOUS
<1>1. sockets = [h \in {} |-> NewSocket] /\ opened = 0 /\ wire = <<>> /\ promised = {}
  BY DEF SktInit
<1>2. OpenSockets = {} /\ wire \in Seq(Ends)
  BY <1>1 DEF OpenSockets
<1> QED BY <1>1, <1>2 DEF SocketsInv, SocketsRight, DatagramsOpen, PromisesRight

LEMMA SocketsStep == SocketsInv /\ [SktNext]_sktvars => SocketsInv'
<1> SUFFICES ASSUME SocketsInv, [SktNext]_sktvars  PROVE SocketsInv'
  OBVIOUS
<1>1. CASE UNCHANGED sktvars
  BY <1>1 DEF sktvars, SocketsInv, SocketsRight, DatagramsOpen, PromisesRight, Kept, OpenSockets,
              AcceptBlocks, RecvBlocks
<1>2. ASSUME NEW asked \in SUBSET OpenSockets,
             NEW want \in {{"accept"}, {"read"}, {"accept", "read"}}, afd_select(asked, want)
      PROVE  SocketsInv'
  <2>1. want \in SUBSET {"accept", "read"}
    OBVIOUS
  <2> QED BY <1>2, <2>1, SelectKeeps
<1> QED BY <1>1, <1>2, OpenKeeps, CloseKeeps, CreateKeeps, FlagKeeps, BindKeeps, ConnectKeeps,
           PeerConnectsKeeps, AcceptKeeps, RecvKeeps, PeerKeeps DEF SktNext

\* Whatever several threads poll, bind and accept, the connections of a socket
\* are accepted in the order they arrived, and none twice: a connection that a
\* poll took from the host is parked before those that wait there
\* (afd_readiness, afd_accept, afd_bind).
THEOREM ArrivalsInOrder == SktSpec => []AcceptedInOrder
<1>1. SocketsInv => AcceptedInOrder
  BY DEF SocketsInv, SocketsRight, SocketRight, InOrder, AcceptedInOrder
<1> QED BY <1>1, SocketsStart, SocketsStep, PTL DEF SktSpec

\* What select told the guest holds until a call uses it, whatever other
\* sockets and peers do: a connection and what it holds belong to one socket
\* (afd_select, afd_readiness, afd_recv, afd_accept).
THEOREM ReadinessHolds == SktSpec => []ReadyMeansNow
<1>1. SocketsInv => ReadyMeansNow
  BY DEF SocketsInv, PromisesRight, Kept, ReadyMeansNow
<1> QED BY <1>1, SocketsStart, SocketsStep, PTL DEF SktSpec

-----------------------------------------------------------------------------
(* Child processes.  The handles of different children differ, and one     *)
(* that a record still has is not closed.                                  *)

Codes_ == ExitCodes \cup {STATUS_UNSUCCESSFUL, STILL_ACTIVE}
Objects == {"live", "exited", "closed"}
ChildRecords == [process_handle : Nat, thread_handle : Nat, state : {"NotStarted", "Exited"},
                 exit_code : Codes_, suspend_count : Nat, request : BOOLEAN]
ChildMaps == UNION {[D -> ChildRecords] : D \in SUBSET Nat}
OsRecords == [children : ChildMaps,
              kobjects : Seq(Objects), depth : Nat, running : Nat]

HandlesRight(c, i, kobjects) ==
    /\ i >= 1 /\ i + 1 <= Len(kobjects)
    /\ c.process_handle \in {0, i} /\ c.thread_handle \in {0, i + 1}
    /\ \A h \in {c.process_handle, c.thread_handle} \ {0} : kobjects[h] # "closed"
ChildRight(os, i) == HandlesRight(os.children[i], i, os.kobjects) /\ Told(os, i)
OsRight(os) ==
    /\ os \in OsRecords
    /\ \A i \in DOMAIN os.children : ChildRight(os, i)
    /\ \A i, j \in DOMAIN os.children : j # i + 1
    /\ os.running # 0 => /\ os.running \in DOMAIN os.children
                         /\ os.children[os.running].state = "NotStarted"

ProcInv ==
    /\ procs \in Seq(OsRecords) /\ procs # <<>>
    /\ \A d \in DOMAIN procs : OsRight(procs[d]) /\ (procs[d].running # 0 <=> d < Len(procs))

LEMMA OsShape ==
  ASSUME NEW os \in OsRecords
  PROVE  /\ DOMAIN os.children \subseteq Nat
         /\ os.children = [i \in DOMAIN os.children |-> os.children[i]]
         /\ \A i \in DOMAIN os.children : os.children[i] \in ChildRecords
         /\ os.kobjects \in Seq(Objects) /\ Len(os.kobjects) \in Nat
         /\ os.depth \in Nat /\ os.running \in Nat
<1>1. PICK D \in SUBSET Nat : os.children \in [D -> ChildRecords]
  BY DEF OsRecords, ChildMaps
<1>2. os.kobjects \in Seq(Objects) /\ os.depth \in Nat /\ os.running \in Nat
  BY DEF OsRecords
<1> QED BY <1>1, <1>2

LEMMA ChildrenMade ==
  ASSUME NEW D \in SUBSET Nat, NEW children \in [D -> ChildRecords]
  PROVE  children \in ChildMaps
  BY DEF ChildMaps

LEMMA ChildrenOf ==
  ASSUME NEW os, OsRight(os), NEW i \in DOMAIN os.children
  PROVE  /\ os \in OsRecords /\ os.children[i] \in ChildRecords /\ i \in Nat
         /\ HandlesRight(os.children[i], i, os.kobjects) /\ Told(os, i)
         /\ \A j \in DOMAIN os.children : j # i + 1 /\ j \in Nat
  BY OsShape DEF OsRight, ChildRight

LEMMA CreatedRight ==
  ASSUME NEW os, OsRight(os)
  PROVE  /\ OsRight(create_child_process(os)) /\ create_child_process(os).running = os.running
         /\ NewChild(os) \in DOMAIN create_child_process(os).children
         /\ create_child_process(os).depth = os.depth
<1> DEFINE n == NewChild(os)
           D == DOMAIN os.children
           children == [i \in D \cup {n} |-> IF i = n THEN Child(i) ELSE os.children[i]]
           kobjects == os.kobjects \o <<"live", "live">>
           new == create_child_process(os)
<1>1. os \in OsRecords
  BY DEF OsRight
<1>2. /\ n = Len(os.kobjects) + 1 /\ Len(os.kobjects) \in Nat /\ n \in Nat /\ D \subseteq Nat
      /\ os.kobjects \in Seq(Objects) /\ os.running \in Nat
  <2>1. os.kobjects \in Seq(Objects) /\ Len(os.kobjects) \in Nat /\ os.running \in Nat
    BY <1>1, OsShape
  <2>2. D \subseteq Nat
    BY <1>1, OsShape
  <2>3. n = Len(os.kobjects) + 1
    BY DEF NewChild
  <2> QED BY <2>1, <2>2, <2>3
<1>3. /\ kobjects \in Seq(Objects) /\ Len(kobjects) = Len(os.kobjects) + 2
      /\ \A h \in 1 .. Len(os.kobjects) : kobjects[h] = os.kobjects[h]
      /\ kobjects[n] = "live" /\ kobjects[n + 1] = "live"
  <2> DEFINE k == os.kobjects
             two == <<"live", "live">>
  <2>1. /\ two \in Seq(Objects) /\ Len(two) = 2 /\ two[1] = "live" /\ two[2] = "live"
    BY DEF Objects
  <2>2. k \in Seq(Objects) /\ n = Len(k) + 1 /\ Len(k) \in Nat
    BY <1>2
  <2> HIDE DEF two, k, n
  <2>3. /\ k \o two \in Seq(Objects) /\ Len(k \o two) = Len(k) + 2
        /\ \A h \in 1 .. Len(k) + 2 : (k \o two)[h] = IF h <= Len(k) THEN k[h] ELSE two[h - Len(k)]
    <3>1. /\ k \o two \in Seq(Objects) /\ Len(k \o two) = Len(k) + Len(two)
          /\ \A h \in 1 .. Len(k) + Len(two) : (k \o two)[h] = IF h <= Len(k) THEN k[h] ELSE two[h - Len(k)]
      BY <2>1, <2>2, ConcatProperties
    <3> QED BY <2>1, <3>1
  <2>4. (k \o two)[n] = two[1] /\ (k \o two)[n + 1] = two[2]
    <3>1. n \in 1 .. Len(k) + 2 /\ n + 1 \in 1 .. Len(k) + 2 /\ n - Len(k) = 1 /\ n + 1 - Len(k) = 2
          /\ ~(n <= Len(k)) /\ ~(n + 1 <= Len(k))
      BY <2>2
    <3> QED BY <2>3, <3>1
  <2>5. \A h \in 1 .. Len(k) : (k \o two)[h] = k[h]
    BY <2>2, <2>3
  <2> QED BY <2>1, <2>3, <2>4, <2>5 DEF k, two
<1>4. \A i \in D : i + 1 <= Len(os.kobjects) /\ i # n /\ i + 1 # n /\ i # n + 1
  BY <1>2, ChildrenOf DEF HandlesRight
<1>5. Child(n) \in ChildRecords
  BY <1>2 DEF Child, ChildRecords, Codes_
<1>6. /\ DOMAIN children = D \cup {n} /\ children = [i \in DOMAIN children |-> children[i]]
      /\ children[n] = Child(n) /\ \A i \in D : children[i] = os.children[i]
  BY <1>4
<1>7. new = [os EXCEPT !.children = children, !.kobjects = kobjects, !.running = os.running]
  BY <1>1 DEF create_child_process, OsRecords
<1> HIDE DEF children, kobjects, new, n
<1>8. \A i \in DOMAIN children : children[i] \in ChildRecords
  BY <1>1, <1>5, <1>6, OsShape
<1>9. /\ new \in OsRecords /\ new.children = children /\ new.kobjects = kobjects
      /\ new.running = os.running /\ new.depth = os.depth
  <2>1. DOMAIN children \in SUBSET Nat
    BY <1>2, <1>6
  <2>2. children \in [DOMAIN children -> ChildRecords]
    BY <1>6, <1>8
  <2>3. kobjects \in Seq(Objects) /\ os.running \in Nat
    BY <1>2, <1>3
  <2>4. children \in ChildMaps
    BY <2>1, <2>2, ChildrenMade
  <2> HIDE DEF D
  <2> QED BY <1>1, <1>7, <2>3, <2>4 DEF OsRecords
<1>10. os.running # n
  BY <1>2, <1>4 DEF OsRight
<1>11. ASSUME NEW i \in D
       PROVE  ChildRight(new, i)
  <2>1. HandlesRight(os.children[i], i, os.kobjects) /\ Told(os, i) /\ i \in Nat
    BY ChildrenOf
  <2>2. \A h \in {os.children[i].process_handle, os.children[i].thread_handle} \ {0} :
            h \in 1 .. Len(os.kobjects)
    BY <1>2, <2>1 DEF HandlesRight
  <2>3. \A h \in {os.children[i].process_handle, os.children[i].thread_handle} \ {0} :
            kobjects[h] = os.kobjects[h]
    BY <1>3, <2>2
  <2>4. HandlesRight(new.children[i], i, new.kobjects)
    <3>1. new.children[i] = os.children[i] /\ new.kobjects = kobjects /\ i + 1 <= Len(kobjects)
      BY <1>2, <1>3, <1>6, <1>9, <2>1 DEF HandlesRight
    <3> QED BY <2>1, <2>3, <3>1 DEF HandlesRight
  <2>5. Told(new, i)
    BY <1>6, <1>9, <2>1, <2>3 DEF Told
  <2> QED BY <2>4, <2>5 DEF ChildRight
<1>12. ChildRight(new, n)
  <2>1. /\ Child(n).process_handle = n /\ Child(n).thread_handle = n + 1 /\ Child(n).state = "NotStarted"
        /\ Child(n).exit_code = STILL_ACTIVE /\ Child(n).request = TRUE
    BY DEF Child
  <2>2. HandlesRight(new.children[n], n, new.kobjects)
    BY <1>2, <1>3, <1>6, <1>9, <2>1 DEF HandlesRight
  <2>3. Told(new, n)
    BY <1>3, <1>6, <1>9, <1>10, <2>1 DEF Told
  <2> QED BY <2>2, <2>3 DEF ChildRight
<1>13. \A i, j \in DOMAIN children : j # i + 1
  BY <1>2, <1>4, <1>6, ChildrenOf
<1>14. new.running # 0 => /\ new.running \in DOMAIN new.children
                          /\ new.children[new.running].state = "NotStarted"
  BY <1>6, <1>9 DEF OsRight
<1>15. OsRight(new)
  BY <1>6, <1>9, <1>11, <1>12, <1>13, <1>14 DEF OsRight
<1> QED BY <1>6, <1>9, <1>15 DEF new, n

\* A child comes to its end: both its objects are signalled, nobody else's.
LEMMA EndedRight ==
  ASSUME NEW os, OsRight(os), NEW i \in DOMAIN os.children, os.children[i].state = "NotStarted",
         os.running \in {0, i}, NEW code \in ExitCodes \cup {STATUS_UNSUCCESSFUL}
  PROVE  OsRight(Ended(os, i, code)) /\ Ended(os, i, code).running = 0
         /\ Ended(os, i, code).depth = os.depth
<1> DEFINE D == DOMAIN os.children
           c == os.children[i]
           e == [c EXCEPT !.state = "Exited", !.exit_code = code, !.request = FALSE]
           children == [os.children EXCEPT ![i] = e]
           kobjects == [h \in DOMAIN os.kobjects |->
                           IF h \in {c.process_handle, c.thread_handle} /\ os.kobjects[h] = "live"
                           THEN "exited" ELSE os.kobjects[h]]
           new == Ended(os, i, code)
<1>1. /\ os \in OsRecords /\ c \in ChildRecords /\ os.kobjects \in Seq(Objects) /\ Len(os.kobjects) \in Nat
      /\ DOMAIN os.kobjects = 1 .. Len(os.kobjects)
  <2>1. os \in OsRecords /\ c \in ChildRecords
    BY ChildrenOf
  <2>2. os.kobjects \in Seq(Objects)
    BY <2>1, OsShape
  <2> QED BY <2>1, <2>2
<1>2. code \in Codes_ /\ code # STILL_ACTIVE
  BY ChildProcessesAssumption DEF Codes_, STATUS_UNSUCCESSFUL, STILL_ACTIVE
<1>3. /\ e \in ChildRecords /\ e.state = "Exited" /\ e.exit_code = code /\ e.request = FALSE
      /\ e.process_handle = c.process_handle /\ e.thread_handle = c.thread_handle
  BY <1>1, <1>2 DEF ChildRecords
<1> HIDE DEF e
<1>4. /\ DOMAIN children = D /\ children[i] = e /\ children = [k \in DOMAIN children |-> children[k]]
      /\ \A j \in D : j # i => children[j] = os.children[j]
  BY <1>1, OsShape
<1>5. kobjects \in Seq(Objects) /\ Len(kobjects) = Len(os.kobjects)
  <2>1. \A h \in 1 .. Len(os.kobjects) : kobjects[h] \in Objects
    BY <1>1 DEF Objects
  <2>2. kobjects \in [1 .. Len(os.kobjects) -> Objects]
    BY <1>1, <2>1
  <2> HIDE DEF kobjects
  <2> QED BY <1>1, <2>2
<1>6. new = [os EXCEPT !.children = children, !.kobjects = kobjects, !.running = 0]
  <2> DEFINE mid == [os EXCEPT !.children[i].state = "Exited", !.children[i].exit_code = code,
                               !.children[i].request = FALSE, !.running = 0]
  <2>1. mid = [os EXCEPT !.children = children, !.running = 0]
    BY <1>1, ZenonT(20) DEF OsRecords, ChildRecords, e
  <2>2. mid.kobjects = os.kobjects
    BY <1>1, <2>1 DEF OsRecords
  <2>3. new = [mid EXCEPT !.kobjects = kobjects]
    BY <2>2 DEF Ended, Signal
  <2> HIDE DEF mid, kobjects, children
  <2> QED BY <1>1, <2>1, <2>3 DEF OsRecords
<1> HIDE DEF new, children
<1>7. /\ new \in OsRecords /\ new.children = children /\ new.kobjects = kobjects
      /\ new.running = 0 /\ new.depth = os.depth
  <2>1. \A j \in DOMAIN children : children[j] \in ChildRecords
    BY <1>1, <1>3, <1>4, OsShape, ZenonT(20)
  <2>2. DOMAIN children \in SUBSET Nat
    BY <1>1, <1>4, OsShape
  <2> HIDE DEF kobjects
  <2>3. children \in [DOMAIN children -> ChildRecords] /\ kobjects \in Seq(Objects) /\ 0 \in Nat
    BY <1>4, <1>5, <2>1
  <2>4. children \in ChildMaps
    BY <2>2, <2>3, ChildrenMade
  <2> HIDE DEF D
  <2> QED BY <1>1, <1>6, <2>3, <2>4 DEF OsRecords
<1>8. HandlesRight(c, i, os.kobjects) /\ Told(os, i) /\ i \in Nat
  BY ChildrenOf
<1>9. \A h \in {c.process_handle, c.thread_handle} \ {0} : h \in 1 .. Len(os.kobjects) /\ os.kobjects[h] = "live"
  <2>1. c.state # "Exited"
    OBVIOUS
  <2>2. \A h \in {c.process_handle, c.thread_handle} \ {0} : os.kobjects[h] # "exited"
    BY <1>8, <2>1 DEF Told
  <2>3. \A h \in {c.process_handle, c.thread_handle} \ {0} :
            h \in 1 .. Len(os.kobjects) /\ os.kobjects[h] # "closed"
    BY <1>1, <1>8 DEF HandlesRight
  <2>4. \A h \in 1 .. Len(os.kobjects) : os.kobjects[h] \in Objects
    BY <1>1
  <2> QED BY <2>2, <2>3, <2>4 DEF Objects
<1>10. ChildRight(new, i)
  <2>1. \A h \in {c.process_handle, c.thread_handle} \ {0} : kobjects[h] = "exited"
    BY <1>1, <1>9
  <2> HIDE DEF kobjects
  <2>2. HandlesRight(new.children[i], i, new.kobjects)
    BY <1>3, <1>4, <1>5, <1>7, <1>8, <2>1 DEF HandlesRight
  <2>3. Told(new, i)
    BY <1>2, <1>3, <1>4, <1>7, <2>1 DEF Told
  <2> QED BY <2>2, <2>3 DEF ChildRight
<1>11. ASSUME NEW j \in D, j # i
       PROVE  ChildRight(new, j)
  <2> DEFINE b == os.children[j]
  <2>1. HandlesRight(b, j, os.kobjects) /\ Told(os, j) /\ j \in Nat /\ j # i + 1 /\ i # j + 1
    BY ChildrenOf
  <2>2. \A h \in {b.process_handle, b.thread_handle} \ {0} :
            h \in 1 .. Len(os.kobjects) /\ h \notin {c.process_handle, c.thread_handle}
    BY <1>1, <1>8, <1>11, <2>1 DEF HandlesRight
  <2>3. \A h \in {b.process_handle, b.thread_handle} \ {0} : kobjects[h] = os.kobjects[h]
    BY <1>1, <2>2
  <2> HIDE DEF kobjects
  <2>4. HandlesRight(new.children[j], j, new.kobjects)
    BY <1>4, <1>5, <1>7, <1>11, <2>1, <2>3 DEF HandlesRight
  <2>5. j # 0 /\ os.running # j
    BY <1>8, <1>11, <2>1 DEF HandlesRight
  <2>6. Told(new, j)
    BY <1>4, <1>7, <1>11, <2>1, <2>3, <2>5 DEF Told
  <2> QED BY <2>4, <2>6 DEF ChildRight
<1> QED BY <1>4, <1>7, <1>10, <1>11 DEF OsRight, new

Changed(os, i, e, running) ==
    [os EXCEPT !.children = [os.children EXCEPT ![i] = e], !.running = running]
\* A child's record changes, but for its handles and its end.
LEMMA ChildChanges ==
  ASSUME NEW os, OsRight(os), NEW i \in DOMAIN os.children, os.running \in {0, i},
         NEW e \in ChildRecords, NEW running \in {0, i},
         e.process_handle = os.children[i].process_handle, e.thread_handle = os.children[i].thread_handle,
         e.state = os.children[i].state, e.exit_code = os.children[i].exit_code,
         (e.state = "Exited" \/ running = i) <=> ~e.request,
         running = i => e.state = "NotStarted"
  PROVE  /\ OsRight(Changed(os, i, e, running)) /\ Changed(os, i, e, running).running = running
         /\ Changed(os, i, e, running).children[i] = e
         /\ DOMAIN Changed(os, i, e, running).children = DOMAIN os.children
<1> DEFINE D == DOMAIN os.children
           children == [os.children EXCEPT ![i] = e]
           new == Changed(os, i, e, running)
<1>1. os \in OsRecords /\ i \in Nat /\ D \in SUBSET Nat
  BY ChildrenOf, OsShape
<1>2. /\ DOMAIN children = D /\ children[i] = e /\ children \in [D -> ChildRecords]
      /\ \A j \in D : j # i => children[j] = os.children[j]
  BY <1>1, OsShape
<1> HIDE DEF D
<1>3. children \in ChildMaps
  BY <1>1, <1>2, ChildrenMade
<1>4. new = [os EXCEPT !.children = children, !.running = running]
  BY DEF Changed
<1> HIDE DEF children, new
<1>5. /\ new \in OsRecords /\ new.children = children /\ new.kobjects = os.kobjects
      /\ new.running = running /\ new.depth = os.depth
  <2>1. running \in Nat
    BY <1>1
  <2> QED BY <1>1, <1>3, <1>4, <2>1 DEF OsRecords
<1>6. ChildRight(new, i)
  <2>1. HandlesRight(os.children[i], i, os.kobjects) /\ Told(os, i)
    BY ChildrenOf
  <2>2. HandlesRight(new.children[i], i, new.kobjects)
    BY <1>2, <1>5, <2>1 DEF HandlesRight
  <2>3. Told(new, i)
    BY <1>2, <1>5, <2>1 DEF Told
  <2> QED BY <2>2, <2>3 DEF ChildRight
<1>7. ASSUME NEW j \in D, j # i
      PROVE  ChildRight(new, j)
  <2>1. HandlesRight(os.children[j], j, os.kobjects) /\ Told(os, j)
    BY ChildrenOf DEF D
  <2>2. HandlesRight(new.children[j], j, new.kobjects)
    BY <1>2, <1>5, <1>7, <2>1
  <2>3. os.running # j /\ running # j
    BY <2>1, <1>7 DEF HandlesRight
  <2>4. Told(new, j)
    BY <1>2, <1>5, <1>7, <2>1, <2>3 DEF Told
  <2> QED BY <2>2, <2>4 DEF ChildRight
<1>8. \A j, k \in D : k # j + 1
  BY DEF OsRight, D
<1>9. new.running # 0 => new.running \in D /\ new.children[new.running].state = "NotStarted"
  BY <1>2, <1>5 DEF D
<1> QED BY <1>2, <1>5, <1>6, <1>7, <1>8, <1>9 DEF OsRight, D, new

\* Handles may be closed, and the record of a child without handles goes.
LEMMA ClosedRight ==
  ASSUME NEW os, OsRight(os), os.running = 0, NEW h \in Handles_(os), NEW new,
         new = [os EXCEPT !.kobjects[h] = "closed", !.children = forget_child_handle(@, h)]
  PROVE  OsRight(new) /\ new.running = 0
<1> DEFINE D == {j \in DOMAIN os.children : Held(Forgotten(os.children[j], h))}
           children == forget_child_handle(os.children, h)
           kobjects == [os.kobjects EXCEPT ![h] = "closed"]
<1>1. /\ os \in OsRecords /\ DOMAIN os.children \subseteq Nat /\ os.kobjects \in Seq(Objects)
      /\ h \in 1 .. Len(os.kobjects) /\ Len(os.kobjects) \in Nat /\ h # 0
  <2>1. os \in OsRecords
    BY DEF OsRight
  <2>2. DOMAIN os.children \subseteq Nat /\ os.kobjects \in Seq(Objects) /\ Len(os.kobjects) \in Nat
    BY <2>1, OsShape
  <2> QED BY <2>1, <2>2 DEF Handles_
<1>2. ASSUME NEW i \in DOMAIN os.children
      PROVE  /\ Forgotten(os.children[i], h) \in ChildRecords
             /\ Forgotten(os.children[i], h).process_handle \in {0, os.children[i].process_handle} \ {h}
             /\ Forgotten(os.children[i], h).thread_handle \in {0, os.children[i].thread_handle} \ {h}
             /\ Forgotten(os.children[i], h).state = os.children[i].state
             /\ Forgotten(os.children[i], h).exit_code = os.children[i].exit_code
             /\ Forgotten(os.children[i], h).request = os.children[i].request
  <2>1. os.children[i] \in ChildRecords
    BY ChildrenOf
  <2> QED BY <1>1, <2>1 DEF Forgotten, ChildRecords
<1>3. /\ DOMAIN children = D /\ D \in SUBSET Nat /\ children \in [D -> ChildRecords]
      /\ \A i \in D : children[i] = Forgotten(os.children[i], h)
  BY <1>1, <1>2 DEF forget_child_handle
<1>4. /\ kobjects \in Seq(Objects) /\ Len(kobjects) = Len(os.kobjects)
      /\ \A k \in 1 .. Len(os.kobjects) : k # h => kobjects[k] = os.kobjects[k]
  BY <1>1 DEF Objects
<1>5. new = [os EXCEPT !.children = children, !.kobjects = kobjects]
  BY <1>1 DEF OsRecords
<1>6. D \subseteq DOMAIN os.children
  OBVIOUS
<1> HIDE DEF D, children, kobjects
<1>7. /\ new \in OsRecords /\ new.children = children /\ new.kobjects = kobjects
      /\ new.running = 0
  <2>1. children \in ChildMaps
    BY <1>3, ChildrenMade
  <2> QED BY <1>1, <1>4, <1>5, <2>1 DEF OsRecords
<1>8. ASSUME NEW i \in D
      PROVE  ChildRight(new, i)
  <2> DEFINE c == os.children[i]
             f == Forgotten(os.children[i], h)
  <2>1. HandlesRight(c, i, os.kobjects) /\ Told(os, i) /\ i \in Nat
    BY <1>6, ChildrenOf
  <2>2. /\ f.process_handle \in {0, c.process_handle} \ {h} /\ f.thread_handle \in {0, c.thread_handle} \ {h}
        /\ f.state = c.state /\ f.exit_code = c.exit_code /\ f.request = c.request
    BY <1>2, <1>6
  <2>3. new.children[i] = f
    BY <1>3, <1>7
  <2>4. \A k \in {f.process_handle, f.thread_handle} \ {0} :
            /\ k \in {c.process_handle, c.thread_handle} \ {0} /\ k \in 1 .. Len(os.kobjects) /\ k # h
    <3>1. /\ c.process_handle \in {0, i} /\ c.thread_handle \in {0, i + 1}
          /\ i >= 1 /\ i + 1 <= Len(os.kobjects)
      BY <2>1 DEF HandlesRight
    <3> HIDE DEF f, c
    <3> QED BY <1>1, <2>1, <2>2, <3>1
  <2>5. \A k \in {f.process_handle, f.thread_handle} \ {0} :
            new.kobjects[k] = os.kobjects[k] /\ k \in {c.process_handle, c.thread_handle} \ {0}
    BY <1>4, <1>7, <2>4
  <2>6. HandlesRight(f, i, new.kobjects)
    <3>1. /\ c.process_handle \in {0, i} /\ c.thread_handle \in {0, i + 1} /\ i >= 1
          /\ i + 1 <= Len(os.kobjects)
          /\ \A k \in {c.process_handle, c.thread_handle} \ {0} : os.kobjects[k] # "closed"
      BY <2>1 DEF HandlesRight
    <3>2. i + 1 <= Len(new.kobjects)
      BY <1>4, <1>7, <3>1
    <3> HIDE DEF f, c
    <3> QED BY <2>2, <2>5, <3>1, <3>2 DEF HandlesRight
  <2>7. Told(new, i)
    BY <1>7, <2>1, <2>2, <2>3, <2>5 DEF Told
  <2> QED BY <2>3, <2>6, <2>7 DEF ChildRight
<1>9. \A i, j \in D : j # i + 1
  BY <1>6 DEF OsRight
<1> QED BY <1>3, <1>7, <1>8, <1>9 DEF OsRight

\* A duplicate is one more object.
LEMMA DuplicateRight ==
  ASSUME NEW os, OsRight(os), os.running = 0, NEW h \in Handles_(os), NEW new,
         new = [os EXCEPT !.kobjects = Append(@, @[h])]
  PROVE  OsRight(new) /\ new.running = 0
<1> DEFINE k == os.kobjects
           kobjects == Append(k, k[h])
<1>1. /\ os \in OsRecords /\ k \in Seq(Objects) /\ Len(k) \in Nat /\ h \in 1 .. Len(k)
  <2>1. os \in OsRecords
    BY DEF OsRight
  <2>2. k \in Seq(Objects) /\ Len(k) \in Nat
    BY <2>1, OsShape
  <2> QED BY <2>1, <2>2 DEF Handles_
<1>2. new = [os EXCEPT !.kobjects = kobjects]
  OBVIOUS
<1> HIDE DEF k
<1>3. /\ kobjects \in Seq(Objects) /\ Len(kobjects) = Len(k) + 1
      /\ \A g \in 1 .. Len(k) : kobjects[g] = k[g]
  BY <1>1
<1> HIDE DEF kobjects
<1>4. /\ new \in OsRecords /\ new.children = os.children /\ new.kobjects = kobjects /\ new.running = 0
  BY <1>1, <1>2, <1>3 DEF OsRecords
<1>5. ASSUME NEW i \in DOMAIN os.children
      PROVE  ChildRight(new, i)
  <2> DEFINE c == os.children[i]
  <2>1. HandlesRight(c, i, k) /\ Told(os, i) /\ i \in Nat
    BY ChildrenOf DEF k
  <2> HIDE DEF c
  <2>2. \A g \in {c.process_handle, c.thread_handle} \ {0} : kobjects[g] = k[g]
    BY <1>1, <1>3, <2>1 DEF HandlesRight
  <2>3. HandlesRight(c, i, kobjects)
    BY <1>1, <1>3, <2>1, <2>2 DEF HandlesRight
  <2>4. Told(new, i)
    BY <1>4, <2>1, <2>2 DEF Told, c, k
  <2> QED BY <1>4, <2>3, <2>4 DEF ChildRight, c
<1> QED BY <1>4, <1>5 DEF OsRight

LEMMA NewOsRight ==
  ASSUME NEW depth \in Nat
  PROVE  OsRight(NewOs(depth)) /\ NewOs(depth).running = 0
<1> DEFINE none == [i \in {} |-> {}]
<1>1. none \in [{} -> ChildRecords] /\ {} \in SUBSET Nat /\ DOMAIN none = {}
  OBVIOUS
<1>2. none \in ChildMaps
  BY <1>1, ChildrenMade
<1> HIDE DEF none
<1>3. NewOs(depth) = [children |-> none, kobjects |-> <<>>, depth |-> depth, running |-> 0]
  BY DEF NewOs, none
<1>4. NewOs(depth) \in OsRecords
  BY <1>2, <1>3 DEF OsRecords
<1> QED BY <1>1, <1>3, <1>4 DEF OsRight

-----------------------------------------------------------------------------
\* What an action of the innermost instance leaves behind.
LEMMA InnermostRight ==
  ASSUME ProcInv
  PROVE  /\ OsRight(Os) /\ Os.running = 0 /\ Len(procs) \in Nat /\ Len(procs) >= 1
         /\ DOMAIN procs = 1 .. Len(procs) /\ procs \in Seq(OsRecords)
         /\ Os.children = [i \in DOMAIN Os.children |-> Os.children[i]]
<1>1. /\ procs \in Seq(OsRecords) /\ Len(procs) \in Nat /\ Len(procs) >= 1
      /\ DOMAIN procs = 1 .. Len(procs)
  BY EmptySeq DEF ProcInv
<1>2. OsRight(Os) /\ (Os.running # 0 <=> Len(procs) < Len(procs))
  BY <1>1 DEF ProcInv, Os
<1> QED BY <1>1, <1>2, OsShape DEF OsRight

LEMMA UpdatedRight ==
  ASSUME ProcInv, NEW os, OsRight(os), os.running = 0, procs' = Update_(os)
  PROVE  ProcInv'
<1> DEFINE n == Len(procs)
<1>1. n \in Nat /\ n >= 1 /\ DOMAIN procs = 1 .. n /\ procs \in Seq(OsRecords) /\ os \in OsRecords
  BY InnermostRight DEF OsRight
<1>2. procs' = [procs EXCEPT ![n] = os]
  BY DEF Update_
<1> HIDE DEF n
<1>3. procs' \in Seq(OsRecords) /\ Len(procs') = n /\ DOMAIN procs' = 1 .. n
  <2>1. n \in 1 .. Len(procs) /\ Len(procs) = n
    BY <1>1 DEF n
  <2> QED BY <1>1, <1>2, <2>1, ExceptSeq
<1>4. ASSUME NEW d \in 1 .. n
      PROVE  OsRight(procs'[d]) /\ (procs'[d].running # 0 <=> d < n)
  <2>1. CASE d = n
    BY <1>1, <1>2, <2>1
  <2>2. CASE d # n
    <3>1. procs'[d] = procs[d]
      BY <1>1, <1>2, <2>2
    <3> QED BY <1>1, <3>1 DEF ProcInv, n
  <2> QED BY <2>1, <2>2
<1>5. procs' # <<>>
  BY <1>1, <1>3
<1> QED BY <1>3, <1>4, <1>5 DEF ProcInv

LEMMA StartedRight ==
  ASSUME ProcInv, NEW os, OsRight(os), os.running # 0, NEW depth \in Nat,
         procs' = Append(Update_(os), NewOs(depth))
  PROVE  ProcInv'
<1> DEFINE n == Len(procs)
           begun == Update_(os)
           new == NewOs(depth)
<1>1. n \in Nat /\ n >= 1 /\ DOMAIN procs = 1 .. n /\ procs \in Seq(OsRecords) /\ os \in OsRecords
  BY InnermostRight DEF OsRight
<1>2. begun = [procs EXCEPT ![n] = os]
  BY DEF Update_
<1>3. OsRight(new) /\ new.running = 0 /\ new \in OsRecords
  BY NewOsRight DEF OsRight
<1>4. n = Len(procs)
  OBVIOUS
<1> HIDE DEF n, begun, new
<1>5. begun \in Seq(OsRecords) /\ Len(begun) = n
  BY <1>1, <1>2, <1>4, ExceptSeq
<1>6. procs' = Append(begun, new)
  BY DEF begun, new
<1>7. /\ procs' \in Seq(OsRecords) /\ Len(procs') = n + 1 /\ DOMAIN procs' = 1 .. n + 1
      /\ procs'[n + 1] = new /\ \A d \in 1 .. n : procs'[d] = begun[d]
  BY <1>1, <1>3, <1>5, <1>6, AppendProperties
<1>8. ASSUME NEW d \in 1 .. n + 1
      PROVE  OsRight(procs'[d]) /\ (procs'[d].running # 0 <=> d < n + 1)
  <2>1. CASE d = n + 1
    BY <1>1, <1>3, <1>7, <2>1
  <2>2. CASE d = n
    <3>1. procs'[d] = os
      BY <1>1, <1>2, <1>7, <2>2
    <3> QED BY <1>1, <2>2, <3>1
  <2>3. CASE d \in 1 .. n /\ d # n
    <3>1. procs'[d] = procs[d]
      BY <1>1, <1>2, <1>7, <2>3
    <3>2. d < n /\ d < n + 1
      BY <1>1, <2>3
    <3>3. OsRight(procs[d]) /\ (procs[d].running # 0 <=> d < n)
      BY <1>1, <1>4, <2>3 DEF ProcInv
    <3>4. OsRight(procs'[d])
      BY <3>1, <3>3
    <3>5. procs'[d].running # 0
      BY <3>1, <3>2, <3>3
    <3> QED BY <3>2, <3>4, <3>5
  <2>4. d = n + 1 \/ d = n \/ (d \in 1 .. n /\ d # n)
    BY <1>1
  <2> QED BY <2>1, <2>2, <2>3, <2>4
<1>9. procs' # <<>>
  BY <1>1, <1>7
<1> QED BY <1>7, <1>8, <1>9 DEF ProcInv

LEMMA ResumeRight ==
  ASSUME ProcInv, NEW os, OsRight(os), os.running = 0, NEW i \in DOMAIN os.children, resume_child(os, i)
  PROVE  ProcInv'
<1> DEFINE c == os.children[i]
           resumed == IF c.suspend_count > 0 THEN [os EXCEPT !.children[i].suspend_count = @ - 1] ELSE os
<1>1. os \in OsRecords /\ c \in ChildRecords /\ Told(os, i) /\ i \in Nat /\ i # 0
  BY ChildrenOf DEF HandlesRight
<1>2. /\ OsRight(resumed) /\ resumed.running = 0 /\ DOMAIN resumed.children = DOMAIN os.children
      /\ resumed.children[i].state = c.state
  <2>1. CASE c.suspend_count > 0
    <3> DEFINE e == [c EXCEPT !.suspend_count = @ - 1]
    <3>1. /\ e \in ChildRecords /\ e.process_handle = c.process_handle /\ e.thread_handle = c.thread_handle
          /\ e.state = c.state /\ e.exit_code = c.exit_code /\ e.request = c.request
      BY <1>1, <2>1 DEF ChildRecords
    <3>2. resumed = Changed(os, i, e, 0)
      BY <1>1, <2>1 DEF OsRecords, ChildRecords, Changed
    <3>3. (e.state = "Exited" \/ 0 = i) <=> ~e.request
      BY <1>1, <3>1 DEF Told
    <3> HIDE DEF e, resumed
    <3>4. /\ OsRight(Changed(os, i, e, 0)) /\ Changed(os, i, e, 0).running = 0
          /\ Changed(os, i, e, 0).children[i] = e
          /\ DOMAIN Changed(os, i, e, 0).children = DOMAIN os.children
      BY <1>1, <3>1, <3>3, ChildChanges
    <3> QED BY <3>1, <3>2, <3>4
  <2>2. CASE ~(c.suspend_count > 0)
    BY <2>2
  <2> QED BY <2>1, <2>2
<1>3. CASE ~(resumed.children[i].suspend_count = 0 /\ c.state = "NotStarted")
  <2>1. procs' = Update_(resumed)
    BY <1>3 DEF resume_child
  <2> HIDE DEF resumed
  <2> QED BY <1>2, <2>1, UpdatedRight
<1>4. CASE resumed.children[i].suspend_count = 0 /\ c.state = "NotStarted"
  <2>1. run_child(resumed, i)
    BY <1>4 DEF resume_child
  <2> HIDE DEF resumed
  <2>2. CASE ~resumed.children[i].request
    BY <1>2, <2>1, <2>2, UpdatedRight DEF run_child
  <2>3. CASE resumed.children[i].request /\ procs' = Update_(Ended(resumed, i, STATUS_UNSUCCESSFUL))
    <3>1. OsRight(Ended(resumed, i, STATUS_UNSUCCESSFUL)) /\ Ended(resumed, i, STATUS_UNSUCCESSFUL).running = 0
      BY <1>2, <1>4, EndedRight
    <3> QED BY <2>3, <3>1, UpdatedRight
  <2>4. CASE /\ resumed.children[i].request
             /\ procs' = Append(Update_([resumed EXCEPT !.children[i].request = FALSE, !.running = i]),
                                NewOs(resumed.depth + 1))
    <3> DEFINE e == [resumed.children[i] EXCEPT !.request = FALSE]
               begun == [resumed EXCEPT !.children[i].request = FALSE, !.running = i]
    <3>1. resumed \in OsRecords /\ resumed.children[i] \in ChildRecords /\ resumed.depth + 1 \in Nat
      BY <1>2, ChildrenOf DEF OsRecords
    <3>2. /\ e \in ChildRecords /\ e.process_handle = resumed.children[i].process_handle
          /\ e.thread_handle = resumed.children[i].thread_handle
          /\ e.state = resumed.children[i].state /\ e.exit_code = resumed.children[i].exit_code
          /\ e.request = FALSE
      BY <3>1 DEF ChildRecords
    <3>3. begun = Changed(resumed, i, e, i)
      BY <3>1 DEF OsRecords, ChildRecords, Changed
    <3>4. procs' = Append(Update_(begun), NewOs(resumed.depth + 1))
      BY <2>4
    <3>5. (e.state = "Exited" \/ i = i) <=> ~e.request
      BY <3>2
    <3> HIDE DEF e, begun
    <3>6. OsRight(begun) /\ begun.running = i
      <4>1. OsRight(Changed(resumed, i, e, i)) /\ Changed(resumed, i, e, i).running = i
        BY <1>2, <1>4, <3>2, <3>5, ChildChanges
      <4> QED BY <3>3, <4>1
    <3> QED BY <1>1, <3>1, <3>4, <3>6, StartedRight
  <2> QED BY <2>1, <2>2, <2>3, <2>4 DEF run_child
<1> QED BY <1>3, <1>4

\* The child that was awaited has come to its end, and its parent goes on.
LEMMA EndRight ==
  ASSUME ProcInv, NEW code \in ExitCodes \cup {STATUS_UNSUCCESSFUL}, EndsWith(code)
  PROVE  ProcInv'
<1> DEFINE n == Len(procs)
           parent == procs[n - 1]
           os == Finished(parent, code)
           rest == SubSeq(procs, 1, n - 2)
<1>1. n \in Nat /\ n > 1 /\ DOMAIN procs = 1 .. n /\ procs \in Seq(OsRecords)
      /\ procs' = Append(rest, os)
  BY InnermostRight DEF EndsWith
<1>2. n - 1 \in 1 .. n /\ n - 1 < n /\ n - 2 \in Nat /\ n - 2 <= n
  BY <1>1
<1>3. OsRight(parent) /\ parent.running # 0
  BY <1>1, <1>2 DEF ProcInv
<1>4. parent.running \in DOMAIN parent.children
  BY <1>3 DEF OsRight
<1>5. \A d \in 1 .. n : OsRight(procs[d]) /\ (procs[d].running # 0 <=> d < n)
  BY <1>1 DEF ProcInv
<1> HIDE DEF parent
<1>6. parent.children[parent.running].state = "NotStarted"
  BY <1>3 DEF OsRight
<1>7. OsRight(os) /\ os.running = 0 /\ os \in OsRecords
  BY <1>3, <1>4, <1>6, EndedRight DEF Finished, OsRight
<1>8. /\ rest \in Seq(OsRecords) /\ Len(rest) = n - 2 /\ \A d \in 1 .. n - 2 : rest[d] = procs[d]
  BY <1>1, <1>2
<1> HIDE DEF rest, os, n
<1>9. /\ procs' \in Seq(OsRecords) /\ Len(procs') = n - 1 /\ DOMAIN procs' = 1 .. n - 1
      /\ procs'[n - 1] = os /\ \A d \in 1 .. n - 2 : procs'[d] = rest[d]
  <2>1. /\ procs' \in Seq(OsRecords) /\ Len(procs') = n - 2 + 1 /\ procs'[n - 2 + 1] = os
        /\ \A d \in 1 .. n - 2 : procs'[d] = rest[d]
    BY <1>1, <1>7, <1>8, AppendProperties
  <2>2. n - 2 + 1 = n - 1
    BY <1>1
  <2> QED BY <1>2, <2>1, <2>2
<1>10. ASSUME NEW d \in 1 .. n - 1
       PROVE  OsRight(procs'[d]) /\ (procs'[d].running # 0 <=> d < n - 1)
  <2>1. CASE d = n - 1
    BY <1>1, <1>7, <1>9, <2>1
  <2>2. CASE d # n - 1
    <3>1. d \in 1 .. n - 2 /\ d \in 1 .. n /\ d < n /\ d < n - 1
      BY <1>1, <2>2
    <3>2. procs'[d] = procs[d]
      BY <1>8, <1>9, <3>1
    <3>3. OsRight(procs[d]) /\ procs[d].running # 0
      BY <1>5, <3>1
    <3>4. OsRight(procs'[d])
      BY <3>2, <3>3
    <3> QED BY <3>1, <3>2, <3>3, <3>4
  <2> QED BY <2>1, <2>2
<1>11. procs' # <<>>
  BY <1>1, <1>9
<1> QED BY <1>9, <1>10, <1>11 DEF ProcInv

LEMMA ProcInitRight == ProcInit => ProcInv
<1> SUFFICES ASSUME ProcInit PROVE ProcInv
  OBVIOUS
<1> DEFINE new == NewOs(0)
<1>1. OsRight(new) /\ new.running = 0 /\ new \in OsRecords
  BY NewOsRight DEF OsRight
<1>2. procs = <<new>>
  BY DEF ProcInit
<1> HIDE DEF new
<1> QED BY <1>1, <1>2 DEF ProcInv

LEMMA ProcNextRight == ProcInv /\ [ProcNext]_procVars => ProcInv'
<1> SUFFICES ASSUME ProcInv, [ProcNext]_procVars PROVE ProcInv'
  OBVIOUS
<1>1. OsRight(Os) /\ Os.running = 0
  BY InnermostRight
<1>2. OsRight(create_child_process(Os)) /\ create_child_process(Os).running = 0
      /\ NewChild(Os) \in DOMAIN create_child_process(Os).children
  BY <1>1, CreatedRight
<1>3. CASE nt_create_user_process
  BY <1>2, <1>3, UpdatedRight DEF nt_create_user_process
<1>4. CASE win32_create_process
  BY <1>2, <1>4, ResumeRight DEF win32_create_process
<1>5. CASE \E h \in Handles_(Os) : resume_child_thread(h)
  <2>1. PICK h \in Handles_(Os) : resume_child_thread(h)
    BY <1>5
  <2>2. PICK i \in FirstOf(child_by_thread_handle(Os, h)) : resume_child(Os, i)
    BY <2>1 DEF resume_child_thread
  <2>3. i \in DOMAIN Os.children
    BY <2>2 DEF FirstOf, child_by_thread_handle
  <2> QED BY <1>1, <2>2, <2>3, ResumeRight
<1>6. CASE \E h \in Handles_(Os) : \E code \in ExitCodes : terminate_child(h, code)
  <2>1. PICK h \in Handles_(Os), code \in ExitCodes : terminate_child(h, code)
    BY <1>6
  <2>2. PICK i \in FirstOf(child_by_process_handle(Os, h)) :
            Os.children[i].state = "NotStarted" /\ procs' = Update_(Ended(Os, i, code))
    BY <2>1 DEF terminate_child
  <2>3. i \in DOMAIN Os.children
    BY <2>2 DEF FirstOf, child_by_process_handle
  <2>4. OsRight(Ended(Os, i, code)) /\ Ended(Os, i, code).running = 0
    BY <1>1, <2>2, <2>3, EndedRight
  <2> QED BY <2>2, <2>4, UpdatedRight
<1>7. CASE \E h \in Handles_(Os) : close_child_handle(h)
  <2>1. PICK h \in Handles_(Os) : close_child_handle(h)
    BY <1>7
  <2> DEFINE new == [Os EXCEPT !.kobjects[h] = "closed", !.children = forget_child_handle(@, h)]
  <2>2. OsRight(new) /\ new.running = 0
    BY <1>1, ClosedRight
  <2>3. procs' = Update_(new)
    BY <2>1 DEF close_child_handle
  <2> HIDE DEF new
  <2> QED BY <2>2, <2>3, UpdatedRight
<1>8. CASE \E h \in Handles_(Os) : DuplicateChild(h)
  <2>1. PICK h \in Handles_(Os) : DuplicateChild(h)
    BY <1>8
  <2> DEFINE new == [Os EXCEPT !.kobjects = Append(@, @[h])]
  <2>2. OsRight(new) /\ new.running = 0
    BY <1>1, DuplicateRight
  <2>3. procs' = Update_(new)
    BY <2>1 DEF DuplicateChild
  <2> HIDE DEF new
  <2> QED BY <2>2, <2>3, UpdatedRight
<1>9. CASE Exit \/ Faulted
  BY <1>9, EndRight DEF Exit, Faulted
<1>10. CASE UNCHANGED procVars
  BY <1>10 DEF procVars, ProcInv
<1> QED BY <1>3, <1>4, <1>5, <1>6, <1>7, <1>8, <1>9, <1>10 DEF ProcNext

\* ExitIsTold: whatever handles are closed meanwhile and however deep the
\* children nest, both objects of a child are signalled exactly when it is
\* over, it is over exactly when it has a code to report, and nothing is left
\* that would start it once more.
THEOREM EndsAreTold == ProcSpec => []ExitIsTold
<1>1. ProcInv => ExitIsTold
  BY DEF ProcInv, OsRight, ChildRight, ExitIsTold
<1> QED BY <1>1, ProcInitRight, ProcNextRight, PTL DEF ProcSpec

-----------------------------------------------------------------------------
(* Exception dispatch.  The stack is functions with handlers above them.    *)
(* Between dispatches every function is Settled: its cleanups have not run, *)
(* or have run for an unwind it landed and has yet to resume, with nothing  *)
(* of another unwind in the frames between.  A dispatch that walks has      *)
(* settled what lies beyond its target and cleaned what it has passed.      *)

FunctionFrames == [kind : {"function"}, search : BOOLEAN, unwind : BOOLEAN, cleaned : {0, 1}, resume : Nat]
HandlerFrames == [kind : {"handler"}, phase : {"search", "unwind"}, frame : Nat, orig : Nat, target : Nat]
Frames == FunctionFrames \union HandlerFrames
Dispatches == [phase : {"search", "unwind"}, work : Nat, orig : Nat, base : Nat, target : Nat]

\* n functions, and above them handlers.
Body(fs, n) ==
    /\ fs \in Seq(Frames) /\ n \in 1 .. Len(fs)
    /\ \A i \in 1 .. n : fs[i] \in FunctionFrames
    /\ \A i \in n + 1 .. Len(fs) : fs[i] \in HandlerFrames
Settled(fs, i) ==
    IF fs[i].resume = 0 THEN fs[i].cleaned = 0
    ELSE /\ fs[i].cleaned = 1 /\ fs[i].search /\ fs[i].unwind /\ fs[i].resume < i
         /\ \A j \in fs[i].resume + 1 .. i - 1 : fs[j].resume = 0
Regular(fs, n) == \A i \in 1 .. n : Settled(fs, i)

Searching(fs, n, w) == Regular(fs, n) /\ \A j \in w + 1 .. n : fs[j].resume = 0
Unwinding(fs, n, t, w) ==
    /\ t \in 1 .. w /\ Regular(fs, t)
    /\ \A j \in t + 1 .. n : fs[j].resume = 0
    /\ \A j \in w + 1 .. n : fs[j].unwind => fs[j].cleaned = 1
    /\ \A j \in t + 1 .. n : fs[j].unwind /\ fs[j].cleaned = 0 =>
          \A l \in t + 1 .. j - 1 : fs[l].cleaned = 0
Going(fs, d, w) ==
    IF d.phase = "search" THEN Searching(fs, d.orig, w) ELSE Unwinding(fs, d.orig, d.target, w)

HandlerRuns(fs, d) ==
    /\ d \in Dispatches /\ Body(fs, d.orig) /\ d.base = Len(fs) - 1 /\ d.orig < Len(fs)
    /\ d.work + 1 <= d.orig /\ fs[Len(fs)] = Handler(d, d.work + 1)
    /\ Going(fs, d, d.work + 1)
    /\ d.phase = "unwind" => d.target <= d.work /\ fs[d.work + 1].unwind
ExcInv ==
    /\ frames \in Seq(Frames) /\ exc_stack \in Seq(Dispatches)
    /\ executing \in {"body", "landed", "handler", "exit"}
    /\ executing \in {"body", "landed"} => Body(frames, Top) /\ Regular(frames, Top)
    /\ executing = "handler" => exc_stack # <<>> /\ HandlerRuns(frames, Innermost)

CleanStep ==
    executing' = "landed" =>
          /\ \A i \in DOMAIN frames \ DOMAIN frames' :
                IsFunction(i) /\ frames[i].unwind =>
                   frames[i].cleaned = 1
          /\ \A i \in DOMAIN frames' :
                frames'[i].kind = "function" =>
                   frames'[i].cleaned = IF frames'[i].resume = 0 THEN 0 ELSE 1

LEMMA GreatestExists ==
  ASSUME NEW N \in Nat, NEW S, S \subseteq 0 .. N, S # {}
  PROVE  \E m \in S : \A k \in S : k <= m
<1> DEFINE R == {ss \in Nat \X Nat : ss[1] < ss[2]}
           T == {N - k : k \in S}
<1>1. T \subseteq Nat /\ T # {}
  <2>1. \A k \in S : N - k \in Nat
    OBVIOUS
  <2>2. PICK k \in S : TRUE
    OBVIOUS
  <2>3. N - k \in T
    OBVIOUS
  <2> QED BY <2>1, <2>3
<1>2. \E m \in T : \A k \in T : ~(<<k, m>> \in R)
  <2> HIDE DEF R, T
  <2>1. IsWellFoundedOn(R, Nat)
    BY NatLessThanWellFounded DEF R, OpToRel
  <2> QED BY <1>1, <2>1, WFMin
<1>3. PICK m \in T : \A k \in T : ~(<<k, m>> \in R)
  BY <1>2
<1>4. PICK h \in S : m = N - h
  OBVIOUS
<1>5. ASSUME NEW k \in S
      PROVE  k <= h
  <2>1. N - k \in T /\ N - k \in Nat /\ m \in Nat
    BY <1>1
  <2>2. ~(N - k < m)
    BY <1>3, <2>1
  <2> QED BY <1>4, <2>1, <2>2
<1> QED BY <1>5

\* The walk stops at the highest frame that stops it.
LEMMA FirstStopIs ==
  ASSUME NEW d \in Dispatches, frames \in Seq(Frames)
  PROVE  /\ FirstStop(d) \in 0 .. d.work /\ Stops(d, FirstStop(d))
         /\ \A j \in FirstStop(d) + 1 .. d.work : ~Stops(d, j)
<1> DEFINE S == {i \in 0 .. d.work : Stops(d, i)}
<1>1. d.work \in Nat
  BY DEF Dispatches
<1>2. 0 \in S
  <2>1. 0 \notin DOMAIN frames
    BY LenProperties
  <2> QED BY <1>1, <2>1 DEF Stops, IsFunction
<1>3. PICK m \in S : \A k \in S : k <= m
  <2> HIDE DEF S
  <2>1. S \subseteq 0 .. d.work
    BY DEF S
  <2> QED BY <1>1, <1>2, <2>1, GreatestExists
<1>4. m \in 0 .. d.work /\ Stops(d, m) /\ \A j \in m + 1 .. d.work : ~Stops(d, j)
  <2>1. m \in 0 .. d.work /\ Stops(d, m)
    OBVIOUS
  <2>2. ASSUME NEW j \in m + 1 .. d.work, Stops(d, j)
        PROVE  FALSE
    <3>1. j \in 0 .. d.work /\ ~(j <= m)
      BY <1>1, <2>1
    <3>2. j \in S
      BY <2>2, <3>1
    <3> HIDE DEF S
    <3> QED BY <1>3, <3>1, <3>2
  <2> QED BY <2>1, <2>2
<1> HIDE DEF S
<1> QED BY <1>4 DEF FirstStop

LEMMA PartIs ==
  ASSUME NEW fs \in Seq(Frames), NEW n \in 0 .. Len(fs)
  PROVE  /\ SubSeq(fs, 1, n) \in Seq(Frames) /\ Len(SubSeq(fs, 1, n)) = n
         /\ \A i \in 1 .. n : SubSeq(fs, 1, n)[i] = fs[i]
<1> DEFINE part == SubSeq(fs, 1, n)
<1>1. Len(fs) \in Nat /\ n \in Int /\ \A i \in 1 .. n : fs[i] \in Frames
  BY LenProperties
<1>2. /\ part \in Seq(Frames) /\ Len(part) = (IF 1 <= n THEN n - 1 + 1 ELSE 0)
      /\ \A i \in 1 .. n - 1 + 1 : part[i] = fs[1 + i - 1]
  BY <1>1, SubSeqProperties
<1> HIDE DEF part
<1>3. Len(part) = n
  BY <1>1, <1>2
<1>4. \A i \in 1 .. n : i \in 1 .. n - 1 + 1 /\ 1 + i - 1 = i
  BY <1>1
<1> QED BY <1>2, <1>3, <1>4 DEF part

\* What a dispatch may find changed in the stack it was started on.
Alike(fs, d) ==
    \A j \in 1 .. d.orig : /\ fs[j].search = frames[j].search /\ fs[j].unwind = frames[j].unwind
                           /\ d.phase = "search" \/ j # d.target => fs[j].cleaned = frames[j].cleaned

LEMMA PumpRight ==
  ASSUME NEW d \in Dispatches, frames \in Seq(Frames), Body(frames, d.orig),
         NEW fs, Body(fs, d.orig), Alike(fs, d),
         NEW others \in Seq(Dispatches), d.work <= d.orig, d.base >= d.orig, d.base <= Len(fs),
         Going(fs, d, d.work), pump_dispatch(fs, others, d)
  PROVE  ExcInv' /\ CleanStep
<1> DEFINE i == FirstStop(d)
           n == d.orig
<1>1. /\ i \in 0 .. d.work /\ Stops(d, i)
      /\ \A j \in i + 1 .. d.work : ~Stops(d, j)
  BY FirstStopIs
<1>2. n \in Nat /\ d.work \in Nat /\ d.base \in Nat /\ d.target \in Nat /\ Len(fs) \in Nat /\ Len(frames) \in Nat
      /\ fs \in Seq(Frames) /\ n \in 1 .. Len(fs) /\ n \in 1 .. Len(frames)
  BY LenProperties DEF Dispatches, Body
<1>3. \A j \in 1 .. n : IsFunction(j) /\ frames[j] \in FunctionFrames /\ fs[j] \in FunctionFrames
  <2>1. \A j \in 1 .. n : frames[j] \in FunctionFrames /\ fs[j] \in FunctionFrames /\ j \in DOMAIN frames
    BY <1>2, LenProperties DEF Body
  <2> QED BY <2>1 DEF IsFunction, FunctionFrames
<1>4. IsFunction(i) => i \in 1 .. n
  <2>1. IsFunction(i) => i \in DOMAIN frames
    BY DEF IsFunction
  <2>2. DOMAIN frames = 1 .. Len(frames)
    BY LenProperties
  <2> QED BY <1>1, <1>2, <2>1, <2>2
<1>5. \/ ~IsFunction(i) /\ finish_dispatch(fs)
      \/ IsFunction(i) /\ IsTarget(d, i) /\ transfer_to_target(fs, i)
      \/ IsFunction(i) /\ ~IsTarget(d, i) /\ CallHandler(fs, others, d, i)
  BY DEF pump_dispatch
<1> HIDE DEF i
<1>6. CASE ~IsFunction(i) /\ finish_dispatch(fs)
  BY <1>2, <1>6 DEF finish_dispatch, ExcInv, CleanStep
<1>7. CASE IsFunction(i) /\ IsTarget(d, i) /\ transfer_to_target(fs, i)
  <2> DEFINE part == SubSeq(fs, 1, i)
  <2>1. d.phase = "unwind" /\ i = d.target /\ i \in 1 .. n
    BY <1>4, <1>7 DEF IsTarget
  <2>2. frames' = part /\ exc_stack' = <<>> /\ executing' = "landed"
    BY <1>7 DEF transfer_to_target
  <2>3. /\ part \in Seq(Frames) /\ Len(part) = i /\ DOMAIN part = 1 .. i
        /\ \A j \in 1 .. i : part[j] = fs[j]
    BY <1>2, <2>1, PartIs, LenProperties
  <2> HIDE DEF part
  <2>4. Unwinding(fs, n, i, d.work)
    BY <2>1 DEF Going
  <2>5. Regular(part, i)
    <3> SUFFICES ASSUME NEW k \in 1 .. i
                 PROVE  Settled(part, k)
      BY DEF Regular
    <3>1. Settled(fs, k) /\ part[k] = fs[k] /\ fs[k].resume \in Nat
      BY <1>2, <1>3, <2>1, <2>3, <2>4 DEF Unwinding, Regular, FunctionFrames
    <3>2. \A j \in fs[k].resume + 1 .. k - 1 : part[j] = fs[j]
      <4>1. i \in Nat /\ fs[k].resume + 1 \in Nat /\ fs[k].resume + 1 >= 1
        BY <2>1, <3>1
      <4>2. \A j \in fs[k].resume + 1 .. k - 1 : j \in 1 .. i
        BY <4>1
      <4> QED BY <2>3, <4>2
    <3> QED BY <3>1, <3>2 DEF Settled
  <2>6. Body(part, i)
    <3>1. \A j \in 1 .. i : part[j] \in FunctionFrames
      <4>1. \A j \in 1 .. i : j \in 1 .. n
        BY <1>2, <2>1
      <4> QED BY <1>3, <2>3, <4>1
    <3>2. \A j \in i + 1 .. Len(part) : FALSE
      BY <1>2, <2>1, <2>3
    <3>3. i \in 1 .. Len(part) /\ part \in Seq(Frames)
      BY <1>2, <2>1, <2>3
    <3> QED BY <3>1, <3>2, <3>3 DEF Body
  <2>7. ExcInv'
    <3>1. Body(frames, Top)' /\ Regular(frames, Top)'
      BY <2>2, <2>3, <2>5, <2>6 DEF Top
    <3>2. <<>> \in Seq(Dispatches)
      BY EmptySeq
    <3> QED BY <2>2, <2>3, <3>1, <3>2 DEF ExcInv
  <2>8. ASSUME NEW k \in DOMAIN frames \ DOMAIN part, IsFunction(k), frames[k].unwind
        PROVE  frames[k].cleaned = 1
    <3>1. k \in 1 .. Len(frames) /\ ~(k \in 1 .. i)
      BY <2>3, LenProperties
    <3>2. k \in 1 .. n
      <4>1. k \in n + 1 .. Len(frames) => frames[k] \in HandlerFrames
        BY DEF Body
      <4>2. frames[k].kind = "function"
        BY <2>8 DEF IsFunction
      <4>3. ~(frames[k] \in HandlerFrames)
        BY <4>2 DEF HandlerFrames
      <4> QED BY <1>2, <3>1, <4>1, <4>3
    <3>3. fs[k].unwind /\ fs[k].cleaned = frames[k].cleaned
      BY <2>1, <2>8, <3>1, <3>2 DEF Alike
    <3>4. CASE k \in d.work + 1 .. n
      BY <2>4, <3>3, <3>4 DEF Unwinding
    <3>5. CASE k \in i + 1 .. d.work
      BY <1>1, <2>1, <2>8, <3>5 DEF Stops, HasHandler
    <3> QED BY <1>1, <1>2, <2>1, <3>1, <3>2, <3>4, <3>5
  <2>9. ASSUME NEW k \in DOMAIN part
        PROVE  part[k].cleaned = IF part[k].resume = 0 THEN 0 ELSE 1
    BY <2>3, <2>5, <2>9 DEF Regular, Settled
  <2> QED BY <2>2, <2>7, <2>8, <2>9 DEF CleanStep
<1>8. CASE IsFunction(i) /\ ~IsTarget(d, i) /\ CallHandler(fs, others, d, i)
  <2> DEFINE part == SubSeq(fs, 1, d.base)
             h == Handler(d, i)
             e == [d EXCEPT !.work = i - 1]
             new == Append(part, h)
             stack == Append(others, e)
  <2>1. frames' = new /\ exc_stack' = stack /\ executing' = "handler"
    BY <1>8 DEF CallHandler
  <2>2. i \in 1 .. n /\ i - 1 \in Nat /\ i <= d.work
    BY <1>1, <1>2, <1>4, <1>8
  <2>3. /\ e \in Dispatches /\ e.work = i - 1 /\ e.orig = n /\ e.base = d.base /\ e.phase = d.phase
        /\ e.target = d.target /\ Handler(e, i) = h
    BY <2>2 DEF Dispatches, Handler
  <2>4. h \in HandlerFrames
    BY <1>2, <2>2 DEF Handler, HandlerFrames, Dispatches
  <2>5. /\ part \in Seq(Frames) /\ Len(part) = d.base
        /\ \A j \in 1 .. d.base : part[j] = fs[j]
    BY <1>2, PartIs
  <2> HIDE DEF part, h, e
  <2>6. /\ new \in Seq(Frames) /\ Len(new) = d.base + 1 /\ new[d.base + 1] = h
        /\ \A j \in 1 .. d.base : new[j] = fs[j]
    BY <2>4, <2>5, AppendProperties DEF Frames
  <2>7. /\ stack \in Seq(Dispatches) /\ stack[Len(stack)] = e /\ stack # <<>>
    BY <2>3, AppendProperties
  <2> HIDE DEF new, stack
  <2>8. \A j \in 1 .. n : new[j] = fs[j] /\ j \in 1 .. d.base
    BY <1>2, <2>6
  <2>9. Body(new, n)
    <3>1. \A j \in 1 .. n : new[j] \in FunctionFrames
      BY <1>3, <2>8
    <3>2. \A j \in n + 1 .. Len(new) : new[j] \in HandlerFrames
      <4> SUFFICES ASSUME NEW j \in n + 1 .. d.base + 1
                   PROVE  new[j] \in HandlerFrames
        BY <2>6
      <4>1. CASE j = d.base + 1
        BY <2>4, <2>6, <4>1
      <4>2. CASE j # d.base + 1
        <5>1. j \in n + 1 .. Len(fs) /\ j \in 1 .. d.base
          <6>1. n \in Nat /\ d.base \in Nat /\ Len(fs) \in Nat /\ n <= d.base /\ d.base <= Len(fs)
            BY <1>2
          <6> HIDE DEF n
          <6>2. j \in Int /\ n + 1 <= j /\ j <= d.base
            BY <4>2, <6>1
          <6> QED BY <6>1, <6>2
        <5> QED BY <2>6, <5>1 DEF Body
      <4> QED BY <4>1, <4>2
    <3>3. n \in 1 .. Len(new)
      BY <1>2, <2>6
    <3> QED BY <2>6, <3>1, <3>2, <3>3 DEF Body
  <2>10. ASSUME NEW k \in 1 .. n, Settled(fs, k)
         PROVE  Settled(new, k)
    <3>1. fs[k].resume \in Nat /\ new[k] = fs[k]
      BY <1>3, <2>8 DEF FunctionFrames
    <3>2. \A j \in fs[k].resume + 1 .. k - 1 : new[j] = fs[j]
      BY <1>2, <2>8, <3>1
    <3> QED BY <2>10, <3>1, <3>2 DEF Settled
  <2>11. Going(new, e, i)
    <3>1. CASE d.phase = "search"
      <4>1. Searching(fs, n, d.work)
        BY <3>1 DEF Going
      <4>2. Regular(new, n)
        BY <2>10, <4>1 DEF Searching, Regular
      <4>3. ASSUME NEW j \in i + 1 .. n
            PROVE  new[j].resume = 0
        <5>1. j \in 1 .. n /\ new[j] = fs[j]
          BY <1>2, <2>2, <2>8
        <5>2. CASE j \in d.work + 1 .. n
          BY <4>1, <5>1, <5>2 DEF Searching
        <5>3. CASE j \in i + 1 .. d.work
          <6>1. ~frames[j].search
            BY <1>1, <3>1, <5>3 DEF Stops, HasHandler
          <6>2. ~fs[j].search
            BY <5>1, <6>1 DEF Alike
          <6> QED BY <4>1, <5>1, <6>2 DEF Searching, Regular, Settled
        <5> QED BY <1>2, <2>2, <5>2, <5>3
      <4> QED BY <2>3, <3>1, <4>2, <4>3 DEF Going, Searching
    <3>2. CASE d.phase = "unwind"
      <4> DEFINE t == d.target
      <4>1. Unwinding(fs, n, t, d.work)
        BY <3>2 DEF Going
      <4>2. t \in 1 .. d.work /\ t < i
        <5>1. t \in 1 .. d.work
          BY <4>1 DEF Unwinding
        <5>2. t # i /\ ~(t \in i + 1 .. d.work)
          BY <1>1, <1>8, <3>2 DEF IsTarget, Stops
        <5>3. i \in Nat /\ d.work \in Nat
          BY <1>2, <2>2
        <5> HIDE DEF t
        <5> QED BY <5>1, <5>2, <5>3
      <4>3. \A j \in t + 1 .. n : j \in 1 .. n /\ new[j] = fs[j]
        BY <1>2, <2>8, <4>2
      <4>4. Regular(new, t)
        <5> SUFFICES ASSUME NEW k \in 1 .. t
                     PROVE  Settled(new, k)
          BY DEF Regular
        <5>1. k \in 1 .. n /\ Settled(fs, k)
          BY <1>2, <2>2, <4>1, <4>2 DEF Unwinding, Regular
        <5> QED BY <2>10, <5>1
      <4>5. \A j \in t + 1 .. n : new[j].resume = 0
        BY <4>1, <4>3 DEF Unwinding
      <4>6. ASSUME NEW j \in i + 1 .. n, new[j].unwind
            PROVE  new[j].cleaned = 1
        <5>1. j \in 1 .. n /\ new[j] = fs[j]
          BY <1>2, <2>2, <2>8
        <5>2. CASE j \in d.work + 1 .. n
          BY <4>1, <4>6, <5>1, <5>2 DEF Unwinding
        <5>3. CASE j \in i + 1 .. d.work
          <6>1. ~frames[j].unwind
            BY <1>1, <3>2, <5>3 DEF Stops, HasHandler
          <6> QED BY <4>6, <5>1, <6>1 DEF Alike
        <5> QED BY <1>2, <2>2, <5>2, <5>3
      <4>7. ASSUME NEW j \in t + 1 .. n, new[j].unwind, new[j].cleaned = 0, NEW l \in t + 1 .. j - 1
            PROVE  new[l].cleaned = 0
        <5>1. l \in t + 1 .. n
          BY <1>2, <4>2
        <5> QED BY <4>1, <4>3, <4>7, <5>1 DEF Unwinding
      <4>8. t \in 1 .. i
        BY <2>2, <4>2
      <4> QED BY <2>3, <3>2, <4>4, <4>5, <4>6, <4>7, <4>8 DEF Going, Unwinding
    <3> QED BY <3>1, <3>2 DEF Dispatches
  <2>12. e.phase = "unwind" => e.target <= e.work /\ new[i].unwind
    <3> SUFFICES ASSUME d.phase = "unwind"
                 PROVE  d.target <= i - 1 /\ new[i].unwind
      BY <2>3
    <3>1. d.target \in 1 .. d.work
      BY DEF Going, Unwinding
    <3>2. d.target # i /\ ~(d.target \in i + 1 .. d.work)
      BY <1>1, <1>8 DEF IsTarget, Stops
    <3>3. frames[i].unwind
      BY <1>1, <1>8 DEF Stops, HasHandler
    <3>4. new[i].unwind
      BY <2>2, <2>8, <3>3 DEF Alike
    <3>5. d.target <= i - 1
      BY <1>2, <2>2, <3>1, <3>2
    <3> QED BY <3>4, <3>5
  <2>13. HandlerRuns(new, e)
    <3>1. e.work + 1 = i /\ i <= n /\ n < Len(new) /\ e.base = Len(new) - 1
      BY <1>2, <2>2, <2>3, <2>6
    <3>2. new[Len(new)] = Handler(e, i)
      BY <2>3, <2>6
    <3> QED BY <2>3, <2>9, <2>11, <2>12, <3>1, <3>2 DEF HandlerRuns
  <2>14. ExcInv'
    BY <2>1, <2>6, <2>7, <2>13 DEF ExcInv, Innermost
  <2> QED BY <2>1, <2>14 DEF CleanStep
<1> QED BY <1>5, <1>6, <1>7, <1>8
\* new is fs with c and r in function i, and nothing else changed.
FrameChanged(fs, i, new, c, r) ==
  /\ new \in Seq(Frames) /\ Len(new) = Len(fs)
  /\ \A j \in 1 .. Len(fs) : j # i => new[j] = fs[j]
  /\ new[i] \in FunctionFrames /\ new[i].search = fs[i].search /\ new[i].unwind = fs[i].unwind
  /\ new[i].cleaned = c /\ new[i].resume = r

\* Some fields of one frame change.
LEMMA FrameChanges ==
  ASSUME NEW fs \in Seq(Frames), NEW i \in 1 .. Len(fs), fs[i] \in FunctionFrames,
         NEW c \in {0, 1}, NEW r \in Nat, NEW new,
         \/ new = [fs EXCEPT ![i].cleaned = c] /\ r = fs[i].resume
         \/ new = [fs EXCEPT ![i].resume = r] /\ c = fs[i].cleaned
         \/ new = [fs EXCEPT ![i].cleaned = c, ![i].resume = r]
  PROVE  FrameChanged(fs, i, new, c, r)
<1> DEFINE f == fs[i]
           g == [kind |-> "function", search |-> f.search, unwind |-> f.unwind, cleaned |-> c, resume |-> r]
<1>1. g \in FunctionFrames /\ g.search = f.search /\ g.unwind = f.unwind /\ g.cleaned = c /\ g.resume = r
  BY DEF FunctionFrames
<1>2. f = [kind |-> "function", search |-> f.search, unwind |-> f.unwind, cleaned |-> f.cleaned,
           resume |-> f.resume]
  BY DEF FunctionFrames
<1> HIDE DEF g
<1>3. new = [fs EXCEPT ![i] = g]
  <2>1. DOMAIN fs = 1 .. Len(fs)
    BY LenProperties
  <2>2. CASE new = [fs EXCEPT ![i].cleaned = c] /\ r = fs[i].resume
    <3>1. [f EXCEPT !.cleaned = c] = g
      <4> HIDE DEF f
      <4> QED BY <1>2, <2>2 DEF g, f
    <3> QED BY <2>2, <3>1
  <2>3. CASE new = [fs EXCEPT ![i].resume = r] /\ c = fs[i].cleaned
    <3>1. [f EXCEPT !.resume = r] = g
      <4> HIDE DEF f
      <4> QED BY <1>2, <2>3 DEF g, f
    <3> QED BY <2>3, <3>1
  <2>4. CASE new = [fs EXCEPT ![i].cleaned = c, ![i].resume = r]
    <3>1. [f EXCEPT !.cleaned = c, !.resume = r] = g
      <4> DEFINE part == [f EXCEPT !.cleaned = c]
                 whole == [f EXCEPT !.cleaned = c, !.resume = r]
      <4>1. whole = [part EXCEPT !.resume = r]
        OBVIOUS
      <4> HIDE DEF f
      <4>2. part = [kind |-> "function", search |-> f.search, unwind |-> f.unwind, cleaned |-> c,
                    resume |-> f.resume]
        BY <1>2
      <4> HIDE DEF part, whole
      <4>3. whole = [kind |-> "function", search |-> f.search, unwind |-> f.unwind, cleaned |-> c,
                     resume |-> r]
        BY <4>1, <4>2
      <4> QED BY <4>3 DEF whole, g
    <3> QED BY <2>4, <3>1
  <2> QED BY <2>2, <2>3, <2>4
<1>4. g \in Frames
  BY <1>1 DEF Frames
<1>5. /\ new \in Seq(Frames) /\ Len(new) = Len(fs)
      /\ \A j \in 1 .. Len(fs) : new[j] = IF j = i THEN g ELSE fs[j]
  BY <1>3, <1>4, ExceptSeq
<1> QED BY <1>1, <1>5 DEF FrameChanged

\* The stack with other cleaned and resume in function i, and nothing else changed.
LEMMA BodyChanges ==
  ASSUME NEW n, NEW fs, Body(fs, n), NEW i \in 1 .. n,
         NEW new \in Seq(Frames), Len(new) = Len(fs), new[i] \in FunctionFrames,
         \A j \in 1 .. Len(fs) : j # i => new[j] = fs[j]
  PROVE  Body(new, n)
  BY DEF Body

LEMMA RaiseKeeps ==
  ASSUME ExcInv, GuestRaise
  PROVE  ExcInv' /\ CleanStep
<1> DEFINE d == DispatchFrame("search", Top, 0)
<1>1. pump_dispatch(frames, exc_stack, d) /\ executing \in {"body", "landed"}
  BY DEF GuestRaise, raise_exception, InFunction
<1>2. Body(frames, Top) /\ Regular(frames, Top) /\ Top \in Nat /\ Top = Len(frames)
  BY <1>1, LenProperties DEF ExcInv, Top
<1>3. /\ d \in Dispatches /\ d.phase = "search" /\ d.orig = Top /\ d.work = Top /\ d.base = Top
  BY <1>2 DEF DispatchFrame, Dispatches
<1> HIDE DEF d
<1>4. Alike(frames, d)
  BY DEF Alike
<1>5. Going(frames, d, d.work)
  BY <1>2, <1>3 DEF Going, Searching
<1> QED BY <1>1, <1>2, <1>3, <1>4, <1>5, PumpRight DEF ExcInv

LEMMA CallKeeps ==
  ASSUME ExcInv, ~HandlersRaise, GuestCall
  PROVE  ExcInv' /\ CleanStep
<1>1. PICK search \in BOOLEAN, unwind \in BOOLEAN :
          frames' = Append(frames, Function(search, unwind))
  BY DEF GuestCall
<1>2. executing' = "body" /\ exc_stack' = exc_stack /\ executing \in {"body", "landed"}
  BY DEF GuestCall, InFunction
<1> DEFINE f == Function(search, unwind)
           n == Len(frames)
           new == frames'
<1>3. f \in FunctionFrames /\ f.resume = 0 /\ f.cleaned = 0
  BY DEF Function, FunctionFrames
<1>4. Body(frames, n) /\ Regular(frames, n) /\ n \in Nat
  BY <1>2, LenProperties DEF ExcInv, Top
<1> HIDE DEF f
<1>5. /\ new \in Seq(Frames) /\ Len(new) = n + 1 /\ new[n + 1] = f
      /\ \A j \in 1 .. n : new[j] = frames[j]
  BY <1>1, <1>3, <1>4, AppendProperties DEF Frames, ExcInv, f
<1> HIDE DEF n, new
<1>6. Body(new, n + 1)
  BY <1>3, <1>4, <1>5 DEF Body, n
<1>7. ASSUME NEW k \in 1 .. n + 1
      PROVE  Settled(new, k)
  <2>1. CASE k = n + 1
    BY <1>3, <1>5, <2>1 DEF Settled
  <2>2. CASE k \in 1 .. n
    <3>1. Settled(frames, k) /\ new[k] = frames[k] /\ frames[k].resume \in Nat
      BY <1>4, <1>5, <2>2 DEF Regular, Body, FunctionFrames
    <3>2. \A j \in frames[k].resume + 1 .. k - 1 : new[j] = frames[j]
      BY <1>4, <1>5, <2>2, <3>1
    <3> QED BY <3>1, <3>2 DEF Settled
  <2> QED BY <1>4, <2>1, <2>2
<1>8. ExcInv'
  <2>1. Body(frames, Top)' /\ Regular(frames, Top)'
    BY <1>5, <1>6, <1>7 DEF Regular, Top, new
  <2> QED BY <1>2, <1>5, <2>1 DEF ExcInv, new
<1> QED BY <1>2, <1>8 DEF CleanStep

LEMMA FewerFrames ==
  ASSUME NEW fs, NEW m \in Nat \ {0}, NEW n, Body(fs, n), Regular(fs, m), m <= n,
         NEW new, new = SubSeq(fs, 1, m)
  PROVE  Body(new, m) /\ Regular(new, m) /\ Len(new) = m
<1>1. /\ new \in Seq(Frames) /\ Len(new) = m
      /\ \A j \in 1 .. m : new[j] = fs[j]
  <2>1. Len(fs) \in Nat /\ n \in 1 .. Len(fs) /\ fs \in Seq(Frames)
    BY LenProperties DEF Body
  <2>2. m \in 0 .. Len(fs)
    BY <2>1
  <2> QED BY <2>1, <2>2, PartIs
<1>2. n \in Int
  BY DEF Body
<1>3. \A j \in 1 .. m : fs[j] \in FunctionFrames /\ new[j] = fs[j]
  BY <1>1, <1>2 DEF Body
<1>4. Body(new, m)
  BY <1>1, <1>3 DEF Body
<1>5. ASSUME NEW k \in 1 .. m
      PROVE  Settled(new, k)
  <2>1. Settled(fs, k) /\ new[k] = fs[k] /\ fs[k].resume \in Nat
    BY <1>3 DEF Regular, FunctionFrames
  <2>2. \A j \in fs[k].resume + 1 .. k - 1 : new[j] = fs[j]
    BY <1>1, <2>1
  <2> QED BY <2>1, <2>2 DEF Settled
<1> QED BY <1>1, <1>4, <1>5 DEF Regular

LEMMA ReturnKeeps ==
  ASSUME ExcInv, GuestReturn
  PROVE  ExcInv' /\ CleanStep
<1> DEFINE n == Len(frames)
<1>1. /\ executing \in {"body", "landed"} /\ n > 1 /\ frames' = SubSeq(frames, 1, n - 1)
      /\ executing' = (IF IsFunction(n - 1) THEN "body" ELSE "handler") /\ exc_stack' = exc_stack
  BY DEF GuestReturn, InFunction, Below, Top
<1>2. Body(frames, n) /\ Regular(frames, n) /\ n \in Nat /\ frames \in Seq(Frames) /\ DOMAIN frames = 1 .. n
  BY <1>1, LenProperties DEF ExcInv, Top
<1>3. IsFunction(n - 1)
  <2>1. n - 1 \in 1 .. n
    BY <1>1, <1>2
  <2>2. frames[n - 1] \in FunctionFrames /\ n - 1 \in DOMAIN frames
    BY <1>2, <2>1 DEF Body
  <2> QED BY <2>2 DEF IsFunction, FunctionFrames
<1>4. Regular(frames, n - 1)
  BY <1>2 DEF Regular
<1>5. Body(frames', n - 1) /\ Regular(frames', n - 1) /\ Len(frames') = n - 1
  <2>1. n - 1 \in Nat \ {0} /\ n - 1 <= n
    BY <1>1, <1>2
  <2> HIDE DEF n
  <2> QED BY <1>1, <1>2, <1>4, <2>1, FewerFrames
<1>6. ExcInv'
  BY <1>1, <1>3, <1>5 DEF ExcInv, Top, Body
<1> QED BY <1>1, <1>3, <1>6 DEF CleanStep

\* A handler that returns: the stack below it, and its dispatch to go on with.
LEMMA HandlerGone ==
  ASSUME ExcInv, executing = "handler"
  PROVE  LET d == Innermost
             fs == Below(Top - 1)
         IN  /\ HandlerRuns(frames, d) /\ exc_stack # <<>> /\ Others \in Seq(Dispatches)
             /\ Body(fs, d.orig) /\ Len(fs) = Top - 1 /\ \A j \in 1 .. d.orig : fs[j] = frames[j]
             /\ Arguments = Handler(d, d.work + 1)
             /\ d.orig \in Nat /\ d.work \in Nat /\ d.work + 1 \in 1 .. d.orig /\ d.target \in Nat
             /\ d.orig \in 1 .. Top - 1 /\ Top \in Nat
<1> DEFINE d == Innermost
           n == Len(frames)
           fs == SubSeq(frames, 1, n - 1)
<1>1. HandlerRuns(frames, d) /\ exc_stack # <<>> /\ exc_stack \in Seq(Dispatches) /\ frames \in Seq(Frames)
  BY DEF ExcInv
<1> HIDE DEF d
<1>2. /\ d \in Dispatches /\ Body(frames, d.orig) /\ d.orig < n /\ d.work + 1 <= d.orig
      /\ frames[n] = Handler(d, d.work + 1)
  BY <1>1 DEF HandlerRuns
<1>3. n \in Nat /\ d.orig \in Nat /\ d.work \in Nat /\ d.target \in Nat /\ d.orig \in 1 .. n
  BY <1>1, <1>2, LenProperties DEF Body, Dispatches
<1>4. /\ fs \in Seq(Frames) /\ Len(fs) = n - 1
      /\ \A j \in 1 .. n - 1 : fs[j] = frames[j]
  <2>1. n - 1 \in 0 .. Len(frames)
    BY <1>2, <1>3
  <2> HIDE DEF n
  <2> QED BY <1>1, <2>1, PartIs
<1> HIDE DEF fs
<1>5. \A j \in 1 .. d.orig : fs[j] = frames[j]
  BY <1>2, <1>3, <1>4
<1>6. Body(fs, d.orig)
  <2>1. \A j \in 1 .. d.orig : fs[j] \in FunctionFrames
    BY <1>2, <1>5 DEF Body
  <2>2. \A j \in d.orig + 1 .. n - 1 : fs[j] \in HandlerFrames
    <3>1. \A j \in d.orig + 1 .. n - 1 : j \in d.orig + 1 .. n /\ j \in 1 .. n - 1
      BY <1>3
    <3> QED BY <1>2, <1>4, <3>1 DEF Body
  <2>3. d.orig \in 1 .. n - 1
    BY <1>2, <1>3
  <2> QED BY <1>4, <2>1, <2>2, <2>3 DEF Body
<1>7. Others \in Seq(Dispatches)
  <2> DEFINE m == Len(exc_stack)
  <2>1. m \in Nat /\ \A j \in 1 .. m : exc_stack[j] \in Dispatches
    BY <1>1, LenProperties
  <2>2. \A j \in 1 .. m - 1 : exc_stack[j] \in Dispatches
    BY <2>1
  <2>3. m - 1 \in Int /\ 1 \in Int
    BY <2>1
  <2> HIDE DEF m
  <2>4. SubSeq(exc_stack, 1, m - 1) \in Seq(Dispatches)
    BY <2>2, <2>3, SubSeqProperties
  <2> QED BY <2>4 DEF Others, m
<1>8. d.orig \in 1 .. n - 1 /\ d.work + 1 \in 1 .. d.orig
  BY <1>2, <1>3
<1> QED BY <1>1, <1>2, <1>3, <1>4, <1>5, <1>6, <1>7, <1>8 DEF d, fs, Below, Top, Arguments

\* Going on from the frame below the handler's.
LEMMA GoesOn ==
  ASSUME NEW d \in Dispatches, NEW fs, Body(frames, d.orig), d.work + 1 <= d.orig,
         \A j \in 1 .. d.orig : fs[j] = frames[j],
         Going(frames, d, d.work + 1), d.phase = "unwind" => d.target <= d.work,
         IF d.phase = "search" THEN frames[d.work + 1].resume = 0
                               ELSE frames[d.work + 1].unwind => frames[d.work + 1].cleaned = 1
  PROVE  Going(fs, d, d.work) /\ Alike(fs, d)
<1> DEFINE n == d.orig
           w == d.work
<1>1. n \in Nat /\ w \in Nat /\ d.target \in Nat
  BY DEF Dispatches
<1>2. \A k \in 1 .. n : frames[k].resume \in Nat
  BY DEF Body, FunctionFrames
<1>3. ASSUME NEW k \in 1 .. n, Settled(frames, k)
      PROVE  Settled(fs, k)
  <2>1. frames[k].resume \in Nat /\ fs[k] = frames[k]
    BY <1>2
  <2>2. \A j \in frames[k].resume + 1 .. k - 1 : fs[j] = frames[j]
    BY <1>1, <2>1
  <2> QED BY <1>3, <2>1, <2>2 DEF Settled
<1>4. CASE d.phase = "search"
  <2>1. Searching(frames, n, w + 1)
    BY <1>4 DEF Going
  <2>2. Regular(fs, n)
    BY <1>3, <2>1 DEF Searching, Regular
  <2>3. ASSUME NEW j \in w + 1 .. n
        PROVE  fs[j].resume = 0
    <3>1. j \in 1 .. n /\ (j = w + 1 \/ j \in w + 1 + 1 .. n)
      BY <1>1
    <3> QED BY <1>4, <2>1, <3>1 DEF Searching
  <2> QED BY <1>4, <2>2, <2>3 DEF Going, Searching, Alike
<1>5. CASE d.phase = "unwind"
  <2> DEFINE t == d.target
  <2>1. Unwinding(frames, n, t, w + 1) /\ t <= w
    BY <1>5 DEF Going
  <2>2. t \in 1 .. w
    BY <1>1, <2>1 DEF Unwinding
  <2>3. \A j \in t + 1 .. n : j \in 1 .. n
    BY <1>1
  <2>4. \A k \in 1 .. t : k \in 1 .. n
    BY <1>1, <2>2
  <2>5. Regular(fs, t)
    BY <1>3, <2>1, <2>4 DEF Unwinding, Regular
  <2>6. \A j \in t + 1 .. n : fs[j].resume = 0
    BY <2>1, <2>3 DEF Unwinding
  <2>7. ASSUME NEW j \in w + 1 .. n, fs[j].unwind
        PROVE  fs[j].cleaned = 1
    <3>1. j \in 1 .. n /\ (j = w + 1 \/ j \in w + 1 + 1 .. n)
      BY <1>1
    <3> QED BY <1>5, <2>1, <2>7, <3>1 DEF Unwinding
  <2>8. ASSUME NEW j \in t + 1 .. n, fs[j].unwind, fs[j].cleaned = 0, NEW l \in t + 1 .. j - 1
        PROVE  fs[l].cleaned = 0
    <3>1. l \in 1 .. n /\ j \in 1 .. n
      BY <1>1
    <3> QED BY <2>1, <2>8, <3>1 DEF Unwinding
  <2> QED BY <1>5, <2>2, <2>5, <2>6, <2>7, <2>8 DEF Going, Unwinding, Alike
<1> QED BY <1>4, <1>5 DEF Dispatches
LEMMA CleansKeeps ==
  ASSUME ExcInv, HandlerCleans
  PROVE  ExcInv' /\ CleanStep
<1> DEFINE d == Innermost
           n == d.orig
           i == d.work + 1
           t == d.target
           new == frames'
<1>1. /\ executing = "handler" /\ Arguments.phase = "unwind" /\ frames[Arguments.frame].cleaned = 0
      /\ frames' = [frames EXCEPT ![Arguments.frame].cleaned = 1]
      /\ exc_stack' = exc_stack /\ executing' = "handler"
  BY DEF HandlerCleans, InHandler, Arguments
<1>2. /\ HandlerRuns(frames, d) /\ exc_stack # <<>> /\ Arguments = Handler(d, i)
      /\ n \in Nat /\ d.work \in Nat /\ i \in 1 .. n /\ t \in Nat /\ n \in 1 .. Top - 1 /\ Top \in Nat
  BY <1>1, HandlerGone
<1> HIDE DEF d
<1>3. d.phase = "unwind" /\ frames[i].cleaned = 0 /\ new = [frames EXCEPT ![i].cleaned = 1]
  BY <1>1, <1>2 DEF Handler
<1>4. /\ d \in Dispatches /\ Body(frames, n) /\ d.base = Len(frames) - 1 /\ d.orig < Len(frames)
      /\ frames[Len(frames)] = Handler(d, i) /\ Unwinding(frames, n, t, i)
      /\ d.target <= d.work /\ frames[i].unwind /\ frames \in Seq(Frames) /\ Len(frames) = Top
  BY <1>2, <1>3 DEF HandlerRuns, Going, Body, Top
<1>5. i \in 1 .. Len(frames) /\ frames[i] \in FunctionFrames /\ i # Len(frames)
  BY <1>2, <1>4 DEF Body
<1>6. /\ new \in Seq(Frames) /\ Len(new) = Len(frames)
      /\ \A j \in 1 .. Len(frames) : j # i => new[j] = frames[j]
      /\ new[i] \in FunctionFrames /\ new[i].unwind = frames[i].unwind
      /\ new[i].cleaned = 1 /\ new[i].resume = frames[i].resume
  <2>1. frames[i].resume \in Nat /\ 1 \in {0, 1}
    BY <1>5 DEF FunctionFrames
  <2> HIDE DEF i, new
  <2>2. FrameChanged(frames, i, new, 1, frames[i].resume)
    BY <1>3, <1>4, <1>5, <2>1, FrameChanges
  <2> QED BY <1>4, <2>2 DEF FrameChanged
<1> HIDE DEF new
<1>7. Body(new, n)
  BY <1>2, <1>4, <1>6, BodyChanges
<1>8. \A j \in 1 .. n : j \in 1 .. Len(frames)
  BY <1>2, <1>4
<1>9. Unwinding(new, n, t, i)
  <2>1. t \in 1 .. d.work /\ t < i
    BY <1>2, <1>4 DEF Unwinding
  <2>2. ASSUME NEW k \in 1 .. t
        PROVE  Settled(new, k)
    <3>1. Settled(frames, k) /\ k \in 1 .. n /\ k # i
      BY <1>2, <1>4, <2>1 DEF Unwinding, Regular
    <3>2. new[k] = frames[k] /\ frames[k].resume \in Nat
      BY <1>4, <1>6, <1>8, <3>1 DEF Body, FunctionFrames
    <3>3. \A j \in frames[k].resume + 1 .. k - 1 : new[j] = frames[j]
      <4>1. \A j \in frames[k].resume + 1 .. k - 1 : j \in 1 .. n /\ j # i
        BY <1>2, <2>1, <3>1, <3>2
      <4> QED BY <1>6, <1>8, <4>1
    <3> QED BY <3>1, <3>2, <3>3 DEF Settled
  <2>3. ASSUME NEW j \in t + 1 .. n
        PROVE  new[j].resume = 0
    <3>1. j \in 1 .. n
      BY <1>2
    <3> QED BY <1>4, <1>6, <1>8, <3>1 DEF Unwinding
  <2>4. ASSUME NEW j \in i + 1 .. n, new[j].unwind
        PROVE  new[j].cleaned = 1
    <3>1. j \in 1 .. n /\ j # i
      BY <1>2
    <3> QED BY <1>4, <1>6, <1>8, <2>4, <3>1 DEF Unwinding
  <2>5. ASSUME NEW j \in t + 1 .. n, new[j].unwind, new[j].cleaned = 0, NEW l \in t + 1 .. j - 1
        PROVE  new[l].cleaned = 0
    <3>1. j \in 1 .. n /\ l \in 1 .. n /\ j # i /\ (j < i \/ j \in i + 1 .. n)
      <4>1. n \in Nat /\ t \in Nat /\ i \in Nat /\ j # i
        BY <1>2, <1>6, <2>5
      <4> HIDE DEF n, t, i
      <4> QED BY <4>1
    <3>2. frames[j].unwind /\ frames[j].cleaned = 0
      BY <1>6, <1>8, <2>5, <3>1
    <3>3. ~(j \in i + 1 .. n)
      BY <1>4, <3>2 DEF Unwinding
    <3>4. l # i
      BY <1>2, <3>1, <3>3
    <3> QED BY <1>4, <1>6, <1>8, <2>5, <3>1, <3>2, <3>4 DEF Unwinding
  <2>6. t \in 1 .. i
    BY <1>2, <2>1
  <2> QED BY <2>2, <2>3, <2>4, <2>5, <2>6 DEF Unwinding, Regular
<1>10. HandlerRuns(new, d)
  <2>1. Len(new) \in 1 .. Len(frames) /\ new[Len(new)] = frames[Len(frames)]
    BY <1>2, <1>4, <1>5, <1>6
  <2> QED BY <1>2, <1>3, <1>4, <1>6, <1>7, <1>9, <2>1 DEF HandlerRuns, Going
<1>11. ExcInv'
  BY <1>1, <1>2, <1>6, <1>10 DEF ExcInv, Innermost, new, d
<1> QED BY <1>1, <1>11 DEF CleanStep

LEMMA AdvanceKeeps ==
  ASSUME ExcInv, executing = "handler", NEW disposition,
         disposition = "ContinueExecution" => Innermost.phase = "search",
         disposition # "ContinueExecution" =>
            IF Innermost.phase = "search" THEN frames[Arguments.frame].resume = 0
            ELSE frames[Arguments.frame].cleaned > 0,
         exc_advance(Below(Top - 1), disposition)
  PROVE  ExcInv' /\ CleanStep
<1> DEFINE d == Innermost
           n == d.orig
           i == d.work + 1
           fs == Below(Top - 1)
<1>1. /\ HandlerRuns(frames, d) /\ exc_stack # <<>> /\ Others \in Seq(Dispatches)
      /\ Body(fs, n) /\ Len(fs) = Top - 1 /\ \A j \in 1 .. n : fs[j] = frames[j]
      /\ Arguments = Handler(d, i)
      /\ n \in Nat /\ d.work \in Nat /\ i \in 1 .. n /\ n \in 1 .. Top - 1 /\ Top \in Nat
  BY HandlerGone
<1>2. IF d.phase = "search" /\ disposition = "ContinueExecution"
      THEN frames' = SubSeq(fs, 1, n) /\ exc_stack' = <<>> /\ executing' = "body"
      ELSE pump_dispatch(fs, Others, d)
  BY <1>1 DEF exc_advance
<1>3. /\ d \in Dispatches /\ Body(frames, n) /\ d.base = Top - 1 /\ Going(frames, d, i)
      /\ d.phase = "unwind" => d.target <= d.work
      /\ frames \in Seq(Frames) /\ Arguments.frame = i
  BY <1>1 DEF HandlerRuns, Body, Top, Handler
<1> HIDE DEF d, fs
<1>4. CASE d.phase = "search" /\ disposition = "ContinueExecution"
  <2>1. Regular(frames, n)
    BY <1>3, <1>4 DEF Going, Searching
  <2>2. Regular(fs, n)
    <3> SUFFICES ASSUME NEW k \in 1 .. n
                 PROVE  Settled(fs, k)
      BY DEF Regular
    <3>1. Settled(frames, k) /\ fs[k] = frames[k] /\ frames[k].resume \in Nat
      BY <1>1, <1>3, <2>1 DEF Regular, Body, FunctionFrames
    <3>2. \A j \in frames[k].resume + 1 .. k - 1 : fs[j] = frames[j]
      <4>1. \A x \in Nat : \A j \in x + 1 .. k - 1 : j \in Nat \ {0}
        OBVIOUS
      <4>2. \A j \in frames[k].resume + 1 .. k - 1 : j \in Nat \ {0} /\ j < k
        BY <3>1, <4>1
      <4>3. \A j \in frames[k].resume + 1 .. k - 1 : j \in 1 .. n
        BY <1>1, <4>2
      <4> QED BY <1>1, <1>3, <4>3
    <3> QED BY <3>1, <3>2 DEF Settled
  <2>3. Body(frames', n) /\ Regular(frames', n) /\ Len(frames') = n
    <3>1. n \in Nat \ {0} /\ n <= n /\ frames' = SubSeq(fs, 1, n)
      BY <1>1, <1>2, <1>4
    <3> HIDE DEF n
    <3> QED BY <1>1, <2>2, <3>1, FewerFrames
  <2>4. <<>> \in Seq(Dispatches)
    BY EmptySeq
  <2>5. ExcInv'
    BY <1>2, <1>4, <2>3, <2>4 DEF ExcInv, Top, Body
  <2> QED BY <1>2, <1>4, <2>5 DEF CleanStep
<1>5. CASE ~(d.phase = "search" /\ disposition = "ContinueExecution")
  <2>1. IF d.phase = "search" THEN frames[i].resume = 0
        ELSE frames[i].unwind => frames[i].cleaned = 1
    <3>1. frames[i].cleaned \in {0, 1}
      BY <1>1, <1>3 DEF Body, FunctionFrames
    <3>2. disposition # "ContinueExecution"
      BY <1>5 DEF d
    <3>3. IF d.phase = "search" THEN frames[i].resume = 0 ELSE frames[i].cleaned > 0
      BY <1>3, <3>2 DEF d
    <3> QED BY <3>1, <3>3
  <2>2. Going(fs, d, d.work) /\ Alike(fs, d)
    <3>1. d.work + 1 <= d.orig
      BY <1>1
    <3> QED BY <1>1, <1>3, <2>1, <3>1, GoesOn
  <2>3. d.work <= d.orig /\ d.base >= d.orig /\ d.base <= Len(fs)
    BY <1>1, <1>3
  <2>4. pump_dispatch(fs, Others, d)
    BY <1>2, <1>5
  <2> QED BY <1>1, <1>3, <2>2, <2>3, <2>4, PumpRight
<1> QED BY <1>4, <1>5

LEMMA SearchKeeps ==
  ASSUME ExcInv, SearchHandler
  PROVE  ExcInv' /\ CleanStep
<1> DEFINE d == Innermost
           n == d.orig
           i == d.work + 1
           e == DispatchFrame("unwind", n, i)
<1>0. executing = "handler" /\ Arguments.phase = "search"
  BY DEF SearchHandler, InHandler, Arguments
<1>1. /\ HandlerRuns(frames, d) /\ exc_stack # <<>> /\ Arguments = Handler(d, i)
      /\ n \in Nat /\ d.work \in Nat /\ i \in 1 .. n /\ n \in 1 .. Top - 1 /\ Top \in Nat
  BY <1>0, HandlerGone
<1> HIDE DEF d
<1>2. Arguments.frame = i /\ Arguments.orig = n /\ d.phase = "search"
  BY <1>0, <1>1 DEF Handler
<1>3. /\ frames \in Seq(Frames) /\ Body(frames, n) /\ Searching(frames, n, i) /\ Len(frames) = Top
  BY <1>1, <1>2 DEF HandlerRuns, Going, Body, Top
<1>4. \/ /\ frames[i].resume = 0
         /\ \/ \E disposition \in {"ContinueSearch", "ContinueExecution"} :
                   exc_advance(Below(Top - 1), disposition)
            \/ pump_dispatch(frames, exc_stack, e)
      \/ finish_dispatch(frames)
  BY <1>2 DEF SearchHandler, rtl_unwind_ex
<1>5. ASSUME frames[i].resume = 0, NEW disposition, exc_advance(Below(Top - 1), disposition)
      PROVE  ExcInv' /\ CleanStep
  <2>1. Innermost.phase = "search" /\ frames[Arguments.frame].resume = 0
    BY <1>2, <1>5 DEF d
  <2> QED BY <1>0, <1>5, <2>1, AdvanceKeeps
<1>6. CASE frames[i].resume = 0 /\ pump_dispatch(frames, exc_stack, e)
  <2>1. /\ e \in Dispatches /\ e.phase = "unwind" /\ e.orig = n /\ e.work = n /\ e.base = Top /\ e.target = i
    BY <1>1 DEF DispatchFrame, Dispatches
  <2> HIDE DEF e
  <2>2. \A j \in i .. n : frames[j].resume = 0 /\ frames[j].cleaned = 0
    <3> SUFFICES ASSUME NEW j \in i .. n
                 PROVE  frames[j].resume = 0 /\ frames[j].cleaned = 0
      OBVIOUS
    <3>1. j \in 1 .. n /\ (j = i \/ j \in i + 1 .. n)
      BY <1>1
    <3>2. frames[j].resume = 0
      BY <1>3, <1>6, <3>1 DEF Searching
    <3> QED BY <1>3, <3>1, <3>2 DEF Searching, Regular, Settled
  <2>3. Unwinding(frames, n, i, n)
    <3>1. \A k \in 1 .. i : k \in 1 .. n
      BY <1>1
    <3>2. Regular(frames, i)
      BY <1>3, <3>1 DEF Searching, Regular
    <3>3. \A j \in i + 1 .. n : j \in i .. n /\ \A l \in i + 1 .. j - 1 : l \in i .. n
      BY <1>1
    <3>4. i \in 1 .. n /\ \A j \in n + 1 .. n : FALSE
      BY <1>1
    <3> HIDE DEF i, n
    <3> QED BY <2>2, <3>2, <3>3, <3>4 DEF Unwinding
  <2>4. Going(frames, e, e.work) /\ Alike(frames, e)
    BY <2>1, <2>3 DEF Going, Alike
  <2>5. e.work <= e.orig /\ e.base >= e.orig /\ e.base <= Len(frames) /\ exc_stack \in Seq(Dispatches)
    BY <1>1, <1>3, <2>1 DEF ExcInv
  <2> QED BY <1>3, <1>6, <2>1, <2>4, <2>5, PumpRight
<1>7. CASE finish_dispatch(frames)
  <2>1. <<>> \in Seq(Dispatches)
    BY EmptySeq
  <2> QED BY <1>3, <1>7, <2>1 DEF finish_dispatch, ExcInv, CleanStep
<1> QED BY <1>4, <1>5, <1>6, <1>7

LEMMA HandlerReturnsKeeps ==
  ASSUME ExcInv, HandlerReturns
  PROVE  ExcInv' /\ CleanStep
<1>1. /\ executing = "handler" /\ Arguments.phase = "unwind" /\ frames[Arguments.frame].cleaned > 0
      /\ exc_advance(Below(Top - 1), "ContinueSearch")
  BY DEF HandlerReturns, InHandler, Arguments
<1>2. Innermost.phase = "unwind"
  <2>1. Arguments = Handler(Innermost, Innermost.work + 1)
    BY <1>1, HandlerGone
  <2> QED BY <1>1, <2>1 DEF Handler
<1> QED BY <1>1, <1>2, AdvanceKeeps

LEMMA LandsKeeps ==
  ASSUME ExcInv, HandlerLands
  PROVE  ExcInv' /\ CleanStep
<1> DEFINE d == Innermost
           n == d.orig
           i == d.work + 1
           t == d.target
           fs == [frames EXCEPT ![i].cleaned = 1, ![i].resume = t]
           e == [phase |-> "unwind", work |-> n, orig |-> n, base |-> Top, target |-> i]
<1>1. /\ executing = "handler" /\ Arguments.phase = "unwind"
  BY DEF HandlerLands, InHandler, Arguments
<1>2. /\ HandlerRuns(frames, d) /\ exc_stack # <<>> /\ Arguments = Handler(d, i)
      /\ n \in Nat /\ d.work \in Nat /\ i \in 1 .. n /\ t \in Nat /\ n \in 1 .. Top - 1 /\ Top \in Nat
  BY <1>1, HandlerGone
<1> HIDE DEF d
<1>3. Arguments.frame = i /\ Arguments.orig = n /\ d.phase = "unwind" /\ Arguments.target = t
  BY <1>1, <1>2 DEF Handler
<1>4. /\ frames[i].cleaned = 0 /\ frames[i].search
      /\ pump_dispatch(fs, exc_stack, e)
  BY <1>3 DEF HandlerLands, rtl_unwind_ex, DispatchFrame
<1>5. /\ d \in Dispatches /\ Body(frames, n) /\ Unwinding(frames, n, t, i)
      /\ t <= d.work /\ frames[i].unwind /\ frames \in Seq(Frames) /\ Len(frames) = Top
  BY <1>2, <1>3 DEF HandlerRuns, Going, Body, Top
<1>6. i \in 1 .. Len(frames) /\ frames[i] \in FunctionFrames
  BY <1>2, <1>5 DEF Body
<1>7. /\ fs \in Seq(Frames) /\ Len(fs) = Len(frames)
      /\ \A j \in 1 .. Len(frames) : j # i => fs[j] = frames[j]
      /\ fs[i] \in FunctionFrames /\ fs[i].search = frames[i].search /\ fs[i].unwind = frames[i].unwind
      /\ fs[i].cleaned = 1 /\ fs[i].resume = t
  <2>1. 1 \in {0, 1}
    OBVIOUS
  <2> HIDE DEF i, t
  <2>2. fs = [frames EXCEPT ![i].cleaned = 1, ![i].resume = t]
    OBVIOUS
  <2> HIDE DEF fs
  <2>3. FrameChanged(frames, i, fs, 1, t)
    BY <1>2, <1>5, <1>6, <2>1, <2>2, FrameChanges
  <2> QED BY <2>3 DEF FrameChanged
<1> HIDE DEF fs
<1>8. Body(fs, n)
  BY <1>2, <1>5, <1>7, BodyChanges
<1>9. \A j \in 1 .. n : j \in 1 .. Len(frames)
  BY <1>2, <1>5
<1>10. t \in 1 .. d.work /\ t < i
  BY <1>2, <1>5 DEF Unwinding
<1>11. ASSUME NEW k \in 1 .. i
       PROVE  Settled(fs, k)
  <2>1. CASE k = i
    <3>1. ASSUME NEW j \in t + 1 .. i - 1
          PROVE  fs[j].resume = 0
      <4>1. j \in 1 .. n /\ j \in t + 1 .. n /\ j # i
        BY <1>2, <1>10
      <4> QED BY <1>5, <1>7, <1>9, <4>1 DEF Unwinding
    <3>2. t # 0
      BY <1>10
    <3> QED BY <1>4, <1>5, <1>7, <1>10, <2>1, <3>1, <3>2 DEF Settled
  <2>2. CASE k \in 1 .. t
    <3>1. Settled(frames, k) /\ k \in 1 .. n /\ k # i
      BY <1>2, <1>5, <1>10, <2>2 DEF Unwinding, Regular
    <3>2. fs[k] = frames[k] /\ frames[k].resume \in Nat
      BY <1>5, <1>7, <1>9, <3>1 DEF Body, FunctionFrames
    <3>3. \A j \in frames[k].resume + 1 .. k - 1 : j \in 1 .. n /\ j # i
      BY <1>2, <3>1, <3>2
    <3>4. \A j \in frames[k].resume + 1 .. k - 1 : fs[j] = frames[j]
      BY <1>7, <1>9, <3>3
    <3> QED BY <3>1, <3>2, <3>4 DEF Settled
  <2>3. CASE k \in t + 1 .. i - 1
    <3>1. k \in 1 .. n /\ k \in t + 1 .. n /\ k # i /\ i \in t + 1 .. n
      BY <1>2, <1>10, <2>3
    <3>2. frames[k].resume = 0 /\ frames[k].cleaned = 0
      BY <1>4, <1>5, <2>3, <3>1 DEF Unwinding
    <3> QED BY <1>7, <1>9, <3>1, <3>2 DEF Settled
  <2> QED BY <1>2, <1>10, <2>1, <2>2, <2>3
<1>12. Unwinding(fs, n, i, n)
  <2>1. \A j \in i + 1 .. n : j \in 1 .. n /\ j # i /\ j \in t + 1 .. n
    BY <1>2, <1>10
  <2>2. \A j \in i + 1 .. n : fs[j] = frames[j] /\ frames[j].resume = 0 /\ (frames[j].unwind => frames[j].cleaned = 1)
    BY <1>5, <1>7, <1>9, <2>1 DEF Unwinding
  <2>3. i \in 1 .. n /\ \A j \in n + 1 .. n : FALSE
    BY <1>2
  <2>4. Regular(fs, i)
    BY <1>11 DEF Regular
  <2> HIDE DEF i, n
  <2> QED BY <2>2, <2>3, <2>4 DEF Unwinding
<1>13. Going(fs, e, e.work) /\ Alike(fs, e)
  <2>1. \A j \in 1 .. n : /\ fs[j].search = frames[j].search /\ fs[j].unwind = frames[j].unwind
                          /\ j # i => fs[j].cleaned = frames[j].cleaned
    BY <1>7, <1>9
  <2> HIDE DEF i, n
  <2> QED BY <1>12, <2>1 DEF Going, Alike
<1>14. /\ e \in Dispatches /\ e.orig = n
       /\ e.work <= e.orig /\ e.base >= e.orig /\ e.base <= Len(fs) /\ exc_stack \in Seq(Dispatches)
  BY <1>2, <1>5, <1>7, SMTT(20) DEF Dispatches, ExcInv
<1> HIDE DEF e
<1> QED BY <1>4, <1>5, <1>8, <1>13, <1>14, PumpRight

LEMMA ResumeKeeps ==
  ASSUME ExcInv, UnwindResume
  PROVE  ExcInv' /\ CleanStep
<1> DEFINE n == Len(frames)
           t == frames[n].resume
           fs == [frames EXCEPT ![n].resume = 0]
           e == [phase |-> "unwind", work |-> n, orig |-> n, base |-> n, target |-> t]
<1>1. executing \in {"body", "landed"} /\ t # 0 /\ rtl_unwind_ex(fs, n, t)
  BY DEF UnwindResume, InFunction, Top
<1>2. pump_dispatch(fs, exc_stack, e)
  BY <1>1 DEF rtl_unwind_ex, DispatchFrame, Top
<1>3. /\ Body(frames, n) /\ Regular(frames, n) /\ n \in Nat /\ n \in 1 .. n /\ frames \in Seq(Frames)
  BY <1>1, LenProperties DEF ExcInv, Top, Body
<1>4. /\ frames[n] \in FunctionFrames /\ t \in Nat /\ frames[n].cleaned = 1 /\ t < n
      /\ \A j \in t + 1 .. n - 1 : frames[j].resume = 0
  BY <1>1, <1>3 DEF Body, Regular, Settled, FunctionFrames
<1>5. /\ fs \in Seq(Frames) /\ Len(fs) = n
      /\ \A j \in 1 .. n : j # n => fs[j] = frames[j]
      /\ fs[n] \in FunctionFrames /\ fs[n].search = frames[n].search /\ fs[n].unwind = frames[n].unwind
      /\ fs[n].cleaned = 1 /\ fs[n].resume = 0
  <2>1. frames[n].cleaned \in {0, 1} /\ n \in 1 .. Len(frames)
    BY <1>3, <1>4
  <2>2. fs = [frames EXCEPT ![n].resume = 0] /\ frames \in Seq(Frames) /\ frames[n] \in FunctionFrames
    BY <1>3, <1>4
  <2>3. frames[n].cleaned \in {0, 1} /\ 1 \in {0, 1} /\ 0 \in Nat /\ frames[n].cleaned = 1
    BY <1>4
  <2>4. Len(frames) = n
    OBVIOUS
  <2>5. n \in 1 .. Len(frames)
    BY <2>1
  <2> HIDE DEF fs, n
  <2>6. FrameChanged(frames, n, fs, 1, 0)
    BY <2>2, <2>3, <2>5, FrameChanges
  <2> QED BY <2>4, <2>6 DEF FrameChanged
<1> HIDE DEF fs, t
<1>6. Body(fs, n)
  <2>1. n \in 1 .. n /\ Len(fs) = Len(frames) /\ \A j \in 1 .. Len(frames) : j # n => fs[j] = frames[j]
    BY <1>3, <1>5
  <2> HIDE DEF n
  <2> QED BY <1>3, <1>5, <2>1, BodyChanges
<1> HIDE DEF n
<1>7. t \in 1 .. n /\ t \in 1 .. n - 1
  BY <1>1, <1>3, <1>4
<1>8. ASSUME NEW k \in 1 .. t
      PROVE  Settled(fs, k)
  <2>1. Settled(frames, k) /\ k \in 1 .. n /\ k # n
    BY <1>3, <1>4 DEF Regular
  <2>2. fs[k] = frames[k] /\ frames[k].resume \in Nat
    BY <1>3, <1>5, <2>1 DEF Body, FunctionFrames
  <2>3. \A j \in frames[k].resume + 1 .. k - 1 : fs[j] = frames[j]
    BY <1>3, <1>5, <2>1, <2>2
  <2> QED BY <2>1, <2>2, <2>3 DEF Settled
<1>9. ASSUME NEW j \in t + 1 .. n
      PROVE  fs[j].resume = 0 /\ (j # n => fs[j].cleaned = 0)
  <2>1. CASE j = n
    BY <1>5, <2>1
  <2>2. CASE j # n
    <3>1. j \in t + 1 .. n - 1 /\ j \in 1 .. n
      BY <1>3, <1>4, <2>2
    <3> QED BY <1>3, <1>4, <1>5, <2>2, <3>1 DEF Regular, Settled
  <2> QED BY <2>1, <2>2
<1>10. Unwinding(fs, n, t, n)
  <2>1. \A j \in n + 1 .. n : FALSE
    BY <1>3
  <2>2. Regular(fs, t)
    BY <1>8 DEF Regular
  <2>3. ASSUME NEW j \in t + 1 .. n, NEW l \in t + 1 .. j - 1
        PROVE  fs[l].cleaned = 0
    <3>1. l \in t + 1 .. n /\ l # n
      BY <1>3, <1>4
    <3> QED BY <1>9, <3>1
  <2> QED BY <1>7, <1>9, <2>1, <2>2, <2>3 DEF Unwinding
<1>11. Going(fs, e, e.work) /\ Alike(fs, e)
  <2>1. \A j \in 1 .. n : /\ fs[j].search = frames[j].search /\ fs[j].unwind = frames[j].unwind
                          /\ fs[j].cleaned = frames[j].cleaned
    BY <1>4, <1>5
  <2> QED BY <1>10, <2>1 DEF Going, Alike
<1>12. /\ e \in Dispatches /\ e.orig = n
       /\ e.work <= e.orig /\ e.base >= e.orig /\ e.base <= Len(fs) /\ exc_stack \in Seq(Dispatches)
  BY <1>3, <1>4, <1>5 DEF Dispatches, ExcInv
<1> HIDE DEF e
<1> QED BY <1>2, <1>3, <1>6, <1>11, <1>12, PumpRight

LEMMA ExcStarts == ExcInit => ExcInv
<1> SUFFICES ASSUME ExcInit
             PROVE  ExcInv
  OBVIOUS
<1> DEFINE f == Function(FALSE, FALSE)
<1>1. f \in FunctionFrames /\ f.resume = 0 /\ f.cleaned = 0
  BY DEF Function, FunctionFrames
<1> HIDE DEF f
<1>2. frames = <<f>> /\ exc_stack = <<>> /\ executing = "body"
  BY DEF ExcInit, f
<1>3. frames \in Seq(Frames) /\ Len(frames) = 1 /\ frames[1] = f
  BY <1>1, <1>2 DEF Frames
<1>4. Body(frames, Top) /\ Regular(frames, Top)
  BY <1>1, <1>3 DEF Body, Regular, Settled, Top
<1> QED BY <1>2, <1>3, <1>4 DEF ExcInv

LEMMA ExcSteps ==
  ASSUME ExcInv, ~HandlersRaise, [ExcNext]_excVars
  PROVE  ExcInv' /\ (CleanStep \/ UNCHANGED excVars)
<1>1. CASE ExcNext
  BY <1>1, CallKeeps, ReturnKeeps, RaiseKeeps, SearchKeeps, CleansKeeps, HandlerReturnsKeeps, LandsKeeps,
     ResumeKeeps DEF ExcNext
<1>2. CASE UNCHANGED excVars
  BY <1>2 DEF excVars, ExcInv, Top, Innermost
<1> QED BY <1>1, <1>2

(* RtlUnwindEx and the resumptions after it run every cleanup of the frames *)
(* they leave, each once, before execution lands (os/src/exc.rs,            *)
(* pump_dispatch, rtl_unwind_ex), while what handlers call raises nothing.  *)
THEOREM CleanupsRunOnce == ~HandlersRaise => (ExcSpec => CleanupsRun)
<1> SUFFICES ASSUME ~HandlersRaise
             PROVE  ExcSpec => CleanupsRun
  OBVIOUS
<1>1. ExcInv /\ [ExcNext]_excVars => ExcInv'
  BY ExcSteps
<1>2. ExcInv /\ [ExcNext]_excVars =>
        [executing' = "landed" =>
          /\ \A i \in DOMAIN frames \ DOMAIN frames' :
                IsFunction(i) /\ frames[i].unwind =>
                   frames[i].cleaned = 1
          /\ \A i \in DOMAIN frames' :
                frames'[i].kind = "function" =>
                   frames'[i].cleaned = IF frames'[i].resume = 0 THEN 0 ELSE 1]_excVars
  BY ExcSteps DEF CleanStep
<1> QED BY <1>1, <1>2, ExcStarts, PTL DEF ExcSpec, CleanupsRun

(* And a handler that returns finds the dispatch that called it on top of   *)
(* the stack of dispatches (exc_advance pops exc_stack's last), while what  *)
(* handlers call raises nothing.                                            *)
THEOREM DispatchesAreKept == ~HandlersRaise => (ExcSpec => []DispatchIsKept)
<1> SUFFICES ASSUME ~HandlersRaise
             PROVE  ExcSpec => []DispatchIsKept
  OBVIOUS
<1>1. ExcInv /\ [ExcNext]_excVars => ExcInv'
  BY ExcSteps
<1>2. ExcInv => DispatchIsKept
  BY DEF ExcInv, DispatchIsKept
<1> QED BY <1>1, <1>2, ExcStarts, PTL DEF ExcSpec

-----------------------------------------------------------------------------
(* DllMain is called in order.                                               *)

\* There is no least number up to N that is not in G.
LEMMA UpToLast ==
  ASSUME NEW N \in Nat, NEW G, 0 \in G, \A n \in 0 .. N - 1 : n \in G => n + 1 \in G
  PROVE  \A n \in 0 .. N : n \in G
<1> DEFINE Bad == {n \in 0 .. N : n \notin G}
           R == {ss \in Nat \X Nat : ss[1] < ss[2]}
<1>1. ASSUME Bad # {}
      PROVE  FALSE
  <2>1. PICK m \in Bad : \A k \in Bad : ~(<<k, m>> \in R)
    <3>1. Bad \subseteq Nat
      OBVIOUS
    <3> HIDE DEF R, Bad
    <3>2. IsWellFoundedOn(R, Nat)
      BY NatLessThanWellFounded DEF R, OpToRel
    <3> QED BY <1>1, <3>1, <3>2, WFMin
  <2>2. m \in 0 .. N /\ m # 0 /\ m \notin G
    BY <2>1
  <2>3. m - 1 \in 0 .. N - 1 /\ <<m - 1, m>> \in R
    BY <2>2
  <2>4. m - 1 \in G
    BY <2>1, <2>3
  <2>5. (m - 1) + 1 \in G
    BY <2>3, <2>4
  <2> QED BY <2>2, <2>5
<1> QED BY <1>1

\* The tables after each import.
AfterIs(f, load, begun, imports, missing, n) ==
    f = [k \in 0 .. n |-> IF k = 0 THEN begun
                          ELSE IF k \in missing THEN load[imports[k]][f[k - 1]] ELSE f[k - 1]]

LEMMA AfterExists ==
  ASSUME NEW load, NEW begun, NEW imports, NEW missing, NEW N \in Nat
  PROVE  \E f : AfterIs(f, load, begun, imports, missing, N)
<1> DEFINE G == {n \in 0 .. N : \E f : AfterIs(f, load, begun, imports, missing, n)}
<1>1. \E f : AfterIs(f, load, begun, imports, missing, 0)
  <2> DEFINE f == [k \in 0 .. 0 |-> begun]
  <2>1. f = [k \in 0 .. 0 |-> IF k = 0 THEN begun
                              ELSE IF k \in missing THEN load[imports[k]][f[k - 1]] ELSE f[k - 1]]
    OBVIOUS
  <2> QED BY <2>1 DEF AfterIs
<1>2. ASSUME NEW n \in 0 .. N - 1, NEW f, AfterIs(f, load, begun, imports, missing, n)
      PROVE  \E g : AfterIs(g, load, begun, imports, missing, n + 1)
  <2> DEFINE last == IF n + 1 \in missing THEN load[imports[n + 1]][f[n]] ELSE f[n]
             g == [k \in 0 .. n + 1 |-> IF k = n + 1 THEN last ELSE f[k]]
  <2>1. \A k \in 0 .. n : f[k] = IF k = 0 THEN begun
                                 ELSE IF k \in missing THEN load[imports[k]][f[k - 1]] ELSE f[k - 1]
    BY <1>2 DEF AfterIs
  <2>2. \A k \in 0 .. n + 1 : g[k] = IF k = n + 1 THEN last ELSE f[k]
    OBVIOUS
  <2>3. n \in 0 .. n + 1 /\ n + 1 \in 0 .. n + 1 /\ n # n + 1 /\ n + 1 # 0 /\ (n + 1) - 1 = n
    OBVIOUS
  <2>4. \A k \in 0 .. n : k \in 0 .. n + 1 /\ k # n + 1 /\
                            (k # 0 => k - 1 \in 0 .. n /\ k - 1 \in 0 .. n + 1 /\ k - 1 # n + 1)
    OBVIOUS
  <2>5. \A k \in 0 .. n + 1 : k # n + 1 => k \in 0 .. n
    OBVIOUS
  <2> HIDE DEF g, last
  <2>6. g[n] = f[n] /\ g[n + 1] = last /\ \A k \in 0 .. n : g[k] = f[k]
    BY <2>2, <2>3, <2>4
  <2>7. \A k \in 0 .. n + 1 :
           g[k] = IF k = 0 THEN begun
                  ELSE IF k \in missing THEN load[imports[k]][g[k - 1]] ELSE g[k - 1]
    <3>1. ASSUME NEW k \in 0 .. n
          PROVE  g[k] = IF k = 0 THEN begun
                        ELSE IF k \in missing THEN load[imports[k]][g[k - 1]] ELSE g[k - 1]
      <4>1. CASE k = 0
        BY <2>1, <2>6, <4>1
      <4>2. CASE k # 0
        <5>1. g[k - 1] = f[k - 1] /\ g[k] = f[k]
          BY <2>4, <2>6, <4>2
        <5> QED BY <2>1, <4>2, <5>1
      <4> QED BY <4>1, <4>2
    <3>2. g[n + 1] = IF n + 1 \in missing THEN load[imports[n + 1]][g[n]] ELSE g[n]
      BY <2>6 DEF last
    <3> QED BY <2>3, <2>5, <3>1, <3>2
  <2>8. g = [k \in 0 .. n + 1 |-> g[k]]
    BY DEF g
  <2>9. g = [k \in 0 .. n + 1 |-> IF k = 0 THEN begun
                                   ELSE IF k \in missing THEN load[imports[k]][g[k - 1]] ELSE g[k - 1]]
    BY <2>7, <2>8
  <2> QED BY <2>9 DEF AfterIs
<1>3. 0 \in G /\ \A n \in 0 .. N - 1 : n \in G => n + 1 \in G
  <2>1. \A n \in 0 .. N - 1 : n \in 0 .. N /\ n + 1 \in 0 .. N
    OBVIOUS
  <2> QED BY <1>1, <1>2, <2>1
<1> HIDE DEF G
<1>4. N \in G
  BY <1>3, UpToLast
<1> QED BY <1>4 DEF G

LEMMA AfterImports ==
  ASSUME NEW load, NEW begun, NEW name, NEW n \in Nat, n = Len(Imports[name]),
         NEW f, f = ImportsOf(load, begun, name)
  PROVE  AfterIs(f, load, begun, Imports[name], Missing(begun, name), n)
<1> DEFINE body(g) == [k \in 0 .. n |-> IF k = 0 THEN begun
                         ELSE IF k \in Missing(begun, name) THEN load[Imports[name][k]][g[k - 1]] ELSE g[k - 1]]
           t == CHOOSE g : g = body(g)
<1>1. f = t
  BY DEF ImportsOf
<1>2. PICK g : AfterIs(g, load, begun, Imports[name], Missing(begun, name), n)
  BY AfterExists
<1>3. g = body(g)
  BY <1>2 DEF AfterIs
<1> HIDE DEF body
<1>4. t = body(t)
  BY <1>3
<1> QED BY <1>1, <1>4 DEF body, AfterIs

\* What loading makes of the tables, by depth.
DepthsAre(f, least, n) == f = [d \in 0 .. n |-> IF d = 0 THEN least ELSE Loads(f[d - 1])]

LEMMA LoadsExist ==
  ASSUME NEW N \in Nat, NEW least
  PROVE  \E f : DepthsAre(f, least, N)
<1> DEFINE Is(f, n) == f = [d \in 0 .. n |-> IF d = 0 THEN least ELSE Loads(f[d - 1])]
           G == {n \in 0 .. N : \E f : Is(f, n)}
<1>1. \E f : Is(f, 0)
  <2> DEFINE f == [d \in 0 .. 0 |-> least]
  <2>1. f = [d \in 0 .. 0 |-> IF d = 0 THEN least ELSE Loads(f[d - 1])]
    OBVIOUS
  <2> QED BY <2>1
<1>2. ASSUME NEW n \in 0 .. N - 1, NEW f, Is(f, n)
      PROVE  \E g : Is(g, n + 1)
  <2> DEFINE g == [d \in 0 .. n + 1 |-> IF d = n + 1 THEN Loads(f[n]) ELSE f[d]]
  <2>1. \A d \in 0 .. n : f[d] = IF d = 0 THEN least ELSE Loads(f[d - 1])
    BY <1>2
  <2>2. \A d \in 0 .. n + 1 : g[d] = IF d = n + 1 THEN Loads(f[n]) ELSE f[d]
    OBVIOUS
  <2>3. n \in 0 .. n + 1 /\ n + 1 \in 0 .. n + 1 /\ n # n + 1 /\ n + 1 # 0 /\ (n + 1) - 1 = n
    OBVIOUS
  <2>4. \A d \in 0 .. n : d \in 0 .. n + 1 /\ d # n + 1 /\ (d # 0 => d - 1 \in 0 .. n)
    OBVIOUS
  <2>5. \A d \in 0 .. n + 1 : d # n + 1 => d \in 0 .. n
    OBVIOUS
  <2>8. g = [d \in 0 .. n + 1 |-> g[d]]
    OBVIOUS
  <2> HIDE DEF g
  <2>6. g[n] = f[n] /\ g[n + 1] = Loads(f[n]) /\ \A d \in 0 .. n : g[d] = f[d]
    BY <2>2, <2>3, <2>4
  <2>7. \A d \in 0 .. n + 1 : g[d] = IF d = 0 THEN least ELSE Loads(g[d - 1])
    <3>1. ASSUME NEW d \in 0 .. n
          PROVE  g[d] = IF d = 0 THEN least ELSE Loads(g[d - 1])
      <4>1. CASE d = 0
        BY <2>1, <2>6, <4>1
      <4>2. CASE d # 0
        <5>1. g[d - 1] = f[d - 1] /\ g[d] = f[d]
          BY <2>4, <2>6, <4>2
        <5> QED BY <2>1, <4>2, <5>1
      <4> QED BY <4>1, <4>2
    <3> QED BY <2>3, <2>5, <2>6, <3>1
  <2>9. g = [d \in 0 .. n + 1 |-> IF d = 0 THEN least ELSE Loads(g[d - 1])]
    BY <2>7, <2>8
  <2> QED BY <2>9
<1>3. 0 \in G /\ \A n \in 0 .. N - 1 : n \in G => n + 1 \in G
  <2>1. \A n \in 0 .. N - 1 : n \in 0 .. N /\ n + 1 \in 0 .. N
    OBVIOUS
  <2> HIDE DEF Is
  <2> QED BY <1>1, <1>2, <2>1
<1> HIDE DEF G
<1>4. N \in G
  BY <1>3, UpToLast
<1> QED BY <1>4 DEF G, DepthsAre

NoLoad == [name \in DllNames |-> [l \in Loader |-> l]]

LEMMA LoadPluginIs ==
  \A d \in 0 .. Arena : load_plugin[d] = IF d = 0 THEN NoLoad ELSE Loads(load_plugin[d - 1])
<1> DEFINE body(f) == [d \in 0 .. Arena |-> IF d = 0 THEN NoLoad ELSE Loads(f[d - 1])]
           t == CHOOSE f : f = body(f)
<1>1. Arena \in Nat
  BY DllsAssumption
<1>2. load_plugin = t
  BY DEF load_plugin, NoLoad
<1>3. PICK f : f = body(f)
  <2>1. PICK least, N : least = NoLoad /\ N = Arena
    OBVIOUS
  <2>2. PICK f : DepthsAre(f, least, N)
    BY <1>1, <2>1, LoadsExist
  <2>3. f = body(f)
    BY <2>1, <2>2 DEF DepthsAre
  <2> HIDE DEF body
  <2> QED BY <2>3
<1>4. t = body(t)
  <2> HIDE DEF body
  <2> QED BY <1>3
<1>5. PICK g : g = load_plugin
  OBVIOUS
<1>6. g = body(g)
  BY <1>2, <1>4, <1>5
<1>7. \A d \in 0 .. Arena : g[d] = IF d = 0 THEN NoLoad ELSE Loads(g[d - 1])
  BY <1>6
<1> QED BY <1>5, <1>7

-----------------------------------------------------------------------------
(* What a load does to the tables.  Nothing stands before what it is bound to *)
(* (Placed), what is no longer loading is there (Named), and the images since *)
(* the load began are those whose DllMain is pending, in that order           *)
(* (LoaderRight).  Every load adds to that and changes nothing (Grown).       *)
Placed(is) ==
    /\ \A i, j \in DOMAIN is : is[i].base = is[j].base => i = j
    /\ \A i \in DOMAIN is : \A b \in is[i].bound : \E j \in 1 .. i - 1 : is[j].base = b
Named(is, names, loading) ==
    \A d \in DllNames \ loading : names[d] # Unloaded => \E i \in DOMAIN is : is[i].base = names[d]

LoaderRight(l, from) ==
    /\ l \in Loader
    /\ Placed(l.images) /\ Named(l.images, l.by_name, l.loading)
    /\ \A i \in DOMAIN l.images : l.images[i].base <= l.mapped
    /\ Len(l.pending) = Len(l.images) - from
    /\ \A k \in DOMAIN l.pending : l.pending[k] = l.images[from + k].base

Grown(l, r, from) ==
    /\ LoaderRight(r, from) /\ r.loading = l.loading
    /\ \A d \in l.loading : r.by_name[d] = l.by_name[d]
    /\ Len(l.images) <= Len(r.images) /\ \A i \in DOMAIN l.images : r.images[i] = l.images[i]
    /\ Len(r.images) - Len(l.images) = r.mapped - l.mapped
    /\ \A i \in DOMAIN r.images : i > Len(l.images) => r.images[i].base > l.mapped

LEMMA LoaderIs ==
  ASSUME NEW l \in Loader
  PROVE  /\ l = [images |-> l.images, by_name |-> l.by_name, loading |-> l.loading,
                 pending |-> l.pending, mapped |-> l.mapped]
         /\ l.images \in Seq(Image) /\ l.by_name \in [DllNames -> 0 .. Arena]
         /\ l.loading \subseteq DllNames /\ l.pending \in Seq(1 .. Arena) /\ l.mapped \in 0 .. Arena
         /\ Len(l.images) \in Nat /\ DOMAIN l.images = 1 .. Len(l.images)
         /\ Len(l.pending) \in Nat /\ DOMAIN l.pending = 1 .. Len(l.pending)
BY DEF Loader

LEMMA GrownSelf ==
  ASSUME NEW from, NEW l, LoaderRight(l, from)
  PROVE  Grown(l, l, from)
<1>1. l \in Loader
  BY DEF LoaderRight
<1> QED BY <1>1, LoaderIs DEF Grown

LEMMA GrownOn ==
  ASSUME NEW from, NEW l, NEW m, NEW r, LoaderRight(l, from), Grown(l, m, from), Grown(m, r, from)
  PROVE  Grown(l, r, from)
<1>1. l \in Loader /\ m \in Loader /\ r \in Loader
  BY DEF LoaderRight, Grown
<1>2. /\ l.mapped \in Int /\ Len(l.images) \in Nat /\ DOMAIN l.images = 1 .. Len(l.images)
      /\ m.mapped \in Int /\ Len(m.images) \in Nat /\ DOMAIN m.images = 1 .. Len(m.images)
      /\ r.mapped \in Int /\ Len(r.images) \in Nat /\ DOMAIN r.images = 1 .. Len(r.images)
  <2>1. l.mapped \in 0 .. Arena /\ m.mapped \in 0 .. Arena /\ r.mapped \in 0 .. Arena
    BY <1>1, LoaderIs
  <2>2. Arena \in Nat
    BY DllsAssumption
  <2> QED BY <1>1, <2>1, <2>2, LoaderIs
<1>7. /\ Len(l.images) <= Len(m.images) /\ Len(m.images) - Len(l.images) = m.mapped - l.mapped
      /\ Len(m.images) <= Len(r.images) /\ Len(r.images) - Len(m.images) = r.mapped - m.mapped
  BY DEF Grown
<1>8. PICK a, b, c, x, y, z : /\ a = Len(l.images) /\ b = Len(m.images) /\ c = Len(r.images)
                              /\ x = l.mapped /\ y = m.mapped /\ z = r.mapped
  OBVIOUS
<1>9. /\ a \in Nat /\ b \in Nat /\ c \in Nat /\ x \in Int /\ y \in Int /\ z \in Int
      /\ a <= b /\ b - a = y - x /\ b <= c /\ c - b = z - y
  BY <1>2, <1>7, <1>8
<1>10. a <= c /\ c - a = z - x /\ x <= y
  BY <1>9
<1>3. /\ Len(l.images) <= Len(r.images) /\ Len(r.images) - Len(l.images) = r.mapped - l.mapped
      /\ l.mapped <= m.mapped
  BY <1>8, <1>10
<1>4. \A i \in DOMAIN l.images : i \in DOMAIN m.images /\ r.images[i] = l.images[i]
  BY <1>2 DEF Grown
<1>5. ASSUME NEW i \in DOMAIN r.images, i > Len(l.images)
      PROVE  r.images[i].base > l.mapped
  <2>1. i \in Nat /\ l.mapped <= m.mapped
    BY <1>2, <1>3, <1>5
  <2>2. CASE i > Len(m.images)
    <3>1. i \in DOMAIN r.images /\ r.images[i] \in Image
      BY <1>1, <1>5, LoaderIs
    <3>2. r.images[i].base \in Int
      BY <3>1 DEF Image
    <3>3. r.images[i].base > m.mapped
      BY <2>2, <1>5 DEF Grown
    <3> QED BY <1>2, <2>1, <3>2, <3>3
  <2>3. CASE ~(i > Len(m.images))
    <3>1. i \in DOMAIN m.images
      BY <1>2, <1>5, <2>1, <2>3
    <3> QED BY <1>5, <3>1 DEF Grown
  <2> QED BY <2>2, <2>3
<1>6. /\ LoaderRight(r, from) /\ r.loading = l.loading
      /\ \A d \in l.loading : r.by_name[d] = l.by_name[d]
  BY DEF Grown
<1> QED BY <1>3, <1>4, <1>5, <1>6 DEF Grown

LEMMA BegunIs ==
  ASSUME NEW l \in Loader, l.mapped # Arena, NEW name \in DllNames, NEW b, b = Begun(l, name)
  PROVE  /\ b \in Loader /\ b.images = l.images /\ b.pending = l.pending
         /\ b.loading = l.loading \cup {name} /\ b.mapped = l.mapped + 1
         /\ b.by_name = [l.by_name EXCEPT ![name] = b.mapped]
<1>1. Arena \in Nat
  BY DllsAssumption
<1>2. b = [l EXCEPT !.mapped = l.mapped + 1, !.by_name[name] = l.mapped + 1, !.loading = l.loading \cup {name}]
  BY DEF Begun
<1>3. b = [images |-> l.images, by_name |-> [l.by_name EXCEPT ![name] = l.mapped + 1],
           loading |-> l.loading \cup {name}, pending |-> l.pending, mapped |-> l.mapped + 1]
  BY <1>2 DEF Loader
<1>4. l.mapped + 1 \in 0 .. Arena
  BY <1>1, LoaderIs
<1>5. [l.by_name EXCEPT ![name] = l.mapped + 1] \in [DllNames -> 0 .. Arena]
  BY <1>4, LoaderIs
<1>6. l.loading \cup {name} \subseteq DllNames
  BY LoaderIs
<1>7. b \in Loader
  BY <1>3, <1>4, <1>5, <1>6, LoaderIs DEF Loader
<1> QED BY <1>3, <1>7

LEMMA BegunRight ==
  ASSUME NEW from, NEW l, LoaderRight(l, from), l.mapped # Arena, NEW name \in DllNames,
         NEW b, b = Begun(l, name)
  PROVE  LoaderRight(b, from)
<1>1. l \in Loader
  BY DEF LoaderRight
<1>5. /\ b \in Loader /\ b.images = l.images /\ b.pending = l.pending
      /\ b.loading = l.loading \cup {name} /\ b.mapped = l.mapped + 1
      /\ b.by_name = [l.by_name EXCEPT ![name] = b.mapped]
  BY <1>1, BegunIs
<1>2. \A d \in DllNames \ b.loading : d \notin l.loading /\ b.by_name[d] = l.by_name[d]
  BY <1>1, <1>5, LoaderIs
<1>3. Named(b.images, b.by_name, b.loading)
  BY <1>1, <1>2, <1>5 DEF LoaderRight, Named
<1>4. ASSUME NEW i \in DOMAIN b.images
      PROVE  b.images[i].base <= b.mapped
  <2>1. i \in DOMAIN l.images /\ l.images[i] \in Image /\ b.images[i] = l.images[i]
    BY <1>1, <1>4, <1>5, LoaderIs
  <2>2. l.images[i].base \in Int /\ l.images[i].base <= l.mapped
    BY <2>1 DEF Image, LoaderRight
  <2> QED BY <1>1, <2>1, <2>2, <1>5, LoaderIs
<1> QED BY <1>1, <1>3, <1>4, <1>5 DEF LoaderRight

BoundOf(done, name) == {done.by_name[i] : i \in Range(Imports[name])} \ {Unloaded}

LEMMA EnlistedIs ==
  ASSUME NEW done \in Loader, NEW name \in DllNames, NEW base \in 1 .. Arena, NEW r, r = Enlisted(done, name, base)
  PROVE  \E image \in Image :
            /\ image.base = base
            /\ image.bound = BoundOf(done, name)
            /\ r \in Loader /\ r.images = Append(done.images, image)
            /\ r.pending = Append(done.pending, base) /\ r.loading = done.loading \ {name}
            /\ r.by_name = done.by_name /\ r.mapped = done.mapped
<1>1. PICK bound : bound = BoundOf(done, name)
  OBVIOUS
<1>2. bound \subseteq 1 .. Arena
  <2>1. Imports[name] \in Seq(DllNames)
    BY DllsAssumption
  <2>2. Range(Imports[name]) \subseteq DllNames
    BY <2>1 DEF Range
  <2>3. \A i \in DllNames : done.by_name[i] \in 0 .. Arena
    BY LoaderIs
  <2>4. \A b \in bound : b \in 0 .. Arena /\ b # 0
    BY <1>1, <2>2, <2>3 DEF BoundOf, Unloaded
  <2>5. Arena \in Nat
    BY DllsAssumption
  <2> QED BY <2>4, <2>5
<1>3. PICK image : image = [name |-> name, base |-> base, refs |-> 1, attached |-> FALSE, disabled |-> FALSE,
                            bound |-> bound]
  OBVIOUS
<1>4. image \in Image /\ image.base = base /\ image.bound = bound
  BY <1>2, <1>3 DEF Image
<1>5. r = [done EXCEPT !.images = Append(done.images, image), !.loading = done.loading \ {name},
                       !.pending = Append(done.pending, base)]
  BY <1>1, <1>3 DEF Enlisted, BoundOf
<1>6. r = [images |-> Append(done.images, image), by_name |-> done.by_name, loading |-> done.loading \ {name},
           pending |-> Append(done.pending, base), mapped |-> done.mapped]
  BY <1>5 DEF Loader
<1>7. Append(done.images, image) \in Seq(Image) /\ Append(done.pending, base) \in Seq(1 .. Arena)
  BY <1>4, LoaderIs
<1>8. r \in Loader
  BY <1>6, <1>7, LoaderIs DEF Loader
<1>9. /\ r.images = Append(done.images, image) /\ r.pending = Append(done.pending, base)
      /\ r.loading = done.loading \ {name} /\ r.by_name = done.by_name /\ r.mapped = done.mapped
  BY <1>6
<1> HIDE <1>2, <1>3, <1>5, <1>6, <1>7
<1> QED BY <1>1, <1>4, <1>8, <1>9

LEMMA EnlistedRight ==
  ASSUME NEW from \in Nat, NEW l, LoaderRight(l, from), l.mapped # Arena,
         NEW name \in DllNames, name \notin l.loading,
         NEW b, b = Begun(l, name), NEW done, Grown(b, done, from),
         \A i \in Range(Imports[name]) : i \in DllNames /\ i \notin b.loading,
         NEW r, r = Enlisted(done, name, b.mapped)
  PROVE  Grown(l, r, from)
<1>1. l \in Loader /\ done \in Loader
  BY DEF LoaderRight, Grown
<1>2. /\ b \in Loader /\ b.images = l.images /\ b.loading = l.loading \cup {name}
      /\ b.mapped = l.mapped + 1 /\ b.by_name = [l.by_name EXCEPT ![name] = b.mapped]
  BY <1>1, BegunIs
<1>3. Arena \in Nat /\ l.mapped \in Nat /\ b.mapped \in 1 .. Arena /\ done.mapped \in Nat
  <2>1. Arena \in Nat
    BY DllsAssumption
  <2>2. l.mapped \in 0 .. Arena /\ b.mapped \in 0 .. Arena /\ done.mapped \in 0 .. Arena
    BY <1>1, <1>2, LoaderIs
  <2> QED BY <1>2, <2>1, <2>2
<1>4. PICK image \in Image :
            /\ image.base = b.mapped
            /\ image.bound = BoundOf(done, name)
            /\ r \in Loader /\ r.images = Append(done.images, image)
            /\ r.pending = Append(done.pending, b.mapped) /\ r.loading = done.loading \ {name}
            /\ r.by_name = done.by_name /\ r.mapped = done.mapped
  <2>1. PICK base : base = b.mapped
    OBVIOUS
  <2>2. done \in Loader /\ name \in DllNames /\ base \in 1 .. Arena /\ r = Enlisted(done, name, base)
    BY <1>1, <1>3, <2>1
  <2>3. \E image \in Image :
            /\ image.base = base
            /\ image.bound = BoundOf(done, name)
            /\ r \in Loader /\ r.images = Append(done.images, image)
            /\ r.pending = Append(done.pending, base) /\ r.loading = done.loading \ {name}
            /\ r.by_name = done.by_name /\ r.mapped = done.mapped
    BY <2>2, EnlistedIs
  <2> QED BY <2>1, <2>3
<1>5. PICK n, p, ln : n = Len(done.images) /\ p = Len(done.pending) /\ ln = Len(l.images)
  OBVIOUS
<1>6. /\ n \in Nat /\ DOMAIN done.images = 1 .. n /\ p \in Nat /\ DOMAIN done.pending = 1 .. p
      /\ ln \in Nat /\ DOMAIN l.images = 1 .. ln
      /\ done.images \in Seq(Image) /\ done.pending \in Seq(1 .. Arena)
  BY <1>1, <1>5, LoaderIs
<1>7. /\ Len(r.images) = n + 1 /\ DOMAIN r.images = 1 .. n + 1 /\ r.images[n + 1] = image
      /\ \A i \in 1 .. n : r.images[i] = done.images[i]
  BY <1>4, <1>5, <1>6
<1>8. /\ Len(r.pending) = p + 1 /\ DOMAIN r.pending = 1 .. p + 1 /\ r.pending[p + 1] = b.mapped
      /\ \A k \in 1 .. p : r.pending[k] = done.pending[k]
  BY <1>3, <1>4, <1>5, <1>6
<1>9. /\ done.loading = b.loading /\ \A d \in b.loading : done.by_name[d] = b.by_name[d]
      /\ ln <= n /\ n - ln = done.mapped - b.mapped
      /\ \A i \in 1 .. ln : done.images[i] = l.images[i]
      /\ \A i \in 1 .. n : i > ln => done.images[i].base > b.mapped
  BY <1>2, <1>5, <1>6 DEF Grown
<1>10. /\ Placed(done.images) /\ Named(done.images, done.by_name, b.loading)
       /\ \A i \in 1 .. n : done.images[i].base <= done.mapped
       /\ p = n - from
       /\ \A k \in 1 .. p : done.pending[k] = done.images[from + k].base
  BY <1>5, <1>6, <1>9 DEF Grown, LoaderRight
<1>11. \A i \in 1 .. n : done.images[i].base \in Nat /\ done.images[i].base # b.mapped
  <2>1. ASSUME NEW i \in 1 .. n
        PROVE  done.images[i].base \in Nat /\ done.images[i].base # b.mapped
    <3>1. done.images[i] \in Image
      BY <1>6
    <3>2. done.images[i].base \in Nat
      BY <3>1 DEF Image
    <3>3. CASE i > ln
      BY <1>3, <1>9, <3>2, <3>3
    <3>4. CASE ~(i > ln)
      <4>1. i \in 1 .. ln
        BY <1>6, <3>4
      <4>2. done.images[i].base <= l.mapped
        BY <1>6, <1>9, <4>1 DEF LoaderRight
      <4> QED BY <1>2, <1>3, <3>2, <4>2
    <3> QED BY <3>3, <3>4
  <2> QED BY <2>1
<1>12. b.mapped <= done.mapped
  BY <1>3, <1>6, <1>9
<1>13. Placed(r.images)
  <2>1. ASSUME NEW i \in 1 .. n + 1, NEW j \in 1 .. n + 1, r.images[i].base = r.images[j].base
        PROVE  i = j
    <3>1. \A k \in 1 .. n + 1 : k \in 1 .. n \/ k = n + 1
      BY <1>6
    <3>2. CASE i = n + 1 /\ j = n + 1
      BY <3>2
    <3>3. CASE i = n + 1 /\ j \in 1 .. n
      BY <1>4, <1>7, <1>11, <2>1, <3>3
    <3>4. CASE i \in 1 .. n /\ j = n + 1
      BY <1>4, <1>7, <1>11, <2>1, <3>4
    <3>5. CASE i \in 1 .. n /\ j \in 1 .. n
      <4>1. done.images[i].base = done.images[j].base
        BY <1>7, <2>1, <3>5
      <4> QED BY <1>6, <1>10, <3>5, <4>1 DEF Placed
    <3> QED BY <3>1, <3>2, <3>3, <3>4, <3>5
  <2>2. ASSUME NEW i \in 1 .. n + 1, NEW d \in r.images[i].bound
        PROVE  \E j \in 1 .. i - 1 : r.images[j].base = d
    <3>1. CASE i = n + 1
      <4>1. d \in image.bound
        BY <1>7, <2>2, <3>1
      <4>2. PICK k \in Range(Imports[name]) : d = done.by_name[k] /\ d # Unloaded
        BY <1>4, <4>1 DEF BoundOf
      <4>3. k \in DllNames \ b.loading
        OBVIOUS
      <4>4. PICK j \in 1 .. n : done.images[j].base = d
        BY <1>6, <1>10, <4>2, <4>3 DEF Named
      <4>5. j \in 1 .. i - 1
        BY <1>6, <3>1
      <4> QED BY <1>7, <4>4, <4>5
    <3>2. CASE i # n + 1
      <4>1. i \in 1 .. n
        BY <1>6, <3>2
      <4>2. d \in done.images[i].bound
        BY <1>7, <2>2, <4>1
      <4>3. PICK j \in 1 .. i - 1 : done.images[j].base = d
        BY <1>6, <1>10, <4>1, <4>2 DEF Placed
      <4>4. j \in 1 .. n
        BY <1>6, <4>1
      <4> QED BY <1>7, <4>3, <4>4
    <3> QED BY <3>1, <3>2
  <2> QED BY <1>7, <2>1, <2>2 DEF Placed
<1>14. Named(r.images, r.by_name, r.loading)
  <2> SUFFICES ASSUME NEW d \in DllNames, d \notin r.loading, r.by_name[d] # Unloaded
               PROVE  \E i \in 1 .. n + 1 : r.images[i].base = r.by_name[d]
    BY <1>7 DEF Named
  <2>1. CASE d = name
    <3>1. r.by_name[d] = b.mapped
      <4>1. name \in b.loading /\ name \in DOMAIN l.by_name
        BY <1>1, <1>2, LoaderIs
      <4>2. b.by_name[name] = b.mapped
        BY <1>2, <4>1
      <4> QED BY <1>4, <1>9, <2>1, <4>1, <4>2
    <3>2. n + 1 \in 1 .. n + 1
      BY <1>6
    <3> QED BY <1>4, <1>7, <3>1, <3>2
  <2>2. CASE d # name
    <3>1. d \in DllNames \ b.loading
      BY <1>4, <1>9, <2>2
    <3>2. PICK i \in 1 .. n : done.images[i].base = r.by_name[d]
      <4>1. r.by_name[d] = done.by_name[d] /\ done.by_name[d] # Unloaded
        BY <1>4
      <4>2. Named(done.images, done.by_name, b.loading) /\ DOMAIN done.images = 1 .. n
        BY <1>6, <1>10
      <4> HIDE <1>4, <1>6, <1>10
      <4> QED BY <3>1, <4>1, <4>2 DEF Named
    <3>3. i \in 1 .. n + 1
      BY <1>6
    <3> QED BY <1>7, <3>2, <3>3
  <2> QED BY <2>1, <2>2
<1>15. ASSUME NEW i \in 1 .. n + 1
       PROVE  r.images[i].base <= r.mapped /\ (i > ln => r.images[i].base > l.mapped)
  <2>1. CASE i = n + 1
    BY <1>2, <1>3, <1>4, <1>7, <1>12, <2>1
  <2>2. CASE i # n + 1
    <3>1. i \in 1 .. n
      BY <1>6, <2>2
    <3>2. i > ln => done.images[i].base > l.mapped
      BY <1>2, <1>3, <1>9, <1>11, <3>1
    <3> QED BY <1>4, <1>7, <1>10, <3>1, <3>2
  <2> QED BY <2>1, <2>2
<1>16. ASSUME NEW k \in 1 .. p + 1
       PROVE  r.pending[k] = r.images[from + k].base
  <2>1. CASE k = p + 1
    <3>1. from + k = n + 1
      BY <1>6, <1>10, <2>1
    <3> QED BY <1>4, <1>7, <1>8, <2>1, <3>1
  <2>2. CASE k # p + 1
    <3>1. k \in 1 .. p /\ from + k \in 1 .. n
      BY <1>6, <1>10, <2>2
    <3> QED BY <1>7, <1>8, <1>10, <3>1
  <2> QED BY <2>1, <2>2
<1>17. Len(r.pending) = Len(r.images) - from
  BY <1>6, <1>7, <1>8, <1>10
<1>18. LoaderRight(r, from)
  BY <1>4, <1>7, <1>8, <1>13, <1>14, <1>15, <1>16, <1>17 DEF LoaderRight
<1>19. r.loading = l.loading
  BY <1>2, <1>4, <1>9
<1>20. \A d \in l.loading : r.by_name[d] = l.by_name[d]
  <2> SUFFICES ASSUME NEW d \in l.loading
               PROVE  r.by_name[d] = l.by_name[d]
    OBVIOUS
  <2>1. d # name /\ d \in b.loading /\ d \in DllNames
    BY <1>1, <1>2, LoaderIs
  <2>2. b.by_name[d] = l.by_name[d]
    BY <1>1, <1>2, <2>1, LoaderIs
  <2> QED BY <1>4, <1>9, <2>1, <2>2
<1>21. ln <= n + 1 /\ (n + 1) - ln = r.mapped - l.mapped
  <2>1. PICK x, y, z, m : x = l.mapped /\ y = b.mapped /\ z = done.mapped /\ m = r.mapped
    OBVIOUS
  <2>2. /\ x \in Nat /\ y = x + 1 /\ z \in Nat /\ m = z /\ n \in Nat /\ ln \in Nat
        /\ ln <= n /\ n - ln = z - y
    BY <1>2, <1>3, <1>4, <1>6, <1>9, <2>1
  <2>3. (n + 1) - ln = m - x /\ ln <= n + 1
    BY <2>2
  <2> QED BY <2>1, <2>3
<1>22. \A i \in 1 .. ln : i \in 1 .. n /\ r.images[i] = l.images[i]
  <2> SUFFICES ASSUME NEW i \in 1 .. ln
               PROVE  i \in 1 .. n /\ r.images[i] = l.images[i]
    OBVIOUS
  <2>1. i \in 1 .. n
    <3>1. ln \in Nat /\ n \in Nat /\ ln <= n
      BY <1>2, <1>3, <1>6, <1>9
    <3> HIDE <1>2, <1>3, <1>6, <1>9
    <3> QED BY <3>1
  <2>2. r.images[i] = done.images[i]
    BY <1>7, <2>1
  <2>3. done.images[i] = l.images[i]
    BY <1>9
  <2> QED BY <2>1, <2>2, <2>3
<1> QED BY <1>5, <1>6, <1>7, <1>15, <1>18, <1>19, <1>20, <1>21, <1>22 DEF Grown

\* No DLL imports itself, by however many others: there is an order in which
\* each comes after what it imports.
Ranks(rank) ==
    /\ rank \in [DllNames -> Nat]
    /\ \A d \in DllNames : \A k \in DOMAIN Imports[d] : rank[Imports[d][k]] < rank[d]

ImportsNest == \E rank : Ranks(rank)

RankedBelow(rank, name, loading) == \A d \in loading : rank[name] < rank[d]

LoadsRight(load, depth, rank, from) ==
    \A name \in DllNames, l \in Loader :
        LoaderRight(l, from) /\ Arena - l.mapped <= depth /\ RankedBelow(rank, name, l.loading)
            => Grown(l, load[name][l], from)

LEMMA ImportsGrow ==
  ASSUME NEW rank, Ranks(rank), NEW from \in Nat, NEW depth \in Nat, NEW nested, LoadsRight(nested, depth, rank, from),
         NEW name \in DllNames, NEW b, LoaderRight(b, from), Arena - b.mapped <= depth,
         \A k \in DOMAIN Imports[name] : RankedBelow(rank, Imports[name][k], b.loading),
         NEW n \in Nat, n = Len(Imports[name]), NEW f, NEW missing,
         AfterIs(f, nested, b, Imports[name], missing, n)
  PROVE  Grown(b, f[n], from)
<1> DEFINE G == {k \in 0 .. n : Grown(b, f[k], from)}
<1>1. \A k \in 0 .. n : f[k] = IF k = 0 THEN b
                              ELSE IF k \in missing THEN nested[Imports[name][k]][f[k - 1]] ELSE f[k - 1]
  BY DEF AfterIs
<1>2. 0 \in G
  <2>1. f[0] = b
    BY <1>1
  <2> QED BY <2>1, GrownSelf
<1>3. ASSUME NEW k \in 0 .. n - 1, Grown(b, f[k], from)
      PROVE  Grown(b, f[k + 1], from)
  <2>1. k + 1 \in 0 .. n /\ k + 1 # 0 /\ (k + 1) - 1 = k
    OBVIOUS
  <2>2. f[k + 1] = IF k + 1 \in missing THEN nested[Imports[name][k + 1]][f[k]] ELSE f[k]
    BY <1>1, <2>1
  <2>3. CASE k + 1 \notin missing
    BY <1>3, <2>2, <2>3
  <2>4. CASE k + 1 \in missing
    <3>1. PICK m, i, g : m = f[k] /\ i = Imports[name][k + 1] /\ g = nested[i][m]
      OBVIOUS
    <3>2. LoaderRight(m, from) /\ m \in Loader /\ b \in Loader
      BY <1>3, <3>1 DEF Grown, LoaderRight
    <3>3. Imports[name] \in Seq(DllNames) /\ k + 1 \in DOMAIN Imports[name] /\ i \in DllNames
      BY <3>1, DllsAssumption
    <3>4. Arena - m.mapped <= depth
      <4>1. PICK x, y, nb, nm : x = b.mapped /\ y = m.mapped /\ nb = Len(b.images) /\ nm = Len(m.images)
        OBVIOUS
      <4>2. nb <= nm /\ nm - nb = y - x
        BY <1>3, <3>1, <4>1 DEF Grown
      <4>3. nb \in Nat /\ nm \in Nat /\ x \in 0 .. Arena /\ y \in 0 .. Arena /\ Arena \in Nat
        BY <3>2, <4>1, LoaderIs, DllsAssumption
      <4>4. Arena - x <= depth
        BY <4>1
      <4>5. Arena - y <= depth
        BY <4>2, <4>3, <4>4
      <4> QED BY <4>1, <4>5
    <3>5. RankedBelow(rank, i, m.loading)
      <4>1. m.loading = b.loading
        BY <1>3, <3>1 DEF Grown
      <4> QED BY <3>1, <3>3, <4>1
    <3>6. Grown(m, g, from)
      BY <3>1, <3>2, <3>3, <3>4, <3>5 DEF LoadsRight
    <3>7. Grown(b, g, from)
      BY <1>3, <3>1, <3>6, GrownOn
    <3> QED BY <2>2, <2>4, <3>1, <3>7
  <2> QED BY <2>3, <2>4
<1>4. \A k \in 0 .. n - 1 : k \in G => k + 1 \in G
  <2>1. \A k \in 0 .. n - 1 : k + 1 \in 0 .. n
    OBVIOUS
  <2> QED BY <1>3, <2>1
<1>5. n \in G
  <2> HIDE DEF G
  <2>1. \A k \in 0 .. n : k \in G
    BY <1>2, <1>4, UpToLast
  <2> QED BY <2>1
<1> QED BY <1>5

LEMMA LoadGrows ==
  ASSUME NEW rank, Ranks(rank), NEW from \in Nat, NEW depth \in Nat, NEW nested, LoadsRight(nested, depth, rank, from)
  PROVE  LoadsRight(Loads(nested), depth + 1, rank, from)
<1> SUFFICES ASSUME NEW name \in DllNames, NEW l \in Loader, LoaderRight(l, from),
                    Arena - l.mapped <= depth + 1, RankedBelow(rank, name, l.loading)
             PROVE  Grown(l, Loads(nested)[name][l], from)
  BY DEF LoadsRight
<1>1. PICK b, f, n : b = Begun(l, name) /\ f = ImportsOf(nested, b, name) /\ n = Len(Imports[name])
  OBVIOUS
<1>2. PICK r : r = Loads(nested)[name][l]
  OBVIOUS
<1>3. r = IF name \in l.loading \/ l.mapped = Arena THEN l ELSE Enlisted(f[n], name, b.mapped)
  BY <1>1, <1>2 DEF Loads
<1>4. CASE name \in l.loading \/ l.mapped = Arena
  BY <1>2, <1>3, <1>4, GrownSelf
<1>5. CASE name \notin l.loading /\ l.mapped # Arena
  <2>1. /\ b \in Loader /\ b.images = l.images /\ b.loading = l.loading \cup {name} /\ b.mapped = l.mapped + 1
    <3>1. b = Begun(l, name) /\ l.mapped # Arena
      BY <1>1, <1>5
    <3>2. /\ b \in Loader /\ b.images = l.images /\ b.pending = l.pending
          /\ b.loading = l.loading \cup {name} /\ b.mapped = l.mapped + 1
          /\ b.by_name = [l.by_name EXCEPT ![name] = b.mapped]
      BY <3>1, BegunIs
    <3> QED BY <3>2
  <2>2. LoaderRight(b, from)
    BY <1>1, <1>5, BegunRight
  <2>3. Imports[name] \in Seq(DllNames) /\ n \in Nat
    BY <1>1, DllsAssumption
  <2>4. Arena - b.mapped <= depth
    <3>1. PICK x, y : x = l.mapped /\ y = b.mapped
      OBVIOUS
    <3>2. x \in 0 .. Arena /\ Arena \in Nat /\ y = x + 1 /\ Arena - x <= depth + 1
      BY <2>1, <3>1, LoaderIs, DllsAssumption
    <3>3. Arena - y <= depth
      BY <3>2
    <3> QED BY <3>1, <3>3
  <2>5. \A k \in DOMAIN Imports[name] : Imports[name][k] \in DllNames /\ RankedBelow(rank, Imports[name][k], b.loading)
    <3> SUFFICES ASSUME NEW k \in DOMAIN Imports[name], NEW d \in b.loading
                 PROVE  Imports[name][k] \in DllNames /\ rank[Imports[name][k]] < rank[d]
      BY <2>3 DEF RankedBelow
    <3>1. Imports[name][k] \in DllNames /\ rank[Imports[name][k]] < rank[name]
      BY <2>3 DEF Ranks
    <3>2. d = name \/ d \in l.loading
      BY <2>1
    <3>3. d \in DllNames
      BY <2>1, LoaderIs
    <3>4. rank[name] \in Nat /\ rank[d] \in Nat /\ rank[Imports[name][k]] \in Nat
      BY <3>1, <3>3 DEF Ranks
    <3>5. d # name => rank[name] < rank[d]
      BY <3>2 DEF RankedBelow
    <3> QED BY <3>1, <3>4, <3>5
  <2>6. AfterIs(f, nested, b, Imports[name], Missing(b, name), n)
    BY <1>1, <2>3, AfterImports
  <2>7. Grown(b, f[n], from)
    <3>1. PICK missing : missing = Missing(b, name)
      OBVIOUS
    <3>2. \A k \in DOMAIN Imports[name] : RankedBelow(rank, Imports[name][k], b.loading)
      BY <2>5
    <3> QED BY <1>1, <2>2, <2>3, <2>4, <2>6, <3>1, <3>2, ImportsGrow
  <2>8. \A i \in Range(Imports[name]) : i \in DllNames /\ i \notin b.loading
    <3> SUFFICES ASSUME NEW k \in DOMAIN Imports[name]
                 PROVE  Imports[name][k] \in DllNames /\ Imports[name][k] \notin b.loading
      BY DEF Range
    <3>1. rank[Imports[name][k]] \in Nat /\ Imports[name][k] \in DllNames
      BY <2>5 DEF Ranks
    <3>2. ASSUME Imports[name][k] \in b.loading
          PROVE  FALSE
      BY <2>5, <3>1, <3>2 DEF RankedBelow
    <3> QED BY <3>1, <3>2
  <2>9. PICK done : done = f[n]
    OBVIOUS
  <2>10. r = Enlisted(done, name, b.mapped) /\ Grown(b, done, from)
    BY <1>3, <1>5, <2>7, <2>9
  <2>11. Grown(l, r, from)
    BY <1>1, <1>5, <2>8, <2>10, EnlistedRight
  <2> QED BY <1>2, <2>11
<1> QED BY <1>4, <1>5

LEMMA LoadPluginGrows ==
  ASSUME NEW rank, Ranks(rank), NEW from \in Nat
  PROVE  LoadsRight(load_plugin[Arena], Arena, rank, from)
<1> DEFINE G == {d \in 0 .. Arena : LoadsRight(load_plugin[d], d, rank, from)}
<1>1. Arena \in Nat
  BY DllsAssumption
<1>2. 0 \in G
  <2>1. load_plugin[0] = NoLoad
    BY <1>1, LoadPluginIs
  <2>2. \A name \in DllNames, l \in Loader : NoLoad[name][l] = l
    BY DEF NoLoad
  <2> QED BY <1>1, <2>1, <2>2, GrownSelf DEF LoadsRight
<1>3. ASSUME NEW d \in 0 .. Arena - 1, d \in G
      PROVE  d + 1 \in G
  <2>1. d \in Nat /\ d + 1 \in 0 .. Arena /\ d + 1 # 0 /\ (d + 1) - 1 = d
    BY <1>1
  <2>2. PICK nested : nested = load_plugin[d]
    OBVIOUS
  <2>3. load_plugin[d + 1] = Loads(nested)
    BY <2>1, <2>2, LoadPluginIs
  <2>4. LoadsRight(nested, d, rank, from)
    BY <1>3, <2>2
  <2>5. LoadsRight(Loads(nested), d + 1, rank, from)
    BY <2>1, <2>4, LoadGrows
  <2> QED BY <2>1, <2>3, <2>5
<1>4. Arena \in G
  <2> HIDE DEF G
  <2> QED BY <1>1, <1>2, <1>3, UpToLast
<1> QED BY <1>4

-----------------------------------------------------------------------------
(* The bases of some images: each once, in the order of the images.          *)
KeptIs(f, is, chosen, n) ==
    f = [k \in 0 .. n |-> IF k = 0 THEN <<>>
                          ELSE IF k \in chosen THEN Append(f[k - 1], is[k].base) ELSE f[k - 1]]

\* at says where in the images the elements of q stand.
Enumerates(q, at, is, chosen, n) ==
    /\ q \in Seq(1 .. Arena) /\ at \in [1 .. Len(q) -> 1 .. n]
    /\ \A j \in 1 .. Len(q) : at[j] \in chosen /\ q[j] = is[at[j]].base
    /\ \A j, k \in 1 .. Len(q) : j < k => at[j] < at[k]
    /\ \A i \in 1 .. n : i \in chosen => \E j \in 1 .. Len(q) : at[j] = i

LEMMA KeptExists ==
  ASSUME NEW is \in Seq(Image), NEW chosen, NEW N \in Nat, N <= Len(is)
  PROVE  \E f : KeptIs(f, is, chosen, N)
<1> DEFINE load == [b \in 1 .. Arena |-> [q \in Seq(1 .. Arena) |-> Append(q, b)]]
           bases == [k \in 1 .. N |-> is[k].base]
<1>1. PICK f : AfterIs(f, load, <<>>, bases, chosen, N)
  BY AfterExists
<1>2. \A k \in 0 .. N : f[k] = IF k = 0 THEN <<>>
                              ELSE IF k \in chosen THEN load[bases[k]][f[k - 1]] ELSE f[k - 1]
  BY <1>1 DEF AfterIs
<1>3. \A k \in 1 .. N : bases[k] = is[k].base /\ bases[k] \in 1 .. Arena
  <2> SUFFICES ASSUME NEW k \in 1 .. N
               PROVE  bases[k] = is[k].base /\ bases[k] \in 1 .. Arena
    OBVIOUS
  <2>1. is[k] \in Image
    OBVIOUS
  <2> QED BY <2>1 DEF Image
<1>4. \A b \in 1 .. Arena, q \in Seq(1 .. Arena) : load[b][q] = Append(q, b)
  OBVIOUS
<1>9. f = [k \in 0 .. N |-> f[k]]
  BY <1>1 DEF AfterIs
<1> HIDE DEF load, bases
<1>5. ASSUME NEW k \in 0 .. N - 1, f[k] \in Seq(1 .. Arena)
      PROVE  /\ f[k + 1] \in Seq(1 .. Arena)
             /\ f[k + 1] = IF k + 1 \in chosen THEN Append(f[k], is[k + 1].base) ELSE f[k]
  <2>1. k + 1 \in 0 .. N /\ k + 1 # 0 /\ (k + 1) - 1 = k /\ k + 1 \in 1 .. N
    OBVIOUS
  <2>2. PICK q, b : q = f[k] /\ b = bases[k + 1]
    OBVIOUS
  <2>3. q \in Seq(1 .. Arena) /\ b \in 1 .. Arena /\ b = is[k + 1].base
    BY <1>3, <1>5, <2>1, <2>2
  <2>4. f[k + 1] = IF k + 1 \in chosen THEN load[b][q] ELSE q
    BY <1>2, <2>1, <2>2
  <2>5. load[b][q] = Append(q, b) /\ Append(q, b) \in Seq(1 .. Arena)
    BY <1>4, <2>3
  <2> QED BY <2>2, <2>3, <2>4, <2>5
<1>6. \A k \in 0 .. N : f[k] \in Seq(1 .. Arena)
  <2> DEFINE G == {k \in 0 .. N : f[k] \in Seq(1 .. Arena)}
  <2>1. f[0] = <<>> /\ <<>> \in Seq(1 .. Arena)
    BY <1>2
  <2>2. 0 \in G
    <3>1. 0 \in 0 .. N
      OBVIOUS
    <3>2. f[0] \in Seq(1 .. Arena)
      BY <2>1, Zenon
    <3> QED BY <3>1, <3>2
  <2>3. \A k \in 0 .. N - 1 : k \in G => k + 1 \in G
    <3>1. \A k \in 0 .. N - 1 : k + 1 \in 0 .. N
      OBVIOUS
    <3> QED BY <1>5, <3>1
  <2> HIDE DEF G
  <2>4. \A k \in 0 .. N : k \in G
    BY <2>2, <2>3, UpToLast
  <2> QED BY <2>4 DEF G
<1>7. \A k \in 0 .. N : f[k] = IF k = 0 THEN <<>>
                              ELSE IF k \in chosen THEN Append(f[k - 1], is[k].base) ELSE f[k - 1]
  <2> SUFFICES ASSUME NEW k \in 1 .. N
               PROVE  f[k] = IF k \in chosen THEN Append(f[k - 1], is[k].base) ELSE f[k - 1]
    <3>1. f[0] = <<>>
      BY <1>2
    <3>2. \A k \in 0 .. N : k # 0 => k \in 1 .. N
      OBVIOUS
    <3> QED BY <3>1, <3>2
  <2>1. k - 1 \in 0 .. N - 1 /\ (k - 1) + 1 = k /\ k - 1 \in 0 .. N
    OBVIOUS
  <2> QED BY <1>5, <1>6, <2>1
<1>8. f = [k \in 0 .. N |-> IF k = 0 THEN <<>>
                            ELSE IF k \in chosen THEN Append(f[k - 1], is[k].base) ELSE f[k - 1]]
  BY <1>7, <1>9
<1> QED BY <1>8 DEF KeptIs

LEMMA KeptRight ==
  ASSUME NEW is \in Seq(Image), NEW chosen, NEW N \in Nat, N <= Len(is), NEW f, KeptIs(f, is, chosen, N)
  PROVE  \E at : Enumerates(f[N], at, is, chosen, N)
<1> DEFINE G == {n \in 0 .. N : \E at : Enumerates(f[n], at, is, chosen, n)}
<1>1. \A k \in 0 .. N : f[k] = IF k = 0 THEN <<>>
                              ELSE IF k \in chosen THEN Append(f[k - 1], is[k].base) ELSE f[k - 1]
  BY DEF KeptIs
<1>2. \E at : Enumerates(f[0], at, is, chosen, 0)
  <2>1. f[0] = <<>> /\ <<>> \in Seq(1 .. Arena) /\ Len(<<>>) = 0
    BY <1>1
  <2>2. PICK at : at = [j \in 1 .. 0 |-> 1]
    OBVIOUS
  <2>3. at \in [1 .. 0 -> 1 .. 0]
    BY <2>2
  <2>4. PICK q : q = f[0]
    OBVIOUS
  <2>5. q \in Seq(1 .. Arena) /\ Len(q) = 0
    BY <2>1, <2>4
  <2>6. Enumerates(q, at, is, chosen, 0)
    BY <2>3, <2>5 DEF Enumerates
  <2> QED BY <2>4, <2>6
<1>3. ASSUME NEW n \in 0 .. N - 1, NEW at, Enumerates(f[n], at, is, chosen, n)
      PROVE  \E to : Enumerates(f[n + 1], to, is, chosen, n + 1)
  <2>1. PICK q, p, b : q = f[n] /\ p = f[n + 1] /\ b = is[n + 1].base
    OBVIOUS
  <2>2. p = IF n + 1 \in chosen THEN Append(q, b) ELSE q
    <3>1. n + 1 \in 0 .. N /\ n + 1 # 0 /\ (n + 1) - 1 = n
      OBVIOUS
    <3> QED BY <1>1, <2>1, <3>1
  <2>3. b \in 1 .. Arena
    <3>1. is[n + 1] \in Image
      OBVIOUS
    <3> QED BY <2>1, <3>1 DEF Image
  <2>4. PICK m : m = Len(q)
    OBVIOUS
  <2>5. /\ q \in Seq(1 .. Arena) /\ m \in Nat /\ at \in [1 .. m -> 1 .. n]
        /\ \A j \in 1 .. m : at[j] \in chosen /\ q[j] = is[at[j]].base
        /\ \A j, k \in 1 .. m : j < k => at[j] < at[k]
        /\ \A i \in 1 .. n : i \in chosen => \E j \in 1 .. m : at[j] = i
    BY <1>3, <2>1, <2>4 DEF Enumerates
  <2>6. CASE n + 1 \notin chosen
    <3>1. p = q /\ Len(p) = m
      BY <2>2, <2>4, <2>6
    <3>2. at \in [1 .. m -> 1 .. n + 1]
      BY <2>5
    <3>3. \A i \in 1 .. n + 1 : i \in chosen => i \in 1 .. n
      BY <2>6
    <3>4. Enumerates(p, at, is, chosen, n + 1)
      BY <2>5, <3>1, <3>2, <3>3 DEF Enumerates
    <3> QED BY <2>1, <3>4
  <2>7. CASE n + 1 \in chosen
    <3> DEFINE to == [j \in 1 .. m + 1 |-> IF j = m + 1 THEN n + 1 ELSE at[j]]
    <3>1. p \in Seq(1 .. Arena) /\ Len(p) = m + 1 /\ p[m + 1] = b /\ \A j \in 1 .. m : p[j] = q[j]
      BY <2>2, <2>3, <2>4, <2>5, <2>7
    <3>2. to \in [1 .. m + 1 -> 1 .. n + 1]
      <4>1. \A j \in 1 .. m + 1 : j # m + 1 => j \in 1 .. m /\ at[j] \in 1 .. n + 1
        BY <2>5
      <4>2. n + 1 \in 1 .. n + 1
        OBVIOUS
      <4> QED BY <4>1, <4>2
    <3>3. to[m + 1] = n + 1 /\ \A j \in 1 .. m : to[j] = at[j]
      BY <2>5
    <3>4. \A j \in 1 .. m + 1 : j \in 1 .. m \/ j = m + 1
      BY <2>5
    <3> HIDE DEF to
    <3>5. \A j \in 1 .. m + 1 : to[j] \in chosen /\ p[j] = is[to[j]].base
      BY <2>1, <2>5, <2>7, <3>1, <3>3, <3>4
    <3>6. \A j, k \in 1 .. m + 1 : j < k => to[j] < to[k]
      <4> SUFFICES ASSUME NEW j \in 1 .. m + 1, NEW k \in 1 .. m + 1, j < k
                   PROVE  to[j] < to[k]
        OBVIOUS
      <4>1. j \in 1 .. m
        BY <2>5
      <4>2. CASE k = m + 1
        BY <2>5, <3>3, <4>1, <4>2
      <4>3. CASE k \in 1 .. m
        BY <2>5, <3>3, <4>1, <4>3
      <4> QED BY <3>4, <4>2, <4>3
    <3>7. \A i \in 1 .. n + 1 : i \in chosen => \E j \in 1 .. m + 1 : to[j] = i
      <4> SUFFICES ASSUME NEW i \in 1 .. n + 1, i \in chosen
                   PROVE  \E j \in 1 .. m + 1 : to[j] = i
        OBVIOUS
      <4>1. CASE i = n + 1
        <5>1. m + 1 \in 1 .. m + 1
          BY <2>5
        <5> QED BY <3>3, <4>1, <5>1
      <4>2. CASE i # n + 1
        <5>1. i \in 1 .. n
          BY <4>2
        <5>2. PICK j \in 1 .. m : at[j] = i
          BY <2>5, <5>1
        <5>3. j \in 1 .. m + 1
          BY <2>5
        <5> QED BY <3>3, <5>2, <5>3
      <4> QED BY <4>1, <4>2
    <3>8. Enumerates(p, to, is, chosen, n + 1)
      BY <3>1, <3>2, <3>5, <3>6, <3>7 DEF Enumerates
    <3> QED BY <2>1, <3>8
  <2> QED BY <2>6, <2>7
<1>4. 0 \in G /\ \A n \in 0 .. N - 1 : n \in G => n + 1 \in G
  <2>1. 0 \in 0 .. N /\ \A n \in 0 .. N - 1 : n + 1 \in 0 .. N
    OBVIOUS
  <2>2. 0 \in G
    BY <1>2, <2>1
  <2>3. ASSUME NEW n \in 0 .. N - 1, n \in G
        PROVE  n + 1 \in G
    <3>1. PICK at : Enumerates(f[n], at, is, chosen, n)
      BY <2>3
    <3>2. \E to : Enumerates(f[n + 1], to, is, chosen, n + 1)
      BY <1>3, <3>1
    <3> QED BY <2>1, <3>2
  <2> QED BY <2>2, <2>3
<1>5. N \in G
  <2> HIDE DEF G
  <2>1. \A k \in 0 .. N : k \in G
    BY <1>4, UpToLast
  <2> QED BY <2>1
<1> QED BY <1>5

LEMMA BasesAre ==
  ASSUME images \in Seq(Image), NEW chosen, NEW q, q = Bases(chosen)
  PROVE  \E at : Enumerates(q, at, images, chosen, Len(images))
<1> DEFINE body(g) == [k \in 0 .. Len(images) |-> IF k = 0 THEN <<>>
                         ELSE IF k \in chosen THEN Append(g[k - 1], images[k].base) ELSE g[k - 1]]
           t == CHOOSE g : g = body(g)
<1>1. q = t[Len(images)]
  BY DEF Bases
<1>2. Len(images) \in Nat
  OBVIOUS
<1>3. PICK n, is : n = Len(images) /\ is = images
  OBVIOUS
<1>4. is \in Seq(Image) /\ n \in Nat /\ n <= Len(is)
  BY <1>2, <1>3
<1>5. PICK g : KeptIs(g, is, chosen, n)
  BY <1>4, KeptExists
<1>6. t = body(t)
  <2>1. g = body(g)
    BY <1>3, <1>5 DEF KeptIs
  <2> HIDE DEF body
  <2> QED BY <2>1
<1>7. PICK f : f = t
  OBVIOUS
<1>8. KeptIs(f, is, chosen, n)
  <2>1. f = body(f)
    BY <1>6, <1>7
  <2> QED BY <1>3, <2>1 DEF KeptIs
<1>9. \E at : Enumerates(f[n], at, is, chosen, n)
  BY <1>4, <1>8, KeptRight
<1> QED BY <1>1, <1>3, <1>7, <1>9

-----------------------------------------------------------------------------
(* The calls under way: none, those to the images of a load, to a new thread, *)
(* to an image that is let go, or to what is left at the exit.                *)
Phases == {"mapped", "attaching", "attached", "detaching", "gone"}
Tables ==
    /\ images \in Seq(Image) /\ by_name \in [DllNames -> 0 .. Arena] /\ phase \in [1 .. Arena -> Phases]
    /\ Placed(images) /\ Named(images, by_name, {})
    /\ Len(images) <= Arena /\ \A i \in DOMAIN images : images[i].base <= Len(images)

Quiet(i) == phase[images[i].base] = IF images[i].attached THEN "attached" ELSE "gone"
Unmapped == \A b \in Len(images) + 1 .. Arena : phase[b] = "mapped"
AllAttached == freed \/ ending \/ \A i \in DOMAIN images : images[i].attached

Resting ==
    /\ in_call = NoCallNow /\ cb_stack = <<>>
    /\ \A i \in DOMAIN images : Quiet(i)
    /\ AllAttached

Calls(reason, base, rest) ==
    in_call.reason = reason /\ in_call.base = base /\ cb_stack = <<rest>> /\ in_call # NoCallNow

Attaching(c, rest) ==
    /\ Calls("attach", images[c].base, rest) /\ ~freed /\ ~ending
    /\ Len(rest) = Len(images) - c
    /\ \A k \in DOMAIN rest : rest[k] = images[c + k].base
    /\ \A i \in DOMAIN images :
          /\ images[i].attached
          /\ phase[images[i].base] = IF i < c THEN "attached" ELSE IF i = c THEN "attaching" ELSE "mapped"
Telling(base, rest) ==
    /\ Calls("thread", base, rest) /\ ~ending
    /\ phase[base] = "attached" /\ \A k \in DOMAIN rest : phase[rest[k]] = "attached"
    /\ \A i \in DOMAIN images : Quiet(i)
    /\ AllAttached
Freeing(c) ==
    /\ Calls("detach", images[c].base, <<>>) /\ freed /\ ~ending
    /\ ~images[c].attached /\ phase[images[c].base] = "detaching"
    /\ \A i \in DOMAIN images : i # c => Quiet(i)
\* at says where in the images those still to be called stand.
Leaving(c, rest, at) ==
    /\ Calls("detach", images[c].base, rest) /\ ending
    /\ \A k \in DOMAIN rest : at[k] \in 1 .. c - 1 /\ rest[k] = images[at[k]].base
    /\ \A j, k \in DOMAIN rest : j < k => at[k] < at[j]
    /\ \A i \in DOMAIN images :
          /\ ~images[i].attached
          /\ i = c => phase[images[i].base] = "detaching"
          /\ i > c => phase[images[i].base] = "gone"
          /\ i < c => \/ phase[images[i].base] = "gone" /\ \A k \in DOMAIN rest : at[k] # i
                      \/ phase[images[i].base] = "attached" /\ \E k \in DOMAIN rest : at[k] = i

UnderWay ==
    \E rest \in Seq(1 .. Arena) :
       \/ \E c \in DOMAIN images : Attaching(c, rest) \/ Freeing(c)
       \/ \E base \in 1 .. Arena : Telling(base, rest)
       \/ \E c \in DOMAIN images : \E at : Leaving(c, rest, at)

DllInv == Tables /\ Unmapped /\ (Resting \/ UnderWay)

LEMMA ImagesAre ==
  ASSUME Tables
  PROVE  /\ Len(images) \in Nat /\ DOMAIN images = 1 .. Len(images) /\ Arena \in Nat
         /\ \A i \in DOMAIN images : /\ images[i] \in Image /\ images[i].base \in 1 .. Arena
                                      /\ images[i].attached \in BOOLEAN
                                      /\ images[i].base <= Len(images) /\ images[i].base \in 1 .. Len(images)
<1>1. images \in Seq(Image) /\ Arena \in Nat
  BY DllsAssumption DEF Tables
<1>2. \A i \in DOMAIN images : images[i] \in Image
  BY <1>1
<1>3. \A m \in Image : m.base \in 1 .. Arena /\ m.attached \in BOOLEAN
  BY DEF Image
<1>4. \A i \in DOMAIN images : images[i].base <= Len(images)
  BY DEF Tables
<1>5. Len(images) \in Nat /\ DOMAIN images = 1 .. Len(images)
  BY <1>1
<1>6. \A i \in DOMAIN images : images[i].base \in 1 .. Len(images)
  <2> SUFFICES ASSUME NEW i \in DOMAIN images
               PROVE  images[i].base \in 1 .. Len(images)
    OBVIOUS
  <2>1. PICK b, n : b = images[i].base /\ n = Len(images)
    OBVIOUS
  <2>2. b \in 1 .. Arena /\ b <= n /\ n \in Nat
    BY <1>2, <1>3, <1>4, <1>5, <2>1
  <2>3. b \in 1 .. n
    BY <1>1, <2>2
  <2> QED BY <2>1, <2>3
<1> QED BY <1>1, <1>2, <1>3, <1>4, <1>5, <1>6

LEMMA OrderFollows == DllInv => NotifiedInOrder
<1> SUFFICES ASSUME DllInv, NEW i \in DOMAIN images, NEW b, b = images[i].base
             PROVE  /\ phase[b] # "wrong"
                    /\ phase[b] = "attaching" => \A d \in images[i].bound : phase[d] = "attached"
                    /\ ending /\ phase[b] = "detaching" =>
                         \A j \in DOMAIN images : b \in images[j].bound => phase[images[j].base] \in {"detaching", "gone"}
  BY DEF NotifiedInOrder
<1>1. Tables
  BY DEF DllInv
<1>2. /\ Len(images) \in Nat /\ DOMAIN images = 1 .. Len(images) /\ b \in 1 .. Arena
      /\ \A k \in DOMAIN images : images[k].attached \in BOOLEAN
  BY <1>1, ImagesAre
<1>3. phase[b] \in Phases
  BY <1>1, <1>2 DEF Tables
<1>4. phase[b] # "wrong"
  BY <1>3 DEF Phases
<1>5. CASE \A k \in DOMAIN images : Quiet(k)
  <2>1. phase[b] \in {"attached", "gone"}
    BY <1>5 DEF Quiet
  <2> QED BY <1>4, <2>1
<1>6. ASSUME NEW c \in DOMAIN images, NEW rest, Attaching(c, rest)
      PROVE  /\ phase[b] = "attaching" => \A d \in images[i].bound : phase[d] = "attached"
             /\ ~ending
  <2>1. ~ending
    BY <1>6 DEF Attaching
  <2>2. ASSUME phase[b] = "attaching", NEW d \in images[i].bound
        PROVE  phase[d] = "attached"
    <3>1. i = c
      BY <1>6, <2>2 DEF Attaching
    <3>2. PICK j \in 1 .. i - 1 : images[j].base = d
      BY <1>1, <2>2 DEF Tables, Placed
    <3>3. j \in DOMAIN images /\ j < c
      BY <1>2, <3>1
    <3> QED BY <1>6, <3>2, <3>3 DEF Attaching
  <2> QED BY <2>1, <2>2
<1>7. ASSUME NEW c \in DOMAIN images, Freeing(c)
      PROVE  ~ending /\ phase[b] # "attaching"
  <2>1. CASE i = c
    BY <1>7, <2>1 DEF Freeing
  <2>2. CASE i # c
    BY <1>7, <2>2 DEF Freeing, Quiet
  <2> QED BY <2>1, <2>2
<1>8. ASSUME NEW c \in DOMAIN images, NEW rest, NEW at, Leaving(c, rest, at)
      PROVE  /\ phase[b] # "attaching"
             /\ phase[b] = "detaching" =>
                  \A j \in DOMAIN images : b \in images[j].bound => phase[images[j].base] \in {"detaching", "gone"}
  <2>1. /\ i = c => phase[b] = "detaching"
        /\ i > c => phase[b] = "gone"
        /\ i < c => phase[b] \in {"gone", "attached"}
    BY <1>8 DEF Leaving
  <2>2. i < c \/ i = c \/ i > c
    BY <1>2
  <2>3. ASSUME phase[b] = "detaching", NEW j \in DOMAIN images, b \in images[j].bound
        PROVE  phase[images[j].base] = "gone"
    <3>1. i = c
      BY <2>1, <2>2, <2>3
    <3>2. PICK k \in 1 .. j - 1 : images[k].base = b
      BY <1>1, <2>3 DEF Tables, Placed
    <3>3. k \in DOMAIN images
      BY <1>2
    <3>4. k = i
      BY <1>1, <3>2, <3>3 DEF Tables, Placed
    <3>5. j > c
      BY <1>2, <3>1, <3>2, <3>4
    <3> QED BY <1>8, <3>5 DEF Leaving
  <2> QED BY <2>1, <2>2, <2>3
<1> QED BY <1>4, <1>5, <1>6, <1>7, <1>8 DEF DllInv, Resting, UnderWay, Telling

LEMMA DllStart == DllInit => DllInv
<1> SUFFICES ASSUME DllInit
             PROVE  DllInv
  OBVIOUS
<1>1. Arena \in Nat
  BY DllsAssumption
<1>2. images = <<>> /\ Len(images) = 0 /\ DOMAIN images = {} /\ images \in Seq(Image)
  BY DEF DllInit
<1>3. by_name \in [DllNames -> 0 .. Arena] /\ \A d \in DllNames : by_name[d] = Unloaded
  BY <1>1 DEF DllInit, Unloaded
<1>4. phase \in [1 .. Arena -> Phases] /\ Unmapped
  BY <1>1, <1>2 DEF DllInit, Phases, Unmapped
<1>5. Tables
  BY <1>1, <1>2, <1>3, <1>4 DEF Tables, Placed, Named
<1>6. Resting
  BY <1>2 DEF DllInit, Resting, AllAttached
<1> QED BY <1>4, <1>5, <1>6 DEF DllInv

-----------------------------------------------------------------------------
(* The calls of the guest.                                                   *)

\* What the invariant sees of the images.
SameImages(is, to) ==
    /\ to \in Seq(Image) /\ Len(to) = Len(is)
    /\ \A i \in DOMAIN is : /\ to[i].base = is[i].base /\ to[i].bound = is[i].bound
                            /\ to[i].attached = is[i].attached

LEMMA SamePlaced ==
  ASSUME NEW is \in Seq(Image), NEW to, DOMAIN to = DOMAIN is,
         \A i \in DOMAIN is : to[i].base = is[i].base /\ to[i].bound = is[i].bound
  PROVE  /\ Placed(is) => Placed(to)
         /\ \A names, loading : Named(is, names, loading) => Named(to, names, loading)
<1>1. DOMAIN is = 1 .. Len(is) /\ Len(is) \in Nat
  OBVIOUS
<1>2. \A i \in DOMAIN is : \A j \in 1 .. i - 1 : j \in DOMAIN is
  BY <1>1
<1>3. Placed(is) => Placed(to)
  BY <1>2 DEF Placed
<1>4. \A names, loading : Named(is, names, loading) => Named(to, names, loading)
  BY DEF Named
<1> QED BY <1>3, <1>4

LEMMA AlikePlaced ==
  ASSUME NEW is \in Seq(Image), NEW to, SameImages(is, to), NEW names, NEW loading
  PROVE  /\ DOMAIN to = DOMAIN is
         /\ Placed(is) => Placed(to)
         /\ Named(is, names, loading) => Named(to, names, loading)
<1>1. /\ DOMAIN to = DOMAIN is
      /\ \A i \in DOMAIN is : to[i].base = is[i].base /\ to[i].bound = is[i].bound
  BY DEF SameImages
<1> QED BY <1>1, SamePlaced

LEMMA AlikeRests ==
  ASSUME Tables, Unmapped, Resting, SameImages(images, images'),
         UNCHANGED <<cb_stack, in_call, phase>>,
         freed' = freed \/ freed' = TRUE, ending' = ending \/ ending' = TRUE,
         by_name' \in [DllNames -> 0 .. Arena], Named(images, by_name', {})
  PROVE  DllInv'
<1>1. PICK is, to, names : is = images /\ to = images' /\ names = by_name'
  OBVIOUS
<1>2. /\ is \in Seq(Image) /\ SameImages(is, to) /\ DOMAIN is = 1 .. Len(is) /\ Len(is) \in Nat
      /\ Placed(is) /\ Named(is, names, {})
      /\ to \in Seq(Image) /\ Len(to) = Len(is)
      /\ \A i \in DOMAIN is : to[i].base = is[i].base /\ to[i].attached = is[i].attached
  BY <1>1 DEF Tables, SameImages
<1>3. DOMAIN to = DOMAIN is /\ Placed(to) /\ Named(to, names, {})
  BY <1>2, AlikePlaced
<1>4. Tables'
  BY <1>1, <1>2, <1>3 DEF Tables
<1>5. Unmapped'
  BY <1>1, <1>2 DEF Unmapped
<1>6. Resting'
  BY <1>1, <1>2, <1>3 DEF Resting, Quiet, AllAttached
<1> QED BY <1>4, <1>5, <1>6 DEF DllInv

LEMMA AlikeIf ==
  ASSUME NEW is \in Seq(Image), NEW to, to = [i \in DOMAIN is |-> to[i]],
         \A i \in DOMAIN is : /\ to[i] \in Image /\ to[i].base = is[i].base /\ to[i].bound = is[i].bound
                              /\ to[i].attached = is[i].attached
  PROVE  SameImages(is, to)
<1>1. DOMAIN is = 1 .. Len(is) /\ Len(is) \in Nat
  OBVIOUS
<1>2. to \in [1 .. Len(is) -> Image]
  BY <1>1
<1>3. to \in Seq(Image) /\ Len(to) = Len(is)
  BY <1>1, <1>2
<1> QED BY <1>3 DEF SameImages

LEMMA OneRests ==
  ASSUME DllInv, NEW t, Runs(t)
  PROVE  Tables /\ Unmapped /\ Resting
<1>1. in_call = NoCallNow
  BY DEF Runs
<1> QED BY <1>1 DEF DllInv, UnderWay, Attaching, Freeing, Telling, Leaving, Calls

LEMMA SameKeeps ==
  ASSUME DllInv, UNCHANGED <<images, by_name, cb_stack, in_call, phase, ending, freed>>
  PROVE  DllInv'
BY DEF DllInv, Tables, Unmapped, Resting, UnderWay, Attaching, Freeing, Telling, Leaving, Calls, Quiet, AllAttached

LEMMA CountedKeeps ==
  ASSUME DllInv, NEW t, Runs(t), NEW n, images' = [images EXCEPT ![n].refs = @ + 1],
         UNCHANGED <<by_name, cb_stack, in_call, started, ending, phase, freed>>
  PROVE  DllInv'
<1>1. Tables /\ Unmapped /\ Resting
  BY OneRests
<1>2. PICK is, to : is = images /\ to = images'
  OBVIOUS
<1>3. is \in Seq(Image) /\ to = [is EXCEPT ![n] = [is[n] EXCEPT !.refs = is[n].refs + 1]]
  BY <1>1, <1>2 DEF Tables
<1>4. ASSUME NEW i \in DOMAIN is
      PROVE  /\ to[i] \in Image /\ to[i].base = is[i].base /\ to[i].bound = is[i].bound
             /\ to[i].attached = is[i].attached
  <2>1. is[i] \in Image
    BY <1>3
  <2>2. CASE i = n
    <3>1. to[i] = [is[i] EXCEPT !.refs = is[i].refs + 1]
      BY <1>3, <2>2
    <3> QED BY <2>1, <3>1 DEF Image
  <2>3. CASE i # n
    BY <1>3, <2>1, <2>3
  <2> QED BY <2>2, <2>3
<1>5. SameImages(is, to)
  <2>1. to = [i \in DOMAIN is |-> to[i]]
    BY <1>3
  <2> QED BY <1>3, <1>4, <2>1, AlikeIf
<1>6. by_name' \in [DllNames -> 0 .. Arena] /\ Named(images, by_name', {})
  BY <1>1 DEF Tables
<1> QED BY <1>1, <1>2, <1>5, <1>6, AlikeRests

LEMMA DisableKeeps ==
  ASSUME DllInv, NEW t, NEW n \in DOMAIN images, DisableThreadLibraryCalls(t, n)
  PROVE  DllInv'
<1>0. Runs(t) /\ images' = [images EXCEPT ![n].disabled = TRUE]
      /\ UNCHANGED <<by_name, cb_stack, in_call, started, ending, phase, freed>>
  BY DEF DisableThreadLibraryCalls
<1>1. Tables /\ Unmapped /\ Resting
  BY <1>0, OneRests
<1>2. PICK is, to : is = images /\ to = images'
  OBVIOUS
<1>3. is \in Seq(Image) /\ to = [is EXCEPT ![n] = [is[n] EXCEPT !.disabled = TRUE]]
  BY <1>0, <1>1, <1>2 DEF Tables
<1>4. ASSUME NEW i \in DOMAIN is
      PROVE  /\ to[i] \in Image /\ to[i].base = is[i].base /\ to[i].bound = is[i].bound
             /\ to[i].attached = is[i].attached
  <2>1. is[i] \in Image
    BY <1>3
  <2>2. CASE i = n
    <3>1. to[i] = [is[i] EXCEPT !.disabled = TRUE]
      BY <1>3, <2>2
    <3> QED BY <2>1, <3>1 DEF Image
  <2>3. CASE i # n
    BY <1>3, <2>1, <2>3
  <2> QED BY <2>2, <2>3
<1>5. SameImages(is, to)
  <2>1. to = [i \in DOMAIN is |-> to[i]]
    BY <1>3
  <2> QED BY <1>3, <1>4, <2>1, AlikeIf
<1>6. by_name' \in [DllNames -> 0 .. Arena] /\ Named(images, by_name', {})
  BY <1>0, <1>1 DEF Tables
<1> QED BY <1>0, <1>1, <1>2, <1>5, <1>6, AlikeRests

LEMMA InvokeIs ==
  ASSUME cb_stack = <<>>, phase \in [1 .. Arena -> Phases], Arena \in Nat,
         NEW t, NEW bases \in Seq(1 .. Arena), bases # <<>>, NEW reason, invoke_callbacks(t, bases, reason)
  PROVE  \E base \in 1 .. Arena, rest \in Seq(1 .. Arena) :
            /\ base = Head(bases) /\ rest = Tail(bases)
            /\ cb_stack' = <<rest>> /\ in_call'.base = base /\ in_call'.reason = reason
            /\ in_call' # NoCallNow
            /\ phase' = [phase EXCEPT ![base] = Phase(reason, phase[base])]
<1>1. PICK base, rest : base = Head(bases) /\ rest = Tail(bases)
  OBVIOUS
<1>2. base \in 1 .. Arena /\ rest \in Seq(1 .. Arena)
  BY <1>1
<1>3. /\ cb_stack' = Append(cb_stack, rest)
      /\ in_call' = [thread |-> t, base |-> base, reason |-> reason]
      /\ phase' = [phase EXCEPT ![base] = Phase(reason, @)]
  BY <1>1 DEF invoke_callbacks, Entering
<1>4. cb_stack' = <<rest>>
  BY <1>3
<1>5. in_call'.base = base /\ in_call'.reason = reason /\ in_call' # NoCallNow
  <2>1. in_call'.base = base /\ in_call'.reason = reason
    BY <1>3
  <2>2. NoCallNow.base = 0
    BY DEF NoCallNow, Unloaded
  <2>3. base # 0
    BY <1>2
  <2> QED BY <2>1, <2>2, <2>3
<1>6. phase' = [phase EXCEPT ![base] = Phase(reason, phase[base])]
  BY <1>2, <1>3
<1> QED BY <1>1, <1>2, <1>4, <1>5, <1>6

LEMMA FreeKeeps ==
  ASSUME DllInv, NEW t, NEW c \in DOMAIN images, FreeLibrary(t, c)
  PROVE  DllInv'
<1>1. Runs(t) /\ Tables /\ Unmapped /\ Resting /\ ~ending
  BY OneRests DEF FreeLibrary, Runs
<1>2. PICK is, to, last, refs : /\ is = images /\ to = images' /\ last = (is[c].refs <= 1 /\ is[c].attached)
                                /\ refs = IF is[c].refs > 0 THEN is[c].refs - 1 ELSE 0
  OBVIOUS
<1>3. /\ is \in Seq(Image) /\ DOMAIN is = 1 .. Len(is) /\ c \in DOMAIN is
      /\ \A i \in DOMAIN is : is[i] \in Image /\ is[i].base \in 1 .. Arena /\ is[i].attached \in BOOLEAN
      /\ Arena \in Nat /\ Placed(is) /\ Named(is, by_name, {})
  BY <1>1, <1>2, ImagesAre DEF Tables
<1>4. /\ to = [is EXCEPT ![c] = [is[c] EXCEPT !.refs = refs, !.attached = is[c].attached /\ ~last]]
      /\ freed' = TRUE /\ UNCHANGED <<by_name, ending>>
      /\ invoke_callbacks(t, IF last THEN <<is[c].base>> ELSE <<>>, "detach")
  BY <1>2, <1>3 DEF FreeLibrary
<1>5. refs \in Nat
  <2>1. is[c].refs \in Nat
    BY <1>3 DEF Image
  <2> QED BY <1>2, <2>1
<1>6. ASSUME NEW i \in DOMAIN is
      PROVE  /\ to[i] \in Image /\ to[i].base = is[i].base /\ to[i].bound = is[i].bound
             /\ to[i].attached = (is[i].attached /\ (i = c => ~last))
  <2>1. CASE i = c
    <3>1. to[i] = [is[i] EXCEPT !.refs = refs, !.attached = is[i].attached /\ ~last]
      BY <1>3, <1>4, <2>1
    <3>2. (is[i].attached /\ ~last) \in BOOLEAN
      OBVIOUS
    <3> QED BY <1>3, <1>5, <2>1, <3>1 DEF Image
  <2>2. CASE i # c
    BY <1>3, <1>4, <2>2
  <2> QED BY <2>1, <2>2
<1>7. to = [i \in DOMAIN is |-> to[i]]
  BY <1>4
<1>8. by_name' \in [DllNames -> 0 .. Arena] /\ Named(images, by_name', {})
  BY <1>1, <1>4 DEF Tables
<1>9. CASE ~last
  <2>1. SameImages(is, to)
    <3>1. \A i \in DOMAIN is : to[i].attached = is[i].attached
      BY <1>3, <1>6, <1>9
    <3>2. is \in Seq(Image) /\ \A i \in DOMAIN is : /\ to[i] \in Image /\ to[i].base = is[i].base
                              /\ to[i].bound = is[i].bound /\ to[i].attached = is[i].attached
      BY <1>3, <1>6, <3>1
    <3> HIDE <1>3, <1>6, <3>1
    <3> QED BY <1>7, <3>2, AlikeIf
  <2>2. UNCHANGED <<cb_stack, in_call, phase>>
    BY <1>4, <1>9 DEF invoke_callbacks
  <2> QED BY <1>1, <1>2, <1>4, <1>8, <2>1, <2>2, AlikeRests
<1>10. CASE last
  <2>1. PICK b, bases : b = is[c].base /\ bases = <<b>>
    OBVIOUS
  <2>2. bases \in Seq(1 .. Arena) /\ bases # <<>> /\ Head(bases) = b /\ Tail(bases) = <<>>
    BY <1>3, <2>1
  <2>3. invoke_callbacks(t, bases, "detach")
    BY <1>4, <1>10, <2>1
  <2>4. /\ cb_stack' = <<<<>>>> /\ in_call'.base = b /\ in_call'.reason = "detach" /\ in_call' # NoCallNow
        /\ phase' = [phase EXCEPT ![b] = Phase("detach", phase[b])]
    <3>1. cb_stack = <<>> /\ phase \in [1 .. Arena -> Phases]
      BY <1>1 DEF Resting, Tables
    <3>2. PICK base \in 1 .. Arena, rest \in Seq(1 .. Arena) :
            /\ base = Head(bases) /\ rest = Tail(bases)
            /\ cb_stack' = <<rest>> /\ in_call'.base = base /\ in_call'.reason = "detach"
            /\ in_call' # NoCallNow
            /\ phase' = [phase EXCEPT ![base] = Phase("detach", phase[base])]
      BY <1>3, <2>2, <2>3, <3>1, InvokeIs
    <3> QED BY <2>2, <3>2
  <2>5. is[c].attached /\ phase[b] = "attached"
    BY <1>1, <1>2, <1>3, <1>10, <2>1 DEF Resting, Quiet
  <2>6. b \in 1 .. Arena /\ phase \in [1 .. Arena -> Phases]
    BY <1>1, <1>3, <2>1 DEF Tables
  <2>7. phase' = [phase EXCEPT ![b] = "detaching"]
    BY <2>4, <2>5 DEF Phase
  <2>8. phase' \in [1 .. Arena -> Phases] /\ phase'[b] = "detaching" /\ \A d \in 1 .. Arena : d # b => phase'[d] = phase[d]
    BY <2>6, <2>7 DEF Phases
  <2>9. to \in Seq(Image) /\ DOMAIN to = DOMAIN is /\ Len(to) = Len(is)
    <3>1. to \in [1 .. Len(is) -> Image] /\ Len(is) \in Nat
      BY <1>3, <1>6, <1>7
    <3> QED BY <1>3, <3>1
  <2>10. Placed(to) /\ Named(to, by_name, {})
    <3>1. \A i \in DOMAIN is : to[i].base = is[i].base /\ to[i].bound = is[i].bound
      BY <1>6
    <3> QED BY <1>3, <2>9, <3>1, SamePlaced
  <2>11. Tables'
    <3>1. \A i \in DOMAIN to : to[i].base <= Len(to)
      BY <1>1, <1>2, <1>6, <2>9 DEF Tables
    <3> QED BY <1>1, <1>2, <1>4, <2>8, <2>9, <2>10, <3>1 DEF Tables
  <2>12. Unmapped'
    <3>1. b \in 1 .. Len(images)
      BY <1>1, <1>2, <2>1, ImagesAre
    <3>2. \A d \in Len(images) + 1 .. Arena : d # b /\ d \in 1 .. Arena
      BY <1>1, <3>1, ImagesAre
    <3> QED BY <1>1, <1>2, <2>8, <2>9, <3>2 DEF Unmapped
  <2>13. \A i \in DOMAIN to : i # c => phase'[to[i].base] = IF to[i].attached THEN "attached" ELSE "gone"
    <3> SUFFICES ASSUME NEW i \in DOMAIN is, i # c
                 PROVE  phase'[to[i].base] = IF to[i].attached THEN "attached" ELSE "gone"
      BY <2>9
    <3>1. to[i].base = is[i].base /\ to[i].attached = is[i].attached
      BY <1>3, <1>6
    <3>2. is[i].base # b
      BY <1>3, <2>1 DEF Placed
    <3>3. phase'[is[i].base] = phase[is[i].base]
      BY <1>3, <2>8, <3>2
    <3> QED BY <1>1, <1>2, <3>1, <3>3 DEF Resting, Quiet
  <2>14. Freeing(c)'
    <3>1. to[c].base = b /\ ~to[c].attached
      BY <1>3, <1>6, <1>10, <2>1
    <3> QED BY <1>1, <1>2, <1>4, <2>4, <2>8, <2>13, <3>1 DEF Freeing, Calls, Quiet
  <2>15. UnderWay'
    <3>1. c \in DOMAIN images' /\ <<>> \in Seq(1 .. Arena)
      BY <1>2, <1>3, <2>9
    <3> QED BY <2>14, <3>1 DEF UnderWay
  <2> QED BY <2>11, <2>12, <2>15 DEF DllInv
<1>11. last \in BOOLEAN
  BY <1>2
<1> QED BY <1>9, <1>10, <1>11

LEMMA TellKeeps ==
  ASSUME DllInv, NEW t, thread_tls_attach(t)
  PROVE  DllInv'
<1>1. /\ in_call = NoCallNow /\ ~ending
      /\ invoke_callbacks(t, thread_notify_targets, "thread")
      /\ UNCHANGED <<images, by_name, ending, freed>>
  BY DEF thread_tls_attach
<1>2. Tables /\ Unmapped /\ Resting
  BY <1>1 DEF DllInv, UnderWay, Attaching, Freeing, Telling, Leaving, Calls
<1>3. PICK chosen, q : /\ chosen = {i \in DOMAIN images : images[i].attached /\ ~images[i].disabled}
                       /\ q = thread_notify_targets
  OBVIOUS
<1>4. \A i \in chosen : i \in DOMAIN images /\ images[i].attached
  BY <1>3
<1>5. PICK at : Enumerates(q, at, images, chosen, Len(images))
  <2>1. q = Bases(chosen) /\ images \in Seq(Image)
    BY <1>2, <1>3 DEF thread_notify_targets, Tables
  <2> QED BY <2>1, BasesAre
<1>6. q \in Seq(1 .. Arena) /\ \A j \in 1 .. Len(q) : phase[q[j]] = "attached"
  <2>1. \A j \in 1 .. Len(q) : at[j] \in chosen /\ q[j] = images[at[j]].base
    BY <1>5 DEF Enumerates
  <2>2. \A i \in DOMAIN images : images[i].attached => phase[images[i].base] = "attached"
    BY <1>2 DEF Resting, Quiet
  <2> QED BY <1>4, <1>5, <2>1, <2>2 DEF Enumerates
<1>7. CASE q = <<>>
  <2>1. UNCHANGED <<cb_stack, in_call, phase>>
    BY <1>1, <1>3, <1>7 DEF invoke_callbacks
  <2> QED BY <1>1, <2>1, SameKeeps
<1>8. CASE q # <<>>
  <2>1. phase \in [1 .. Arena -> Phases] /\ Arena \in Nat /\ cb_stack = <<>>
    BY <1>2, DllsAssumption DEF Tables, Resting
  <2>2. invoke_callbacks(t, q, "thread")
    BY <1>1, <1>3
  <2>3. PICK base \in 1 .. Arena, rest \in Seq(1 .. Arena) :
            /\ base = Head(q) /\ rest = Tail(q)
            /\ cb_stack' = <<rest>> /\ in_call'.base = base /\ in_call'.reason = "thread"
            /\ in_call' # NoCallNow
            /\ phase' = [phase EXCEPT ![base] = Phase("thread", phase[base])]
    BY <1>6, <1>8, <2>1, <2>2, InvokeIs
  <2>4. phase[base] = "attached" /\ \A k \in DOMAIN rest : phase[rest[k]] = "attached"
    <3>1. Len(q) \in Nat /\ Len(q) > 0 /\ base = q[1] /\ Len(rest) = Len(q) - 1
          /\ \A k \in 1 .. Len(rest) : rest[k] = q[k + 1]
      BY <1>6, <1>8, <2>3
    <3>2. 1 \in 1 .. Len(q) /\ \A k \in 1 .. Len(rest) : k + 1 \in 1 .. Len(q)
      BY <3>1
    <3> QED BY <1>6, <2>3, <3>1, <3>2
  <2>5. phase' = phase
    BY <2>1, <2>3, <2>4 DEF Phase
  <2>6. Tables' /\ Unmapped'
    BY <1>1, <1>2, <2>5 DEF Tables, Unmapped
  <2>7. \A i \in DOMAIN images' : Quiet(i)'
    BY <1>1, <1>2, <2>5 DEF Resting, Quiet
  <2>8. Telling(base, rest)'
    BY <1>1, <1>2, <2>3, <2>4, <2>5, <2>7 DEF Telling, Calls, Resting, AllAttached
  <2> QED BY <2>6, <2>8 DEF DllInv, UnderWay
<1> QED BY <1>7, <1>8

LEMMA ExitKeeps ==
  ASSUME DllInv, NEW t, begin_process_exit(t)
  PROVE  DllInv'
<1>1. /\ Runs(t) /\ ending' = TRUE
      /\ images' = [i \in DOMAIN images |-> [images[i] EXCEPT !.attached = FALSE]]
      /\ invoke_callbacks(t, take_process_detach_targets, "detach")
      /\ UNCHANGED <<by_name, freed>>
  BY DEF begin_process_exit
<1>2. Tables /\ Unmapped /\ Resting /\ phase \in [1 .. Arena -> Phases] /\ cb_stack = <<>>
  BY <1>1, OneRests DEF Tables, Resting
<1>3. PICK is, to, n, q, up, chosen :
         /\ is = images /\ to = images' /\ n = Len(is)
         /\ chosen = {i \in DOMAIN is : is[i].attached} /\ up = Bases(chosen) /\ q = Reverse(up)
  OBVIOUS
<1>4. /\ is \in Seq(Image) /\ DOMAIN is = 1 .. n /\ n \in Nat /\ Arena \in Nat
      /\ \A i \in 1 .. n : /\ is[i] \in Image /\ is[i].base \in 1 .. Arena /\ is[i].attached \in BOOLEAN
                            /\ is[i].base \in 1 .. n
      /\ Placed(is) /\ Named(is, by_name, {}) /\ n <= Arena
  BY <1>2, <1>3, ImagesAre DEF Tables
<1>5. invoke_callbacks(t, q, "detach")
  BY <1>1, <1>3 DEF take_process_detach_targets
<1>6. to = [i \in 1 .. n |-> [is[i] EXCEPT !.attached = FALSE]]
  BY <1>1, <1>3, <1>4
<1>7. \A i \in 1 .. n : to[i] \in Image /\ to[i].base = is[i].base /\ to[i].bound = is[i].bound /\ ~to[i].attached
  <2> SUFFICES ASSUME NEW i \in 1 .. n
               PROVE  to[i] \in Image /\ to[i].base = is[i].base /\ to[i].bound = is[i].bound /\ ~to[i].attached
    OBVIOUS
  <2>1. to[i] = [is[i] EXCEPT !.attached = FALSE] /\ is[i] \in Image
    BY <1>4, <1>6
  <2> QED BY <2>1 DEF Image
<1>8. to \in Seq(Image) /\ DOMAIN to = 1 .. n /\ Len(to) = n
  <2>1. to \in [1 .. n -> Image]
    BY <1>6, <1>7
  <2> QED BY <1>4, <2>1
<1>9. Placed(to) /\ Named(to, by_name, {})
  BY <1>4, <1>7, <1>8, SamePlaced
<1>10. PICK at : Enumerates(up, at, is, chosen, n)
  BY <1>2, <1>3, BasesAre DEF Tables
<1>11. PICK m : m = Len(up)
  OBVIOUS
<1>12. /\ up \in Seq(1 .. Arena) /\ m \in Nat /\ at \in [1 .. m -> 1 .. n]
       /\ \A j \in 1 .. m : at[j] \in chosen /\ up[j] = is[at[j]].base
       /\ \A j, k \in 1 .. m : j < k => at[j] < at[k]
       /\ \A i \in 1 .. n : i \in chosen => \E j \in 1 .. m : at[j] = i
  BY <1>10, <1>11 DEF Enumerates
<1>13. /\ q \in Seq(1 .. Arena) /\ Len(q) = m /\ \A k \in 1 .. m : q[k] = up[m - k + 1]
  <2>1. q = [k \in 1 .. m |-> up[m - k + 1]]
    BY <1>3, <1>11 DEF Reverse
  <2>2. \A k \in 1 .. m : m - k + 1 \in 1 .. m
    BY <1>12
  <2>3. \A j \in 1 .. m : up[j] \in 1 .. Arena
    <3> SUFFICES ASSUME NEW j \in 1 .. m
                 PROVE  up[j] \in 1 .. Arena
      OBVIOUS
    <3>1. up \in Seq(1 .. Arena) /\ j \in 1 .. Len(up)
      BY <1>11, <1>12
    <3> HIDE <1>12
    <3> QED BY <3>1, ElementOfSeq
  <2>4. \A k \in 1 .. m : up[m - k + 1] \in 1 .. Arena
    <3> SUFFICES ASSUME NEW k \in 1 .. m
                 PROVE  up[m - k + 1] \in 1 .. Arena
      OBVIOUS
    <3>1. PICK j : j = m - k + 1
      OBVIOUS
    <3>2. j \in 1 .. m
      BY <2>2, <3>1
    <3>3. up[j] \in 1 .. Arena
      BY <2>3, <3>2
    <3> QED BY <3>1, <3>3
  <2>5. \A k \in 1 .. m : q[k] = up[m - k + 1]
    BY <2>1
  <2>6. q \in [1 .. m -> 1 .. Arena]
    <3>1. q = [k \in 1 .. m |-> q[k]]
      BY <2>1
    <3>2. \A k \in 1 .. m : q[k] \in 1 .. Arena
      BY <2>4, <2>5
    <3> HIDE <2>1, <2>4, <2>5
    <3> QED BY <3>1, <3>2
  <2>7. q \in Seq(1 .. Arena) /\ Len(q) = m
    <3>1. m \in Nat
      BY <1>12
    <3>2. \A S, f : f \in [1 .. m -> S] => f \in Seq(S) /\ Len(f) = m
      BY <3>1
    <3> QED BY <2>6, <3>2
  <2> QED BY <2>5, <2>7
<1>14. \A i \in 1 .. n : /\ phase[is[i].base] = IF is[i].attached THEN "attached" ELSE "gone"
                        /\ is[i].attached = (i \in chosen)
  BY <1>2, <1>3, <1>4 DEF Resting, Quiet
<1>15. CASE m = 0
  <2>1. q = <<>>
    BY <1>13, <1>15
  <2>2. UNCHANGED <<cb_stack, in_call, phase>>
    BY <1>5, <2>1 DEF invoke_callbacks
  <2>3. \A i \in 1 .. n : is[i].attached = FALSE
    <3> SUFFICES ASSUME NEW i \in 1 .. n, is[i].attached
                 PROVE  FALSE
      BY <1>4
    <3>1. i \in chosen
      BY <1>14
    <3>2. PICK j \in 1 .. m : at[j] = i
      BY <1>12, <3>1
    <3> QED BY <1>15, <3>2
  <2>4. SameImages(is, to)
    <3>1. \A i \in 1 .. n : to[i].attached = is[i].attached
      <4> SUFFICES ASSUME NEW i \in 1 .. n
                   PROVE  to[i].attached = is[i].attached
        OBVIOUS
      <4>1. to[i].attached \in BOOLEAN /\ ~to[i].attached
        BY <1>7 DEF Image
      <4> QED BY <2>3, <4>1
    <3> QED BY <1>3, <1>4, <1>7, <1>8, <3>1 DEF SameImages
  <2>5. by_name' \in [DllNames -> 0 .. Arena] /\ Named(images, by_name', {})
    BY <1>1, <1>2 DEF Tables
  <2> QED BY <1>1, <1>2, <1>3, <2>2, <2>4, <2>5, AlikeRests
<1>16. CASE m # 0
  <2>1. q # <<>>
    BY <1>12, <1>13, <1>16
  <2>2. PICK base \in 1 .. Arena, rest \in Seq(1 .. Arena) :
            /\ base = Head(q) /\ rest = Tail(q)
            /\ cb_stack' = <<rest>> /\ in_call'.base = base /\ in_call'.reason = "detach"
            /\ in_call' # NoCallNow
            /\ phase' = [phase EXCEPT ![base] = Phase("detach", phase[base])]
    <3>1. phase \in [1 .. Arena -> Phases] /\ cb_stack = <<>> /\ Arena \in Nat
          /\ q \in Seq(1 .. Arena) /\ q # <<>>
      BY <1>2, <1>4, <1>13, <2>1
    <3> HIDE <1>2, <1>4, <1>13, <2>1
    <3> QED BY <1>5, <3>1, InvokeIs
  <2>3. PICK c, down : c = at[m] /\ down = [k \in 1 .. m - 1 |-> at[m - k]]
    OBVIOUS
  <2>4. m \in 1 .. m /\ c \in 1 .. n /\ c \in chosen /\ base = is[c].base
    <3>1. m \in 1 .. m /\ 1 \in 1 .. m /\ m - 1 + 1 = m
      BY <1>12, <1>16
    <3>2. base = q[1] /\ q[1] = up[m]
      BY <1>13, <2>1, <2>2, <3>1
    <3> QED BY <1>12, <2>3, <3>1, <3>2
  <2>5. Len(rest) = m - 1 /\ DOMAIN rest = 1 .. m - 1 /\ \A k \in 1 .. m - 1 : rest[k] = q[k + 1]
    BY <1>12, <1>13, <1>16, <2>1, <2>2
  <2>6. \A k \in 1 .. m - 1 : m - k \in 1 .. m /\ m - k < m /\ k + 1 \in 1 .. m /\ m - (k + 1) + 1 = m - k
    BY <1>12
  <2>7. \A k \in 1 .. m - 1 : down[k] = at[m - k] /\ down[k] \in chosen /\ rest[k] = is[down[k]].base
    <3> SUFFICES ASSUME NEW k \in 1 .. m - 1
                 PROVE  down[k] = at[m - k] /\ down[k] \in chosen /\ rest[k] = is[down[k]].base
      OBVIOUS
    <3>1. PICK j : j = m - k
      OBVIOUS
    <3>2. j \in 1 .. m /\ k + 1 \in 1 .. m /\ m - (k + 1) + 1 = j
      BY <2>6, <3>1
    <3>3. down[k] = at[j]
      BY <2>3, <3>1
    <3>4. rest[k] = q[k + 1] /\ q[k + 1] = up[j]
      BY <1>13, <2>5, <3>2
    <3>5. at[j] \in chosen /\ up[j] = is[at[j]].base
      BY <1>12, <3>2
    <3> QED BY <3>1, <3>3, <3>4, <3>5
  <2>8. \A k \in 1 .. m - 1 : down[k] \in 1 .. c - 1
    <3> SUFFICES ASSUME NEW k \in 1 .. m - 1
                 PROVE  down[k] \in 1 .. c - 1
      OBVIOUS
    <3>1. down[k] = at[m - k] /\ at[m - k] < at[m] /\ at[m - k] \in 1 .. n
      BY <1>12, <2>4, <2>6, <2>7
    <3> QED BY <1>4, <2>3, <2>4, <3>1
  <2>9. \A j, k \in 1 .. m - 1 : j < k => down[k] < down[j]
    <3> SUFFICES ASSUME NEW j \in 1 .. m - 1, NEW k \in 1 .. m - 1, j < k
                 PROVE  down[k] < down[j]
      OBVIOUS
    <3>1. m - k < m - j
      BY <1>12
    <3> QED BY <1>12, <2>6, <2>7, <3>1
  <2>10. \A i \in chosen : i # c => \E k \in 1 .. m - 1 : down[k] = i
    <3> SUFFICES ASSUME NEW i \in chosen, i # c
                 PROVE  \E k \in 1 .. m - 1 : down[k] = i
      OBVIOUS
    <3>1. i \in 1 .. n
      BY <1>3, <1>4
    <3>2. PICK j \in 1 .. m : at[j] = i
      BY <1>12, <3>1
    <3>3. j # m
      BY <2>3, <3>2
    <3>4. m - j \in 1 .. m - 1 /\ m - (m - j) = j
      BY <1>12, <3>3
    <3>5. down[m - j] = i
      BY <2>7, <3>2, <3>4
    <3> QED BY <3>4, <3>5
  <2>11. \A i \in chosen : i <= c
    <3> SUFFICES ASSUME NEW i \in chosen
                 PROVE  i <= c
      OBVIOUS
    <3>1. i \in 1 .. n
      BY <1>3, <1>4
    <3>2. i # c => i \in 1 .. c - 1
      BY <2>8, <2>10
    <3> QED BY <1>4, <2>4, <3>1, <3>2
  <2>12. phase[base] = "attached"
    BY <1>14, <2>4
  <2>13. /\ phase' \in [1 .. Arena -> Phases] /\ phase'[base] = "detaching"
         /\ \A d \in 1 .. Arena : d # base => phase'[d] = phase[d]
    BY <1>2, <2>2, <2>12 DEF Phase, Phases
  <2>14. Tables'
    <3>1. \A i \in DOMAIN to : to[i].base <= Len(to)
      BY <1>2, <1>3, <1>4, <1>7, <1>8 DEF Tables
    <3> QED BY <1>1, <1>2, <1>3, <1>4, <1>8, <1>9, <2>13, <3>1 DEF Tables
  <2>15. Unmapped'
    <3>1. base \in 1 .. n
      BY <1>4, <2>4
    <3>2. \A d \in n + 1 .. Arena : d # base /\ d \in 1 .. Arena
      BY <1>4, <3>1
    <3> QED BY <1>2, <1>3, <1>8, <2>13, <3>2 DEF Unmapped
  <2>16. ASSUME NEW i \in 1 .. n, i # c
         PROVE  phase'[to[i].base] = IF i \in chosen THEN "attached" ELSE "gone"
    <3>1. to[i].base = is[i].base /\ is[i].base # base /\ is[i].base \in 1 .. Arena
      BY <1>4, <1>7, <2>4, <2>16 DEF Placed
    <3> QED BY <1>14, <2>13, <3>1
  <2>17. ASSUME NEW i \in 1 .. n
         PROVE  /\ ~to[i].attached
                /\ i = c => phase'[to[i].base] = "detaching"
                /\ i > c => phase'[to[i].base] = "gone"
                /\ i < c => \/ phase'[to[i].base] = "gone" /\ \A k \in DOMAIN rest : down[k] # i
                            \/ phase'[to[i].base] = "attached" /\ \E k \in DOMAIN rest : down[k] = i
    <3>1. ~to[i].attached
      BY <1>7
    <3>2. i = c => phase'[to[i].base] = "detaching"
      BY <1>7, <2>4, <2>13
    <3>3. ASSUME i > c
          PROVE  phase'[to[i].base] = "gone"
      <4>1. i # c /\ i \notin chosen
        BY <1>4, <2>4, <2>11, <3>3
      <4> QED BY <2>16, <4>1
    <3>4. ASSUME i < c
          PROVE  \/ phase'[to[i].base] = "gone" /\ \A k \in DOMAIN rest : down[k] # i
                 \/ phase'[to[i].base] = "attached" /\ \E k \in DOMAIN rest : down[k] = i
      <4>1. i # c
        BY <1>4, <2>4, <3>4
      <4>2. CASE i \in chosen
        BY <2>5, <2>10, <2>16, <4>1, <4>2
      <4>3. CASE i \notin chosen
        BY <2>5, <2>7, <2>16, <4>1, <4>3
      <4> QED BY <4>2, <4>3
    <3> QED BY <3>1, <3>2, <3>3, <3>4
  <2>18. Leaving(c, rest, down)'
    <3>1. to[c].base = base
      BY <1>7, <2>4
    <3>2. \A k \in DOMAIN rest : down[k] \in 1 .. c - 1 /\ rest[k] = to[down[k]].base
      <4>1. \A k \in 1 .. m - 1 : down[k] \in 1 .. n
        BY <1>3, <1>4, <2>7
      <4> QED BY <1>7, <2>5, <2>7, <2>8, <4>1
    <3>3. Calls("detach", images[c].base, rest)'
      BY <1>3, <2>2, <3>1 DEF Calls
    <3>4. \A j, k \in DOMAIN rest : j < k => down[k] < down[j]
      BY <2>5, <2>9
    <3> QED BY <1>1, <1>3, <1>8, <2>17, <3>2, <3>3, <3>4 DEF Leaving
  <2>19. UnderWay'
    <3>1. c \in DOMAIN images'
      BY <1>3, <1>8, <2>4
    <3> QED BY <2>18, <3>1 DEF UnderWay
  <2> QED BY <2>14, <2>15, <2>19 DEF DllInv
<1> QED BY <1>15, <1>16

\* The tables that loading a file leaves.
Loaded(r, n, m) ==
    /\ r.images \in Seq(Image) /\ n = Len(images) /\ m = Len(r.images) /\ n <= m /\ m <= Arena
    /\ r.by_name \in [DllNames -> 0 .. Arena] /\ r.pending \in Seq(1 .. Arena)
    /\ Placed(r.images) /\ Named(r.images, r.by_name, {})
    /\ \A i \in 1 .. n : r.images[i] = images[i]
    /\ \A i \in 1 .. m : r.images[i].base <= m /\ (i > n => r.images[i].base > n)
    /\ Len(r.pending) = m - n /\ \A k \in 1 .. m - n : r.pending[k] = r.images[n + k].base

LEMMA LoadedIs ==
  ASSUME Tables, NEW rank, Ranks(rank), NEW name \in DllNames, NEW r,
         r = load_plugin[Arena][name][[images |-> images, by_name |-> by_name, loading |-> {},
                                       pending |-> <<>>, mapped |-> Len(images)]],
         NEW n, NEW m, n = Len(images), m = Len(r.images)
  PROVE  Loaded(r, n, m)
<1>1. PICK is, names, l : /\ is = images /\ names = by_name
                          /\ l = [images |-> is, by_name |-> names, loading |-> {}, pending |-> <<>>, mapped |-> n]
  OBVIOUS
<1>2. /\ is \in Seq(Image) /\ names \in [DllNames -> 0 .. Arena] /\ n = Len(is) /\ n \in Nat /\ n \in 0 .. Arena
      /\ Placed(is) /\ Named(is, names, {}) /\ \A i \in DOMAIN is : is[i].base <= n
      /\ Arena \in Nat /\ DOMAIN is = 1 .. n
  <2>1. Len(images) <= Arena
    BY DEF Tables
  <2>2. n \in Nat /\ Arena \in Nat /\ n <= Arena
    BY <2>1, ImagesAre
  <2>3. n \in 0 .. Arena
    BY <2>2
  <2> QED BY <1>1, <2>2, <2>3, ImagesAre DEF Tables
<1>3. l \in Loader /\ l.images = is /\ l.by_name = names /\ l.loading = {} /\ l.mapped = n /\ l.pending = <<>>
  BY <1>1, <1>2 DEF Loader
<1>4. LoaderRight(l, n)
  <2>1. Len(l.pending) = 0 /\ DOMAIN l.pending = {}
    BY <1>3
  <2>2. Len(l.images) - n = 0
    BY <1>2, <1>3
  <2> QED BY <1>2, <1>3, <2>1, <2>2 DEF LoaderRight
<1>5. LoadsRight(load_plugin[Arena], Arena, rank, n)
  BY <1>2, LoadPluginGrows
<1>6. Arena - l.mapped <= Arena
  BY <1>2, <1>3
<1>7. RankedBelow(rank, name, l.loading)
  BY <1>3 DEF RankedBelow
<1>8. Grown(l, r, n)
  <2>1. r = load_plugin[Arena][name][l]
    BY <1>1
  <2>2. PICK load : load = load_plugin[Arena]
    OBVIOUS
  <2>3. Grown(l, load[name][l], n)
    BY <1>3, <1>4, <1>5, <1>6, <1>7, <2>2 DEF LoadsRight
  <2> QED BY <2>1, <2>2, <2>3
<1>9. r \in Loader /\ r.loading = {}
  BY <1>3, <1>8 DEF Grown, LoaderRight
<1>10. /\ r.images \in Seq(Image) /\ r.by_name \in [DllNames -> 0 .. Arena] /\ r.pending \in Seq(1 .. Arena)
       /\ r.mapped \in 0 .. Arena /\ m \in Nat /\ DOMAIN r.images = 1 .. m
       /\ DOMAIN r.pending = 1 .. Len(r.pending)
  BY <1>9, LoaderIs
<1>11. n <= m /\ r.mapped = m /\ m <= Arena
  <2>1. PICK x : x = r.mapped
    OBVIOUS
  <2>2. n <= m /\ m - n = x - n
    BY <1>1, <1>2, <1>3, <1>8, <2>1 DEF Grown
  <2>3. x \in 0 .. Arena /\ m \in Nat /\ n \in Nat /\ Arena \in Nat
    BY <1>2, <1>10, <2>1
  <2>4. x = m /\ x <= Arena
    BY <2>2, <2>3
  <2> QED BY <2>1, <2>2, <2>4
<1>12. Placed(r.images) /\ Named(r.images, r.by_name, {})
  BY <1>8, <1>9 DEF Grown, LoaderRight
<1>13. \A i \in 1 .. n : r.images[i] = images[i]
  BY <1>1, <1>2, <1>3, <1>8 DEF Grown
<1>14. \A i \in 1 .. m : r.images[i].base <= m /\ (i > n => r.images[i].base > n)
  BY <1>2, <1>3, <1>8, <1>10, <1>11 DEF Grown, LoaderRight
<1>15. Len(r.pending) = m - n
  BY <1>8 DEF Grown, LoaderRight
<1>16. \A k \in 1 .. m - n : r.pending[k] = r.images[n + k].base
  BY <1>8, <1>10, <1>15 DEF Grown, LoaderRight
<1> QED BY <1>10, <1>11, <1>12, <1>13, <1>14, <1>15, <1>16 DEF Loaded

LEMMA MarkedIs ==
  ASSUME NEW is \in Seq(Image), NEW bases, NEW to, to = mark_attached(is, bases)
  PROVE  /\ to \in Seq(Image) /\ Len(to) = Len(is) /\ DOMAIN to = DOMAIN is
         /\ \A i \in DOMAIN is : /\ to[i].base = is[i].base /\ to[i].bound = is[i].bound
                                 /\ to[i].attached = (is[i].attached \/ is[i].base \in Range(bases))
<1>1. to = [i \in DOMAIN is |-> [is[i] EXCEPT !.attached = @ \/ is[i].base \in Range(bases)]]
  BY DEF mark_attached
<1>2. PICK n : n = Len(is)
  OBVIOUS
<1>3. n \in Nat /\ DOMAIN is = 1 .. n
  BY <1>2
<1>4. ASSUME NEW i \in DOMAIN is
      PROVE  /\ to[i] \in Image /\ to[i].base = is[i].base /\ to[i].bound = is[i].bound
             /\ to[i].attached = (is[i].attached \/ is[i].base \in Range(bases))
  <2>1. is[i] \in Image
    OBVIOUS
  <2>2. PICK a : a = (is[i].attached \/ is[i].base \in Range(bases))
    OBVIOUS
  <2>3. a \in BOOLEAN
    BY <2>2
  <2>4. to[i] = [is[i] EXCEPT !.attached = a]
    BY <1>1, <2>2
  <2> QED BY <2>1, <2>2, <2>3, <2>4 DEF Image
<1>5. to \in [1 .. n -> Image]
  <2>1. to = [i \in 1 .. n |-> to[i]]
    BY <1>1, <1>3
  <2>2. \A i \in 1 .. n : to[i] \in Image
    BY <1>3, <1>4
  <2> HIDE <1>1
  <2> QED BY <2>1, <2>2
<1>6. to \in Seq(Image) /\ Len(to) = n /\ DOMAIN to = 1 .. n
  <2>1. \A S, f : f \in [1 .. n -> S] => f \in Seq(S) /\ Len(f) = n /\ DOMAIN f = 1 .. n
    BY <1>3
  <2> QED BY <1>5, <2>1
<1> QED BY <1>2, <1>3, <1>4, <1>6

LEMMA LoadKeeps ==
  ASSUME DllInv, ~LoadsAfterFree, NEW rank, Ranks(rank), NEW t, NEW name \in DllNames, LoadLibrary(t, name)
  PROVE  DllInv'
<1>1. Runs(t) /\ ~freed /\ ~ending /\ UNCHANGED <<started, ending, freed>>
  BY DEF LoadLibrary, Runs
<1>2. Tables /\ Unmapped /\ Resting /\ phase \in [1 .. Arena -> Phases] /\ cb_stack = <<>>
  BY <1>1, OneRests DEF Tables, Resting
<1>3. CASE by_name[name] # Unloaded
  <2>1. images' = [images EXCEPT ![First(name)].refs = @ + 1]
        /\ UNCHANGED <<by_name, cb_stack, in_call, started, ending, phase, freed>>
    BY <1>3 DEF LoadLibrary
  <2>2. PICK i : i = First(name)
    OBVIOUS
  <2>3. images' = [images EXCEPT ![i].refs = @ + 1]
    BY <2>1, <2>2
  <2> QED BY <1>1, <2>1, <2>3, CountedKeeps
<1>4. CASE by_name[name] = Unloaded
  <2>1. PICK r, n, m, is, to :
           /\ r = load_plugin[Arena][name][[images |-> images, by_name |-> by_name, loading |-> {},
                                            pending |-> <<>>, mapped |-> Len(images)]]
           /\ n = Len(images) /\ m = Len(r.images) /\ is = r.images /\ to = images'
    OBVIOUS
  <2>2. /\ to = mark_attached(is, r.pending) /\ by_name' = r.by_name
        /\ invoke_callbacks(t, r.pending, "attach")
    BY <1>4, <2>1 DEF LoadLibrary
  <2>3. Loaded(r, n, m)
    BY <1>2, <2>1, LoadedIs
  <2>4. PICK pending : pending = r.pending
    OBVIOUS
  <2>5. /\ n \in Nat /\ m \in Nat /\ Arena \in Nat /\ n <= m /\ m <= Arena
        /\ is \in Seq(Image) /\ DOMAIN is = 1 .. m /\ Len(is) = m
        /\ Placed(is) /\ Named(is, by_name', {}) /\ by_name' \in [DllNames -> 0 .. Arena]
        /\ \A i \in 1 .. n : is[i] = images[i]
        /\ \A i \in 1 .. m : is[i].base <= m /\ (i > n => is[i].base > n)
        /\ pending \in Seq(1 .. Arena) /\ Len(pending) = m - n
        /\ \A k \in 1 .. m - n : pending[k] = is[n + k].base
    <3>1. is \in Seq(Image) /\ m = Len(is) /\ n = Len(images) /\ images \in Seq(Image) /\ Arena \in Nat
      BY <1>2, <2>1, <2>3, ImagesAre DEF Loaded, Tables
    <3>2. n \in Nat /\ m \in Nat /\ DOMAIN is = 1 .. m
      BY <3>1
    <3> QED BY <2>1, <2>2, <2>3, <2>4, <3>1, <3>2 DEF Loaded
  <2>6. /\ to \in Seq(Image) /\ Len(to) = m /\ DOMAIN to = 1 .. m
        /\ \A i \in 1 .. m : /\ to[i].base = is[i].base /\ to[i].bound = is[i].bound
                             /\ to[i].attached = (is[i].attached \/ is[i].base \in Range(pending))
    <3>1. to = mark_attached(is, pending)
      BY <2>2, <2>4
    <3>2. /\ to \in Seq(Image) /\ Len(to) = Len(is) /\ DOMAIN to = DOMAIN is
          /\ \A i \in DOMAIN is : /\ to[i].base = is[i].base /\ to[i].bound = is[i].bound
                                  /\ to[i].attached = (is[i].attached \/ is[i].base \in Range(pending))
      BY <2>5, <3>1, MarkedIs
    <3> QED BY <2>5, <3>2
  <2>7. \A i \in 1 .. n : images[i].attached /\ phase[images[i].base] = "attached" /\ images[i].base \in 1 .. n
    BY <1>1, <1>2, <2>1, ImagesAre DEF Resting, Quiet, AllAttached
  <2>8. \A i \in 1 .. m : to[i].attached
    <3> SUFFICES ASSUME NEW i \in 1 .. m
                 PROVE  to[i].attached
      OBVIOUS
    <3>1. CASE i <= n
      <4>1. i \in 1 .. n
        BY <2>5, <3>1
      <4> QED BY <2>5, <2>6, <2>7, <4>1
    <3>2. CASE ~(i <= n)
      <4>1. i - n \in 1 .. m - n /\ n + (i - n) = i
        BY <2>5, <3>2
      <4>2. i - n \in DOMAIN pending /\ pending[i - n] = is[i].base
        BY <2>5, <4>1
      <4>3. is[i].base \in Range(pending)
        BY <4>2 DEF Range
      <4> QED BY <2>6, <4>3
    <3> QED BY <3>1, <3>2
  <2>9. Placed(to) /\ Named(to, by_name', {})
    BY <2>5, <2>6, SamePlaced
  <2>10. CASE m = n
    <3>1. pending = <<>>
      BY <2>5, <2>10
    <3>2. UNCHANGED <<cb_stack, in_call, phase>>
      BY <2>2, <2>4, <3>1 DEF invoke_callbacks
    <3>3. PICK was : was = images
      OBVIOUS
    <3>4. was \in Seq(Image) /\ Len(was) = m /\ DOMAIN was = 1 .. m
      BY <1>2, <2>1, <2>10, <3>3 DEF Tables
    <3>5. SameImages(was, to)
      <4>1. \A i \in 1 .. m : to[i].attached = was[i].attached
        <5> SUFFICES ASSUME NEW i \in 1 .. m
                     PROVE  to[i].attached = was[i].attached
          OBVIOUS
        <5>1. to[i].attached /\ was[i].attached
          BY <2>7, <2>8, <2>10, <3>3
        <5>2. to[i].attached \in BOOLEAN /\ was[i].attached \in BOOLEAN
          <6>1. to[i] \in Image /\ was[i] \in Image
            BY <2>6, <3>4
          <6> QED BY <6>1 DEF Image
        <5> QED BY <5>1, <5>2
      <4> QED BY <2>5, <2>6, <2>10, <3>3, <3>4, <4>1 DEF SameImages
    <3>6. by_name' \in [DllNames -> 0 .. Arena] /\ Named(images, by_name', {})
      <4>1. \A i \in 1 .. m : was[i] = is[i]
        BY <2>5, <2>10, <3>3
      <4> QED BY <2>5, <3>3, <3>4, <4>1 DEF Named
    <3> QED BY <1>1, <1>2, <2>1, <3>2, <3>3, <3>5, <3>6, AlikeRests
  <2>11. CASE m # n
    <3>1. pending # <<>> /\ n + 1 \in 1 .. m /\ 1 \in 1 .. m - n
      BY <2>5, <2>11
    <3>2. PICK base \in 1 .. Arena, rest \in Seq(1 .. Arena) :
             /\ base = Head(pending) /\ rest = Tail(pending)
             /\ cb_stack' = <<rest>> /\ in_call'.base = base /\ in_call'.reason = "attach"
             /\ in_call' # NoCallNow
             /\ phase' = [phase EXCEPT ![base] = Phase("attach", phase[base])]
      <4>1. invoke_callbacks(t, pending, "attach")
        BY <2>2, <2>4
      <4>2. phase \in [1 .. Arena -> Phases] /\ cb_stack = <<>> /\ Arena \in Nat
            /\ pending \in Seq(1 .. Arena) /\ pending # <<>>
        BY <1>2, <2>5, <3>1
      <4> HIDE <1>2, <2>2, <2>5
      <4> QED BY <4>1, <4>2, InvokeIs
    <3>3. PICK c : c = n + 1
      OBVIOUS
    <3>4. c \in 1 .. m /\ base = is[c].base
      <4>1. base = pending[1]
        BY <2>5, <3>1, <3>2
      <4> QED BY <2>5, <3>1, <3>3, <4>1
    <3>5. Len(rest) = m - c /\ DOMAIN rest = 1 .. m - c /\ \A k \in 1 .. m - c : rest[k] = is[c + k].base
      <4>1. Len(rest) = Len(pending) - 1 /\ \A k \in 1 .. Len(pending) - 1 : rest[k] = pending[k + 1]
        BY <2>5, <3>1, <3>2
      <4>2. Len(pending) - 1 = m - c
        BY <2>5, <3>3
      <4>3. DOMAIN rest = 1 .. m - c
        BY <3>2, <4>1, <4>2
      <4>5. \A k \in 1 .. m - n : pending[k] = is[n + k].base
        BY <2>5
      <4>4. \A k \in 1 .. m - c : k + 1 \in 1 .. m - n /\ n + (k + 1) = c + k
        <5>1. n \in Nat /\ m \in Nat /\ c = n + 1
          BY <2>5, <3>3
        <5> HIDE <2>5, <3>3
        <5> QED BY <5>1
      <4>6. ASSUME NEW k \in 1 .. m - c
            PROVE  rest[k] = is[c + k].base
        <5>1. rest[k] = pending[k + 1]
          BY <4>1, <4>2
        <5>2. pending[k + 1] = is[n + (k + 1)].base
          BY <4>4, <4>5
        <5>3. n + (k + 1) = c + k
          BY <4>4
        <5> QED BY <5>1, <5>2, <5>3
      <4> QED BY <4>1, <4>2, <4>3, <4>6
    <3>6. \A i \in 1 .. m : i > n => phase[is[i].base] = "mapped" /\ is[i].base \in 1 .. Arena
      <4> SUFFICES ASSUME NEW i \in 1 .. m, i > n
                   PROVE  phase[is[i].base] = "mapped" /\ is[i].base \in 1 .. Arena
        OBVIOUS
      <4>1. is[i] \in Image
        BY <2>5
      <4>2. PICK b : b = is[i].base
        OBVIOUS
      <4>3. b \in 1 .. Arena /\ b > n
        BY <2>5, <4>1, <4>2 DEF Image
      <4>4. b \in n + 1 .. Arena
        BY <2>5, <4>3
      <4> QED BY <1>2, <2>1, <4>2, <4>3, <4>4 DEF Unmapped
    <3>7. phase[base] = "mapped" /\ base > n
      BY <2>5, <3>3, <3>4, <3>6
    <3>8. /\ phase' \in [1 .. Arena -> Phases] /\ phase'[base] = "attaching"
          /\ \A d \in 1 .. Arena : d # base => phase'[d] = phase[d]
      BY <1>2, <3>2, <3>7 DEF Phase, Phases
    <3>9. Tables'
      <4>1. \A i \in DOMAIN to : to[i].base <= Len(to)
        BY <2>5, <2>6
      <4> QED BY <2>1, <2>5, <2>6, <2>9, <3>8, <4>1 DEF Tables
    <3>10. Unmapped'
      <4>1. base <= m /\ base \in 1 .. Arena
        BY <2>5, <3>4
      <4>2. \A d \in m + 1 .. Arena : d # base /\ d \in 1 .. Arena /\ d \in n + 1 .. Arena
        BY <2>5, <4>1
      <4> QED BY <1>2, <2>1, <2>6, <3>8, <4>2 DEF Unmapped
    <3>11. ASSUME NEW i \in 1 .. m
           PROVE  phase'[to[i].base] = IF i < c THEN "attached" ELSE IF i = c THEN "attaching" ELSE "mapped"
      <4>1. CASE i = c
        BY <2>6, <3>4, <3>8, <4>1
      <4>2. CASE i # c
        <5>1. is[i].base # base
          BY <2>5, <3>4, <4>2 DEF Placed
        <5>2. CASE i > n
          <6>1. ~(i < c)
            BY <2>5, <3>3, <5>2
          <6> QED BY <2>6, <3>6, <3>8, <4>2, <5>1, <5>2, <6>1
        <5>3. CASE ~(i > n)
          <6>1. i \in 1 .. n /\ i < c
            BY <2>5, <3>3, <5>3
          <6>2. is[i].base \in 1 .. Arena /\ phase[is[i].base] = "attached"
            <7>1. is[i] \in Image
              BY <2>5
            <7> QED BY <2>5, <2>7, <6>1, <7>1 DEF Image
          <6> QED BY <2>6, <3>8, <5>1, <6>1, <6>2
        <5> QED BY <5>2, <5>3
      <4> QED BY <4>1, <4>2
    <3>12. Attaching(c, rest)'
      <4>1. Calls("attach", images[c].base, rest)'
        BY <2>1, <2>6, <3>2, <3>4 DEF Calls
      <4>2. \A k \in DOMAIN rest : rest[k] = to[c + k].base
        <5>1. \A k \in 1 .. m - c : c + k \in 1 .. m
          BY <2>5, <3>4
        <5> QED BY <2>6, <3>5, <5>1
      <4>3. Len(rest) = Len(to) - c
        BY <2>6, <3>5
      <4>4. ~freed' /\ ~ending'
        BY <1>1
      <4>5. images' = to /\ DOMAIN to = 1 .. m
        BY <2>1, <2>6
      <4> HIDE <1>1, <2>1, <2>6
      <4> QED BY <2>8, <3>11, <4>1, <4>2, <4>3, <4>4, <4>5 DEF Attaching
    <3>13. UnderWay'
      <4>1. c \in DOMAIN images'
        BY <2>1, <2>6, <3>4
      <4> QED BY <3>2, <3>12, <4>1 DEF UnderWay
    <3> QED BY <3>9, <3>10, <3>13 DEF DllInv
  <2> QED BY <2>10, <2>11
<1> QED BY <1>3, <1>4

-----------------------------------------------------------------------------
(* A DllMain returns.                                                        *)
\* The next of a frame is called.
Follows(reason, rest, after, next, left) ==
    /\ next = rest[1] /\ DOMAIN rest = 1 .. Len(left) + 1 /\ Len(left) \in Nat
    /\ Len(left) = Len(rest) - 1
    /\ DOMAIN left = 1 .. Len(left) /\ \A k \in DOMAIN left : left[k] = rest[k + 1]
    /\ cb_stack' = <<left>> /\ in_call'.base = next /\ in_call'.reason = reason
    /\ in_call' # NoCallNow
    /\ phase' = [after EXCEPT ![next] = Phase(reason, after[next])]

Advanced(reason, base, rest, after) ==
    /\ UNCHANGED <<images, by_name, ending, freed>>
    /\ after \in [1 .. Arena -> Phases] /\ after[base] = Returned(phase[base])
    /\ \A d \in 1 .. Arena : d # base => after[d] = phase[d]
    /\ rest = <<>> => cb_stack' = <<>> /\ in_call' = NoCallNow /\ phase' = after
    /\ rest # <<>> => \E next \in 1 .. Arena, left \in Seq(1 .. Arena) : Follows(reason, rest, after, next, left)

LEMMA AdvanceIs ==
  ASSUME cb_advance, Arena \in Nat, phase \in [1 .. Arena -> Phases], NEW reason, NEW base \in 1 .. Arena,
         NEW rest \in Seq(1 .. Arena), Calls(reason, base, rest),
         NEW after, after = [phase EXCEPT ![base] = Returned(phase[base])]
  PROVE  Advanced(reason, base, rest, after)
<1>1. cb_stack = <<rest>> /\ in_call.base = base /\ in_call.reason = reason
  BY DEF Calls
<1>2. Last(cb_stack) = rest /\ Front(cb_stack) = <<>>
  <2>1. Len(cb_stack) = 1 /\ cb_stack[1] = rest
    BY <1>1
  <2>2. Last(cb_stack) = rest
    BY <2>1 DEF Last
  <2>3. Front(cb_stack) = SubSeq(cb_stack, 1, 0)
    BY <2>1 DEF Front
  <2>4. cb_stack \in Seq(Seq(1 .. Arena))
    BY <1>1
  <2> QED BY <2>2, <2>3, <2>4
<1>3. UNCHANGED <<images, by_name, ending, freed>>
  BY DEF cb_advance
<1>4. after = [phase EXCEPT ![in_call.base] = Returned(@)]
  BY <1>1
<1>5. IF rest # <<>>
        THEN /\ cb_stack' = Append(<<>>, Tail(rest))
             /\ Entering(after, in_call.thread, Head(rest), reason)
        ELSE cb_stack' = <<>> /\ in_call' = NoCallNow /\ phase' = after
  BY <1>1, <1>2, <1>4 DEF cb_advance
<1>6. Returned(phase[base]) \in Phases
  <2>1. phase[base] \in Phases
    OBVIOUS
  <2> QED BY <2>1 DEF Returned, Phases
<1>7. /\ after \in [1 .. Arena -> Phases] /\ after[base] = Returned(phase[base])
      /\ \A d \in 1 .. Arena : d # base => after[d] = phase[d]
  BY <1>6
<1>8. ASSUME rest # <<>>
      PROVE  \E next \in 1 .. Arena, left \in Seq(1 .. Arena) : Follows(reason, rest, after, next, left)
  <2>1. PICK next, left : next = Head(rest) /\ left = Tail(rest)
    OBVIOUS
  <2>2. next \in 1 .. Arena /\ left \in Seq(1 .. Arena) /\ next = rest[1]
    BY <1>8, <2>1
  <2>3. /\ Len(left) \in Nat /\ DOMAIN left = 1 .. Len(left) /\ Len(left) = Len(rest) - 1
        /\ \A k \in DOMAIN left : left[k] = rest[k + 1]
    BY <1>8, <2>1
  <2>4. DOMAIN rest = 1 .. Len(left) + 1
    BY <1>8, <2>1
  <2>5. cb_stack' = <<left>> /\ Entering(after, in_call.thread, next, reason)
    BY <1>5, <1>8, <2>1
  <2>6. in_call'.base = next /\ in_call'.reason = reason /\ in_call' # NoCallNow
    <3>1. in_call'.base = next /\ in_call'.reason = reason
      BY <2>5 DEF Entering
    <3>2. NoCallNow.base = 0 /\ next # 0
      BY <2>2 DEF NoCallNow, Unloaded
    <3> QED BY <3>1, <3>2
  <2>7. phase' = [after EXCEPT ![next] = Phase(reason, after[next])]
    BY <2>5 DEF Entering
  <2>8. Follows(reason, rest, after, next, left)
    BY <2>2, <2>3, <2>4, <2>5, <2>6, <2>7 DEF Follows
  <2> QED BY <2>2, <2>8
<1> QED BY <1>3, <1>5, <1>7, <1>8 DEF Advanced

LEMMA AfterKeeps ==
  ASSUME Tables, Unmapped, UNCHANGED <<images, by_name>>, phase' \in [1 .. Arena -> Phases],
         \A d \in Len(images) + 1 .. Arena : phase'[d] = phase[d]
  PROVE  Tables' /\ Unmapped'
BY DEF Tables, Unmapped

LEMMA AttachingAdvances ==
  ASSUME Tables, Unmapped, cb_advance, NEW rest \in Seq(1 .. Arena), NEW c \in DOMAIN images, Attaching(c, rest)
  PROVE  DllInv'
<1>1. PICK base, n : base = images[c].base /\ n = Len(images)
  OBVIOUS
<1>2. /\ Arena \in Nat /\ n \in Nat /\ DOMAIN images = 1 .. n /\ base \in 1 .. n /\ base \in 1 .. Arena
      /\ phase \in [1 .. Arena -> Phases] /\ c \in 1 .. n
      /\ \A i \in 1 .. n : images[i].base \in 1 .. n /\ images[i].base \in 1 .. Arena
      /\ \A i, j \in 1 .. n : images[i].base = images[j].base => i = j
  BY <1>1, ImagesAre DEF Tables, Placed
<1>3. /\ Calls("attach", base, rest) /\ ~freed /\ ~ending /\ Len(rest) = n - c
      /\ \A k \in DOMAIN rest : rest[k] = images[c + k].base
      /\ \A i \in 1 .. n : /\ images[i].attached
                           /\ phase[images[i].base] = IF i < c THEN "attached" ELSE IF i = c THEN "attaching" ELSE "mapped"
  BY <1>1, <1>2 DEF Attaching
<1>4. PICK after : after = [phase EXCEPT ![base] = Returned(phase[base])]
  OBVIOUS
<1>5. /\ UNCHANGED <<images, by_name, ending, freed>>
      /\ after \in [1 .. Arena -> Phases] /\ after[base] = Returned(phase[base])
      /\ \A d \in 1 .. Arena : d # base => after[d] = phase[d]
      /\ rest = <<>> => cb_stack' = <<>> /\ in_call' = NoCallNow /\ phase' = after
      /\ rest # <<>> => \E next \in 1 .. Arena, left \in Seq(1 .. Arena) : Follows("attach", rest, after, next, left)
  <2>1. Advanced("attach", base, rest, after)
    BY <1>2, <1>3, <1>4, AdvanceIs
  <2> QED BY <2>1 DEF Advanced
<1>6. after[base] = "attached"
  <2>1. phase[base] = "attaching"
    BY <1>1, <1>2, <1>3
  <2> QED BY <1>5, <2>1 DEF Returned
<1>7. \A i \in 1 .. n : after[images[i].base] = IF i <= c THEN "attached" ELSE "mapped"
  <2> SUFFICES ASSUME NEW i \in 1 .. n
               PROVE  after[images[i].base] = IF i <= c THEN "attached" ELSE "mapped"
    OBVIOUS
  <2>1. CASE i = c
    BY <1>1, <1>2, <1>6, <2>1
  <2>2. CASE i # c
    <3>1. images[i].base # base /\ images[i].base \in 1 .. Arena
      BY <1>1, <1>2, <2>2
    <3>2. after[images[i].base] = phase[images[i].base]
      BY <1>5, <3>1
    <3> QED BY <1>2, <1>3, <2>2, <3>2
  <2> QED BY <2>1, <2>2
<1>8. \A d \in n + 1 .. Arena : d \in 1 .. Arena /\ after[d] = phase[d]
  <2>1. \A d \in n + 1 .. Arena : d \in 1 .. Arena /\ d # base
    BY <1>2
  <2> QED BY <1>5, <2>1
<1>9. CASE rest = <<>>
  <2>1. c = n
    BY <1>2, <1>3, <1>9
  <2>2. cb_stack' = <<>> /\ in_call' = NoCallNow /\ phase' = after
    BY <1>5, <1>9
  <2>3. \A i \in 1 .. n : after[images[i].base] = "attached"
    BY <1>2, <1>7, <2>1
  <2>4. Resting'
    BY <1>2, <1>3, <1>5, <2>2, <2>3 DEF Resting, Quiet, AllAttached
  <2>5. Tables' /\ Unmapped'
    BY <1>1, <1>5, <1>8, <2>2, AfterKeeps
  <2> QED BY <2>4, <2>5 DEF DllInv
<1>10. CASE rest # <<>>
  <2>1. PICK next \in 1 .. Arena, left \in Seq(1 .. Arena) : Follows("attach", rest, after, next, left)
    BY <1>5, <1>10
  <2>0. /\ next = rest[1] /\ DOMAIN rest = 1 .. Len(left) + 1 /\ Len(left) \in Nat
        /\ Len(left) = Len(rest) - 1
        /\ DOMAIN left = 1 .. Len(left) /\ \A k \in DOMAIN left : left[k] = rest[k + 1]
        /\ cb_stack' = <<left>> /\ in_call'.base = next /\ in_call'.reason = "attach"
        /\ in_call' # NoCallNow
        /\ phase' = [after EXCEPT ![next] = Phase("attach", after[next])]
    BY <2>1 DEF Follows
  <2>2. PICK e, m : e = c + 1 /\ m = Len(left)
    OBVIOUS
  <2>3. e \in 1 .. n /\ m = n - e /\ m \in Nat
    BY <1>2, <1>3, <2>0, <2>1, <2>2
  <2>4. next = images[e].base /\ after[next] = "mapped"
    <3>1. 1 \in DOMAIN rest
      BY <2>0, <2>1, <2>2, <2>3
    <3>2. next = images[c + 1].base
      BY <1>3, <2>0, <2>1, <3>1
    <3>3. ~(e <= c)
      BY <1>2, <2>2
    <3> QED BY <1>7, <2>2, <2>3, <3>2, <3>3
  <2>5. /\ phase' \in [1 .. Arena -> Phases] /\ phase'[next] = "attaching"
        /\ \A d \in 1 .. Arena : d # next => phase'[d] = after[d]
    BY <1>5, <2>0, <2>1, <2>4 DEF Phase, Phases
  <2>6. Tables' /\ Unmapped'
    <3>1. next \in 1 .. n
      BY <1>2, <2>3, <2>4
    <3>2. \A d \in n + 1 .. Arena : d # next
      BY <1>2, <3>1
    <3>3. \A d \in n + 1 .. Arena : phase'[d] = phase[d]
      BY <1>8, <2>5, <3>2
    <3> QED BY <1>1, <1>5, <2>5, <3>3, AfterKeeps
  <2>7. ASSUME NEW i \in 1 .. n
        PROVE  phase'[images[i].base] = IF i < e THEN "attached" ELSE IF i = e THEN "attaching" ELSE "mapped"
    <3>1. CASE i = e
      BY <1>2, <2>3, <2>4, <2>5, <3>1
    <3>2. CASE i # e
      <4>1. images[i].base # next /\ images[i].base \in 1 .. Arena
        BY <1>2, <2>3, <2>4, <3>2
      <4>2. (i <= c) = (i < e)
        BY <1>2, <2>2
      <4> QED BY <1>7, <2>5, <3>2, <4>1, <4>2
    <3> QED BY <3>1, <3>2
  <2>8. \A k \in DOMAIN left : left[k] = images[e + k].base
    <3> SUFFICES ASSUME NEW k \in 1 .. m
                 PROVE  left[k] = images[e + k].base
      BY <2>0, <2>1, <2>2
    <3>1. k + 1 \in 1 .. m + 1 /\ c + (k + 1) = e + k
      <4>1. m \in Nat /\ c \in Nat /\ e = c + 1
        BY <1>2, <2>2, <2>3
      <4> HIDE <1>2, <2>2, <2>3
      <4> QED BY <4>1
    <3> QED BY <1>3, <2>0, <2>1, <2>2, <3>1
  <2>9. Attaching(e, left)'
    <3>1. Calls("attach", images[e].base, left)'
      BY <1>5, <2>0, <2>1, <2>4 DEF Calls
    <3> QED BY <1>1, <1>2, <1>3, <1>5, <2>2, <2>3, <2>7, <2>8, <3>1 DEF Attaching
  <2>10. UnderWay'
    <3>1. e \in DOMAIN images'
      BY <1>2, <1>5, <2>3
    <3> QED BY <2>0, <2>1, <2>9, <3>1 DEF UnderWay
  <2> QED BY <2>6, <2>10 DEF DllInv
<1> QED BY <1>9, <1>10

LEMMA TellingAdvances ==
  ASSUME Tables, Unmapped, cb_advance, NEW rest \in Seq(1 .. Arena), NEW base \in 1 .. Arena, Telling(base, rest)
  PROVE  DllInv'
<1>1. /\ Arena \in Nat /\ phase \in [1 .. Arena -> Phases]
      /\ Calls("thread", base, rest) /\ ~ending /\ phase[base] = "attached"
      /\ \A k \in DOMAIN rest : phase[rest[k]] = "attached"
      /\ \A i \in DOMAIN images : Quiet(i)
      /\ AllAttached
  BY DllsAssumption DEF Telling, Tables
<1>2. PICK after : after = [phase EXCEPT ![base] = Returned(phase[base])]
  OBVIOUS
<1>3. /\ UNCHANGED <<images, by_name, ending, freed>>
      /\ after \in [1 .. Arena -> Phases] /\ after[base] = Returned(phase[base])
      /\ \A d \in 1 .. Arena : d # base => after[d] = phase[d]
      /\ rest = <<>> => cb_stack' = <<>> /\ in_call' = NoCallNow /\ phase' = after
      /\ rest # <<>> => \E next \in 1 .. Arena, left \in Seq(1 .. Arena) : Follows("thread", rest, after, next, left)
  <2>1. Advanced("thread", base, rest, after)
    BY <1>1, <1>2, AdvanceIs
  <2> QED BY <2>1 DEF Advanced
<1>4. after = phase
  <2>1. Returned(phase[base]) = phase[base]
    BY <1>1 DEF Returned
  <2> QED BY <1>1, <1>2, <2>1
<1>5. CASE rest = <<>>
  <2>1. cb_stack' = <<>> /\ in_call' = NoCallNow /\ phase' = phase
    BY <1>3, <1>4, <1>5
  <2>2. Resting'
    BY <1>1, <1>3, <2>1 DEF Resting, Quiet, AllAttached
  <2>3. Tables' /\ Unmapped'
    BY <1>3, <2>1 DEF Tables, Unmapped
  <2> QED BY <2>2, <2>3 DEF DllInv
<1>6. CASE rest # <<>>
  <2>1. PICK next \in 1 .. Arena, left \in Seq(1 .. Arena) : Follows("thread", rest, after, next, left)
    BY <1>3, <1>6
  <2>0. /\ next = rest[1] /\ DOMAIN rest = 1 .. Len(left) + 1 /\ Len(left) \in Nat
        /\ Len(left) = Len(rest) - 1
        /\ DOMAIN left = 1 .. Len(left) /\ \A k \in DOMAIN left : left[k] = rest[k + 1]
        /\ cb_stack' = <<left>> /\ in_call'.base = next /\ in_call'.reason = "thread"
        /\ in_call' # NoCallNow
        /\ phase' = [after EXCEPT ![next] = Phase("thread", after[next])]
    BY <2>1 DEF Follows
  <2>2. PICK m : m = Len(left)
    OBVIOUS
  <2>3. phase[next] = "attached" /\ \A k \in DOMAIN left : phase[left[k]] = "attached"
    <3>1. 1 \in 1 .. m + 1 /\ \A k \in 1 .. m : k + 1 \in 1 .. m + 1
      BY <2>0, <2>1, <2>2
    <3> QED BY <1>1, <2>0, <2>1, <2>2, <3>1
  <2>4. phase' = phase
    <3>1. Phase("thread", phase[next]) = phase[next]
      BY <2>3 DEF Phase
    <3> QED BY <1>1, <1>4, <2>0, <2>1, <3>1
  <2>5. Telling(next, left)'
    <3>1. Calls("thread", next, left)'
      BY <2>0 DEF Calls
    <3>2. \A i \in DOMAIN images' : Quiet(i)'
      BY <1>1, <1>3, <2>4 DEF Quiet
    <3>3. AllAttached'
      BY <1>1, <1>3 DEF AllAttached
    <3>4. phase'[next] = "attached" /\ \A k \in DOMAIN left : phase'[left[k]] = "attached"
      BY <2>3, <2>4
    <3> QED BY <1>1, <1>3, <3>1, <3>2, <3>3, <3>4 DEF Telling
  <2>6. Tables' /\ Unmapped'
    BY <1>3, <2>4 DEF Tables, Unmapped
  <2> QED BY <2>5, <2>6 DEF DllInv, UnderWay
<1> QED BY <1>5, <1>6

LEMMA FreeingAdvances ==
  ASSUME Tables, Unmapped, cb_advance, NEW c \in DOMAIN images, Freeing(c)
  PROVE  DllInv'
<1>1. PICK base, n, rest : base = images[c].base /\ n = Len(images) /\ rest = <<>>
  OBVIOUS
<1>2. /\ Arena \in Nat /\ n \in Nat /\ DOMAIN images = 1 .. n /\ base \in 1 .. n /\ base \in 1 .. Arena
      /\ phase \in [1 .. Arena -> Phases]
      /\ \A i \in 1 .. n : images[i].base \in 1 .. Arena /\ images[i].attached \in BOOLEAN
      /\ \A i, j \in 1 .. n : images[i].base = images[j].base => i = j
  BY <1>1, ImagesAre DEF Tables, Placed
<1>3. Calls("detach", base, rest) /\ freed /\ ~images[c].attached /\ phase[base] = "detaching"
  BY <1>1 DEF Freeing
<1>4. PICK after : after = [phase EXCEPT ![base] = Returned(phase[base])]
  OBVIOUS
<1>5. Advanced("detach", base, rest, after)
  <2>1. rest \in Seq(1 .. Arena)
    BY <1>1
  <2> QED BY <1>2, <1>3, <1>4, <2>1, AdvanceIs
<1>6. /\ UNCHANGED <<images, by_name, ending, freed>>
      /\ after \in [1 .. Arena -> Phases] /\ after[base] = Returned(phase[base])
      /\ \A d \in 1 .. Arena : d # base => after[d] = phase[d]
      /\ cb_stack' = <<>> /\ in_call' = NoCallNow /\ phase' = after
  BY <1>1, <1>5 DEF Advanced
<1>7. after[base] = "gone"
  BY <1>3, <1>6 DEF Returned
<1>8. ASSUME NEW i \in 1 .. n
      PROVE  phase'[images[i].base] = IF images[i].attached THEN "attached" ELSE "gone"
  <2>1. CASE i = c
    BY <1>1, <1>3, <1>6, <1>7, <2>1
  <2>2. CASE i # c
    <3>1. images[i].base # base
      BY <1>1, <1>2, <2>2
    <3>2. phase[images[i].base] = IF images[i].attached THEN "attached" ELSE "gone"
      BY <1>2, <2>2 DEF Freeing, Quiet
    <3> QED BY <1>2, <1>6, <3>1, <3>2
  <2> QED BY <2>1, <2>2
<1>9. Resting'
  BY <1>2, <1>3, <1>6, <1>8 DEF Resting, Quiet, AllAttached
<1>10. Tables' /\ Unmapped'
  <2>1. \A d \in n + 1 .. Arena : d \in 1 .. Arena /\ d # base
    BY <1>2
  <2>2. \A d \in n + 1 .. Arena : phase'[d] = phase[d]
    BY <1>6, <2>1
  <2> QED BY <1>1, <1>6, <2>2, AfterKeeps
<1> QED BY <1>9, <1>10 DEF DllInv

LEMMA LeavingAdvances ==
  ASSUME Tables, Unmapped, cb_advance, NEW rest \in Seq(1 .. Arena), NEW c \in DOMAIN images, NEW at,
         Leaving(c, rest, at)
  PROVE  DllInv'
<1>1. PICK base, n : base = images[c].base /\ n = Len(images)
  OBVIOUS
<1>2. /\ Arena \in Nat /\ n \in Nat /\ DOMAIN images = 1 .. n /\ base \in 1 .. n /\ base \in 1 .. Arena
      /\ phase \in [1 .. Arena -> Phases] /\ c \in 1 .. n
      /\ \A i \in 1 .. n : images[i].base \in 1 .. n /\ images[i].base \in 1 .. Arena
      /\ \A i, j \in 1 .. n : images[i].base = images[j].base => i = j
  BY <1>1, ImagesAre DEF Tables, Placed
<1>3. /\ Calls("detach", base, rest) /\ ending
      /\ \A k \in DOMAIN rest : at[k] \in 1 .. c - 1 /\ rest[k] = images[at[k]].base
      /\ \A j, k \in DOMAIN rest : j < k => at[k] < at[j]
      /\ \A i \in 1 .. n :
           /\ ~images[i].attached
           /\ i = c => phase[images[i].base] = "detaching"
           /\ i > c => phase[images[i].base] = "gone"
           /\ i < c => \/ phase[images[i].base] = "gone" /\ \A k \in DOMAIN rest : at[k] # i
                       \/ phase[images[i].base] = "attached" /\ \E k \in DOMAIN rest : at[k] = i
  BY <1>1, <1>2 DEF Leaving
<1>4. PICK after : after = [phase EXCEPT ![base] = Returned(phase[base])]
  OBVIOUS
<1>5. Advanced("detach", base, rest, after)
  BY <1>2, <1>3, <1>4, AdvanceIs
<1>6. /\ UNCHANGED <<images, by_name, ending, freed>>
      /\ after \in [1 .. Arena -> Phases] /\ after[base] = Returned(phase[base])
      /\ \A d \in 1 .. Arena : d # base => after[d] = phase[d]
      /\ rest = <<>> => cb_stack' = <<>> /\ in_call' = NoCallNow /\ phase' = after
      /\ rest # <<>> => \E next \in 1 .. Arena, left \in Seq(1 .. Arena) : Follows("detach", rest, after, next, left)
  BY <1>5 DEF Advanced
<1>7. after[base] = "gone"
  <2>1. phase[base] = "detaching"
    BY <1>1, <1>2, <1>3
  <2> QED BY <1>6, <2>1 DEF Returned
<1>8. ASSUME NEW i \in 1 .. n
      PROVE  /\ i >= c => after[images[i].base] = "gone"
             /\ i < c => \/ after[images[i].base] = "gone" /\ \A k \in DOMAIN rest : at[k] # i
                         \/ after[images[i].base] = "attached" /\ \E k \in DOMAIN rest : at[k] = i
  <2>1. CASE i = c
    BY <1>1, <1>2, <1>7, <2>1
  <2>2. CASE i # c
    <3>1. images[i].base # base /\ images[i].base \in 1 .. Arena
      BY <1>1, <1>2, <2>2
    <3>2. after[images[i].base] = phase[images[i].base]
      BY <1>6, <3>1
    <3>3. i >= c => i > c
      BY <1>2, <2>2
    <3> QED BY <1>3, <3>2, <3>3
  <2> QED BY <2>1, <2>2
<1>9. \A d \in n + 1 .. Arena : d \in 1 .. Arena /\ after[d] = phase[d]
  <2>1. \A d \in n + 1 .. Arena : d \in 1 .. Arena /\ d # base
    BY <1>2
  <2> QED BY <1>6, <2>1
<1>10. CASE rest = <<>>
  <2>1. cb_stack' = <<>> /\ in_call' = NoCallNow /\ phase' = after
    BY <1>6, <1>10
  <2>2. DOMAIN rest = {}
    BY <1>10
  <2>3. \A i \in 1 .. n : after[images[i].base] = "gone"
    <3> SUFFICES ASSUME NEW i \in 1 .. n
                 PROVE  after[images[i].base] = "gone"
      OBVIOUS
    <3>1. i >= c \/ i < c
      BY <1>2
    <3> QED BY <1>8, <2>2, <3>1
  <2>4. Resting'
    <3>1. \A i \in DOMAIN images' : Quiet(i)'
      BY <1>2, <1>3, <1>6, <2>1, <2>3 DEF Quiet
    <3>2. AllAttached'
      BY <1>3, <1>6 DEF AllAttached
    <3> QED BY <2>1, <3>1, <3>2 DEF Resting
  <2>5. Tables' /\ Unmapped'
    BY <1>1, <1>6, <1>9, <2>1, AfterKeeps
  <2> QED BY <2>4, <2>5 DEF DllInv
<1>11. CASE rest # <<>>
  <2>1. PICK next \in 1 .. Arena, left \in Seq(1 .. Arena) : Follows("detach", rest, after, next, left)
    BY <1>6, <1>11
  <2>2. PICK e, m, to : e = at[1] /\ m = Len(left) /\ to = [k \in 1 .. m |-> at[k + 1]]
    OBVIOUS
  <2>3. /\ next = rest[1] /\ DOMAIN rest = 1 .. m + 1 /\ m \in Nat
        /\ DOMAIN left = 1 .. m /\ \A k \in 1 .. m : left[k] = rest[k + 1]
        /\ cb_stack' = <<left>> /\ in_call'.base = next /\ in_call'.reason = "detach"
        /\ in_call' # NoCallNow
        /\ phase' = [after EXCEPT ![next] = Phase("detach", after[next])]
    BY <2>1, <2>2 DEF Follows
  <2>4. 1 \in 1 .. m + 1 /\ \A k \in 1 .. m : k + 1 \in 1 .. m + 1 /\ 1 < k + 1
    BY <2>3
  <2>5. e \in 1 .. c - 1 /\ next = images[e].base /\ e \in 1 .. n /\ e < c
    <3>1. e \in 1 .. c - 1 /\ next = images[e].base
      BY <1>3, <2>2, <2>3, <2>4
    <3> QED BY <1>2, <3>1
  <2>6. after[next] = "attached"
    BY <1>8, <2>2, <2>3, <2>4, <2>5
  <2>7. /\ phase' \in [1 .. Arena -> Phases] /\ phase'[next] = "detaching"
        /\ \A d \in 1 .. Arena : d # next => phase'[d] = after[d]
    BY <1>6, <2>3, <2>6 DEF Phase, Phases
  <2>8. Tables' /\ Unmapped'
    <3>1. next \in 1 .. n
      BY <1>2, <2>5
    <3>2. \A d \in n + 1 .. Arena : d # next
      BY <1>2, <3>1
    <3>3. \A d \in n + 1 .. Arena : phase'[d] = phase[d]
      BY <1>9, <2>7, <3>2
    <3> QED BY <1>1, <1>6, <2>7, <3>3, AfterKeeps
  <2>9. \A k \in 1 .. m : to[k] = at[k + 1] /\ to[k] \in 1 .. e - 1 /\ left[k] = images[to[k]].base
    <3> SUFFICES ASSUME NEW k \in 1 .. m
                 PROVE  to[k] = at[k + 1] /\ to[k] \in 1 .. e - 1 /\ left[k] = images[to[k]].base
      OBVIOUS
    <3>1. to[k] = at[k + 1] /\ k + 1 \in 1 .. m + 1
      BY <2>2, <2>4
    <3>2. at[k + 1] \in 1 .. c - 1 /\ at[k + 1] < e /\ rest[k + 1] = images[at[k + 1]].base
      BY <1>3, <2>2, <2>3, <2>4, <3>1
    <3>3. at[k + 1] \in 1 .. e - 1
      <4>1. PICK x : x = at[k + 1]
        OBVIOUS
      <4>2. x \in 1 .. c - 1 /\ x < e /\ e \in 1 .. n /\ c \in 1 .. n
        BY <1>2, <2>5, <3>2, <4>1
      <4> HIDE <1>2, <2>5, <3>2
      <4>3. x \in 1 .. e - 1
        BY <4>2
      <4> QED BY <4>1, <4>3
    <3> QED BY <2>3, <3>1, <3>2, <3>3
  <2>10. \A j, k \in 1 .. m : j < k => to[k] < to[j]
    <3> SUFFICES ASSUME NEW j \in 1 .. m, NEW k \in 1 .. m, j < k
                 PROVE  to[k] < to[j]
      OBVIOUS
    <3>1. j + 1 < k + 1 /\ j + 1 \in 1 .. m + 1 /\ k + 1 \in 1 .. m + 1
      BY <2>3, <2>4
    <3>2. at[k + 1] < at[j + 1]
      BY <1>3, <2>3, <3>1
    <3> QED BY <2>9, <3>2
  <2>11. \A k \in 1 .. m + 1 : k # 1 => k - 1 \in 1 .. m /\ (k - 1) + 1 = k /\ to[k - 1] = at[k]
    <3> SUFFICES ASSUME NEW k \in 1 .. m + 1, k # 1
                 PROVE  k - 1 \in 1 .. m /\ (k - 1) + 1 = k /\ to[k - 1] = at[k]
      OBVIOUS
    <3>1. k - 1 \in 1 .. m /\ (k - 1) + 1 = k
      BY <2>3
    <3>2. to[k - 1] = at[(k - 1) + 1]
      BY <2>9, <3>1
    <3> QED BY <3>1, <3>2
  <2>12. ASSUME NEW i \in 1 .. n, i # e
         PROVE  phase'[images[i].base] = after[images[i].base]
    <3>1. images[i].base # next /\ images[i].base \in 1 .. Arena
      BY <1>2, <2>5, <2>12
    <3> QED BY <2>7, <3>1
  <2>13. ASSUME NEW i \in 1 .. n
         PROVE  /\ i = e => phase'[images[i].base] = "detaching"
                /\ i > e => phase'[images[i].base] = "gone"
                /\ i < e => \/ phase'[images[i].base] = "gone" /\ \A k \in 1 .. m : to[k] # i
                            \/ phase'[images[i].base] = "attached" /\ \E k \in 1 .. m : to[k] = i
    <3>1. i = e => phase'[images[i].base] = "detaching"
      BY <2>5, <2>7
    <3>2. ASSUME i > e
          PROVE  phase'[images[i].base] = "gone"
      <4>1. i # e
        BY <2>5, <3>2
      <4>2. CASE i >= c
        BY <1>8, <2>12, <4>1, <4>2
      <4>3. CASE i < c
        <5>1. ASSUME NEW k \in 1 .. m + 1, at[k] = i
              PROVE  FALSE
          <6>1. k # 1
            BY <2>2, <4>1, <5>1
          <6>2. to[k - 1] = i /\ k - 1 \in 1 .. m
            BY <2>11, <5>1, <6>1
          <6>3. i \in 1 .. e - 1
            BY <2>9, <6>2
          <6> QED BY <2>5, <3>2, <6>3
        <5> QED BY <1>8, <2>3, <2>12, <4>1, <4>3, <5>1
      <4>4. i >= c \/ i < c
        BY <1>2
      <4> QED BY <4>2, <4>3, <4>4
    <3>3. ASSUME i < e
          PROVE  \/ phase'[images[i].base] = "gone" /\ \A k \in 1 .. m : to[k] # i
                 \/ phase'[images[i].base] = "attached" /\ \E k \in 1 .. m : to[k] = i
      <4>1. i # e /\ i < c
        BY <1>2, <2>5, <3>3
      <4>2. CASE \E k \in 1 .. m + 1 : at[k] = i
        <5>1. PICK k \in 1 .. m + 1 : at[k] = i
          BY <4>2
        <5>2. k # 1
          BY <2>2, <4>1, <5>1
        <5>3. k - 1 \in 1 .. m /\ to[k - 1] = i
          BY <2>11, <5>1, <5>2
        <5> QED BY <1>8, <2>3, <2>12, <4>1, <5>1, <5>3
      <4>3. CASE \A k \in 1 .. m + 1 : at[k] # i
        BY <1>8, <2>3, <2>4, <2>9, <2>12, <4>1, <4>3
      <4> QED BY <4>2, <4>3
    <3> QED BY <3>1, <3>2, <3>3
  <2>14. Leaving(e, left, to)'
    <3>1. Calls("detach", images[e].base, left)'
      BY <1>6, <2>3, <2>5 DEF Calls
    <3>2. ending' /\ images' = images /\ DOMAIN images = 1 .. n /\ DOMAIN left = 1 .. m
          /\ \A i \in 1 .. n : ~images[i].attached
      BY <1>2, <1>3, <1>6, <2>3
    <3> HIDE <1>2, <1>3, <1>6, <2>3
    <3> QED BY <2>9, <2>10, <2>13, <3>1, <3>2 DEF Leaving
  <2>15. UnderWay'
    <3>1. e \in DOMAIN images'
      BY <1>2, <1>6, <2>5
    <3> QED BY <2>1, <2>14, <3>1 DEF UnderWay
  <2> QED BY <2>8, <2>15 DEF DllInv
<1> QED BY <1>10, <1>11

LEMMA CallbacksKeep == DllInv /\ cb_advance => DllInv'
<1> SUFFICES ASSUME DllInv, cb_advance
             PROVE  DllInv'
  OBVIOUS
<1>1. Tables /\ Unmapped /\ UnderWay
  <2>1. in_call # NoCallNow
    BY DEF cb_advance
  <2> QED BY <2>1 DEF DllInv, Resting
<1> QED BY <1>1, AttachingAdvances, TellingAdvances, FreeingAdvances, LeavingAdvances DEF UnderWay

LEMMA DllStep ==
  ASSUME DllInv, ~LoadsAfterFree, NEW rank, Ranks(rank), DllNext
  PROVE  DllInv'
<1>1. CASE cb_advance
  BY <1>1, CallbacksKeep
<1>2. ASSUME NEW t \in Guests, NEW name \in DllNames, LoadLibrary(t, name)
      PROVE  DllInv'
  BY <1>2, LoadKeeps
<1>3. ASSUME NEW t \in Guests, NEW i \in DOMAIN images, FreeLibrary(t, i)
      PROVE  DllInv'
  BY <1>3, FreeKeeps
<1>4. ASSUME NEW t \in Guests, NEW i \in DOMAIN images, DisableThreadLibraryCalls(t, i)
      PROVE  DllInv'
  BY <1>4, DisableKeeps
<1>5. ASSUME NEW t \in Guests, NEW new \in Guests, spawn_thread(t, new)
      PROVE  DllInv'
  BY <1>5, SameKeeps DEF spawn_thread
<1>6. ASSUME NEW t \in Guests, thread_tls_attach(t)
      PROVE  DllInv'
  BY <1>6, TellKeeps
<1>7. ASSUME NEW t \in Guests, exit_thread(t)
      PROVE  DllInv'
  BY <1>7, SameKeeps DEF exit_thread
<1>8. ASSUME NEW t \in Guests, begin_process_exit(t)
      PROVE  DllInv'
  BY <1>8, ExitKeeps
<1> QED BY <1>1, <1>2, <1>3, <1>4, <1>5, <1>6, <1>7, <1>8 DEF DllNext

\* Where no DLL imports itself through others and nothing is loaded once something
\* was freed, DllMain is called in the order the imports give, and never twice: an
\* image is attached when all it is bound to is, and detached at the exit when
\* nothing that is bound to it is left (load_plugin, invoke_callbacks, cb_advance
\* and begin_process_exit).
THEOREM DllsAreToldInOrder ==
  ASSUME ~LoadsAfterFree, ImportsNest
  PROVE  DllSpec => []NotifiedInOrder
<1>0. PICK rank : Ranks(rank)
  BY DEF ImportsNest
<1>1. DllInit => DllInv
  BY DllStart
<1>2. DllInv /\ [DllNext]_dllVars => DllInv'
  <2> SUFFICES ASSUME DllInv, [DllNext]_dllVars
               PROVE  DllInv'
    OBVIOUS
  <2>1. CASE DllNext
    BY <1>0, <2>1, DllStep
  <2>2. CASE UNCHANGED dllVars
    BY <2>2, SameKeeps DEF dllVars
  <2> QED BY <2>1, <2>2
<1>3. DllInv => NotifiedInOrder
  BY OrderFollows
<1> QED BY <1>1, <1>2, <1>3, PTL DEF DllSpec
=============================================================================
