--------------------------- MODULE DesktopProofs ---------------------------
(* The desktop for every number of windows, threads, events and slots: a host *)
(* event is never lost, an interrupted call returns to its caller, dialogs    *)
(* are asked before the guest quits, GDI slots are conserved, and what is    *)
(* drawn reaches its window and is shown.                                     *)
EXTENDS Windows, GdiHandles, Painting, Integers, TLAPS, SequenceTheorems, WellFoundedInduction,
        FiniteSetTheorems

-----------------------------------------------------------------------------
(* Sequences of any elements, and the ids of those that have one.           *)

IsSequence(s) == s \in Seq({s[i] : i \in DOMAIN s})
Ids(s) == {s[i].id : i \in DOMAIN s}

LEMMA SequenceShape ==
  ASSUME NEW s, IsSequence(s)
  PROVE  Len(s) \in Nat /\ DOMAIN s = 1 .. Len(s) /\ (s # <<>> <=> Len(s) > 0)
<1> DEFINE S == {s[i] : i \in DOMAIN s}
<1>1. s \in Seq(S)
  BY DEF IsSequence
<1> HIDE DEF S
<1> QED BY <1>1, EmptySeq, LenProperties

LEMMA AnySequence ==
  ASSUME NEW S, NEW s \in Seq(S)
  PROVE  IsSequence(s)
<1> DEFINE R == {s[i] : i \in DOMAIN s}
<1>1. Len(s) \in Nat /\ DOMAIN s = 1 .. Len(s) /\ s = [i \in 1 .. Len(s) |-> s[i]]
  BY LenProperties
<1>2. s \in [1 .. Len(s) -> R]
  BY <1>1
<1>3. s \in Seq(R)
  <2> HIDE DEF R
  <2> QED BY <1>1, <1>2
<1> QED BY <1>3 DEF IsSequence

LEMMA EmptyIds == IsSequence(<<>>) /\ Ids(<<>>) = {} /\ Len(<<>>) = 0
<1>1. <<>> \in Seq({}) /\ Len(<<>>) = 0
  BY EmptySeq
<1>2. IsSequence(<<>>)
  BY <1>1, AnySequence
<1>3. DOMAIN <<>> = {}
  BY <1>1, <1>2, SequenceShape
<1> QED BY <1>1, <1>2, <1>3 DEF Ids

LEMMA AppendIds ==
  ASSUME NEW s, NEW e, IsSequence(s)
  PROVE  /\ IsSequence(Append(s, e)) /\ Ids(Append(s, e)) = Ids(s) \union {e.id}
         /\ Len(Append(s, e)) = Len(s) + 1 /\ Append(s, e)[Len(s) + 1] = e
         /\ \A i \in 1 .. Len(s) : Append(s, e)[i] = s[i]
         /\ Append(s, e) # <<>>
<1> DEFINE R == {s[i] : i \in DOMAIN s}
           S == R \union {e}
           a == Append(s, e)
<1>1. s \in Seq(R) /\ R \subseteq S /\ e \in S
  BY DEF IsSequence
<1> HIDE DEF S, R
<1>2. s \in Seq(S)
  BY <1>1
<1>3. /\ a \in Seq(S) /\ Len(a) = Len(s) + 1 /\ a[Len(s) + 1] = e /\ a # <<>>
      /\ \A i \in 1 .. Len(s) : a[i] = s[i]
  BY <1>1, <1>2, AppendProperties
<1>4. Len(s) \in Nat /\ DOMAIN s = 1 .. Len(s) /\ DOMAIN a = 1 .. Len(s) + 1
  BY <1>2, <1>3, LenProperties
<1> HIDE DEF a
<1>5. Ids(a) = Ids(s) \union {e.id}
  <2>1. \A i \in 1 .. Len(s) + 1 : i \in 1 .. Len(s) \/ i = Len(s) + 1
    BY <1>4
  <2>2. \A i \in 1 .. Len(s) : i \in 1 .. Len(s) + 1
    BY <1>4
  <2>3. Len(s) + 1 \in 1 .. Len(s) + 1
    BY <1>4
  <2> QED BY <1>3, <1>4, <2>1, <2>2, <2>3 DEF Ids
<1> QED BY <1>3, <1>5, AnySequence DEF a

LEMMA TailIds ==
  ASSUME NEW s, IsSequence(s), s # <<>>
  PROVE  /\ IsSequence(Tail(s)) /\ Ids(s) = {Head(s).id} \union Ids(Tail(s))
<1> DEFINE R == {s[i] : i \in DOMAIN s}
           t == Tail(s)
<1>1. s \in Seq(R)
  BY DEF IsSequence
<1> HIDE DEF R
<1>2. t \in Seq(R) /\ Len(t) = Len(s) - 1 /\ (\A i \in 1 .. Len(t) : t[i] = s[i + 1]) /\ Head(s) = s[1]
  BY <1>1, HeadTailProperties
<1>3. Len(s) \in Nat /\ Len(s) > 0 /\ DOMAIN s = 1 .. Len(s) /\ DOMAIN t = 1 .. Len(s) - 1
  BY <1>1, <1>2, SequenceShape, LenProperties
<1> HIDE DEF t
<1>4. \A i \in 1 .. Len(s) : i = 1 \/ (i - 1 \in 1 .. Len(s) - 1 /\ s[i] = t[i - 1])
  <2> SUFFICES ASSUME NEW i \in 1 .. Len(s), i # 1
               PROVE  i - 1 \in 1 .. Len(s) - 1 /\ s[i] = t[i - 1]
    OBVIOUS
  <2>1. i - 1 \in 1 .. Len(s) - 1 /\ (i - 1) + 1 = i
    BY <1>3
  <2> QED BY <1>2, <2>1
<1>5. \A i \in 1 .. Len(s) - 1 : i + 1 \in 1 .. Len(s) /\ t[i] = s[i + 1]
  BY <1>2, <1>3
<1>6. 1 \in 1 .. Len(s)
  BY <1>3
<1>7. Ids(s) = {Head(s).id} \union Ids(t)
  <2>1. ASSUME NEW x \in Ids(s)
        PROVE  x = Head(s).id \/ x \in Ids(t)
    <3>1. PICK i \in 1 .. Len(s) : x = s[i].id
      BY <1>3 DEF Ids
    <3> QED BY <1>2, <1>3, <1>4, <3>1 DEF Ids
  <2>2. Head(s).id \in Ids(s)
    BY <1>2, <1>3, <1>6 DEF Ids
  <2>3. ASSUME NEW x \in Ids(t)
        PROVE  x \in Ids(s)
    <3>1. PICK i \in 1 .. Len(s) - 1 : x = t[i].id
      BY <1>3 DEF Ids
    <3> QED BY <1>3, <1>5, <3>1 DEF Ids
  <2> QED BY <2>1, <2>2, <2>3
<1> QED BY <1>2, <1>7, AnySequence DEF t

LEMMA ConcatIds ==
  ASSUME NEW s, NEW t, IsSequence(s), IsSequence(t)
  PROVE  IsSequence(s \o t) /\ Ids(s \o t) = Ids(s) \union Ids(t)
<1> DEFINE Q == {s[i] : i \in DOMAIN s}
           R == {t[i] : i \in DOMAIN t}
           S == Q \union R
           c == s \o t
<1>1. s \in Seq(Q) /\ t \in Seq(R) /\ Q \subseteq S /\ R \subseteq S
  BY DEF IsSequence
<1> HIDE DEF Q, R, S
<1>2. s \in Seq(S) /\ t \in Seq(S)
  BY <1>1
<1>3. /\ c \in Seq(S) /\ Len(c) = Len(s) + Len(t)
      /\ \A i \in 1 .. Len(s) + Len(t) : c[i] = IF i <= Len(s) THEN s[i] ELSE t[i - Len(s)]
  BY <1>2, ConcatProperties
<1>4. /\ Len(s) \in Nat /\ Len(t) \in Nat /\ DOMAIN s = 1 .. Len(s) /\ DOMAIN t = 1 .. Len(t)
      /\ DOMAIN c = 1 .. Len(s) + Len(t)
  BY <1>2, <1>3, LenProperties
<1> HIDE DEF c
<1>5. \A i \in 1 .. Len(s) : i \in 1 .. Len(s) + Len(t) /\ c[i] = s[i]
  BY <1>3, <1>4
<1>6. \A i \in 1 .. Len(t) : Len(s) + i \in 1 .. Len(s) + Len(t) /\ c[Len(s) + i] = t[i]
  <2> SUFFICES ASSUME NEW i \in 1 .. Len(t)
               PROVE  Len(s) + i \in 1 .. Len(s) + Len(t) /\ c[Len(s) + i] = t[i]
    OBVIOUS
  <2>1. Len(s) + i \in 1 .. Len(s) + Len(t) /\ ~(Len(s) + i <= Len(s)) /\ Len(s) + i - Len(s) = i
    BY <1>4
  <2> QED BY <1>3, <2>1
<1>7. \A i \in 1 .. Len(s) + Len(t) :
          (i \in 1 .. Len(s) /\ c[i] = s[i]) \/ (i - Len(s) \in 1 .. Len(t) /\ c[i] = t[i - Len(s)])
  <2> SUFFICES ASSUME NEW i \in 1 .. Len(s) + Len(t)
               PROVE  (i \in 1 .. Len(s) /\ c[i] = s[i]) \/ (i - Len(s) \in 1 .. Len(t) /\ c[i] = t[i - Len(s)])
    OBVIOUS
  <2>1. CASE i <= Len(s)
    BY <1>3, <1>4, <2>1
  <2>2. CASE ~(i <= Len(s))
    <3>1. i - Len(s) \in 1 .. Len(t)
      BY <1>4, <2>2
    <3> QED BY <1>3, <2>2, <3>1
  <2> QED BY <2>1, <2>2
<1>8. Ids(c) = Ids(s) \union Ids(t)
  <2>1. ASSUME NEW x \in Ids(c)
        PROVE  x \in Ids(s) \union Ids(t)
    <3>1. PICK i \in 1 .. Len(s) + Len(t) : x = c[i].id
      BY <1>4 DEF Ids
    <3> QED BY <1>4, <1>7, <3>1 DEF Ids
  <2>2. ASSUME NEW x \in Ids(s)
        PROVE  x \in Ids(c)
    <3>1. PICK i \in 1 .. Len(s) : x = s[i].id
      BY <1>4 DEF Ids
    <3> QED BY <1>4, <1>5, <3>1 DEF Ids
  <2>3. ASSUME NEW x \in Ids(t)
        PROVE  x \in Ids(c)
    <3>1. PICK i \in 1 .. Len(t) : x = t[i].id
      BY <1>4 DEF Ids
    <3> QED BY <1>4, <1>6, <3>1 DEF Ids
  <2> QED BY <2>1, <2>2, <2>3
<1> QED BY <1>3, <1>8, AnySequence DEF c

LEMMA OneId ==
  ASSUME NEW e
  PROVE  /\ IsSequence(<<e>>) /\ Ids(<<e>>) = {e.id} /\ <<e>> # <<>>
<1> DEFINE s == <<e>>
<1>1. s \in Seq({e}) /\ Len(s) = 1 /\ s[1] = e
  OBVIOUS
<1> HIDE DEF s
<1>2. IsSequence(s)
  BY <1>1, AnySequence
<1>3. DOMAIN s = {1} /\ s # <<>>
  BY <1>1, <1>2, SequenceShape
<1> QED BY <1>1, <1>2, <1>3 DEF Ids, s

\* The last element is replaced, or goes.
LEMMA LastChanges ==
  ASSUME NEW s, IsSequence(s), s # <<>>, NEW e
  PROVE  LET n == Len(s)
             changed == [s EXCEPT ![n] = e]
         IN  /\ n \in Nat \ {0} /\ Last(s) = s[n]
             /\ IsSequence(changed) /\ Len(changed) = n /\ changed[n] = e
             /\ \A i \in 1 .. n - 1 : changed[i] = s[i]
             /\ IsSequence(Front(s)) /\ Len(Front(s)) = n - 1 
             /\ \A i \in 1 .. n - 1 : Front(s)[i] = s[i]
<1> DEFINE n == Len(s)
           R == {s[i] : i \in DOMAIN s}
           S == R \union {e}
           changed == [s EXCEPT ![n] = e]
           front == Front(s)
<1>1. s \in Seq(R) /\ R \subseteq S /\ e \in S
  BY DEF IsSequence
<1> HIDE DEF R, S
<1>2. s \in Seq(S)
  BY <1>1
<1>3. n \in Nat \ {0} /\ Last(s) = s[n] /\ DOMAIN s = 1 .. n
  BY SequenceShape DEF Last
<1>4. \A i \in 1 .. n - 1 : s[i] \in S
  BY <1>2, <1>3, LenProperties
<1>5. front = SubSeq(s, 1, n - 1)
  BY DEF Front
<1>6. n - 1 \in Int /\ n - 1 \in Nat /\ n \in 1 .. n /\ (n - 1) - 1 + 1 = n - 1
  BY <1>3
<1> HIDE DEF n, front
<1>7. /\ front \in Seq(S) /\ Len(front) = (IF 1 <= n - 1 THEN (n - 1) - 1 + 1 ELSE 0)
      /\ \A i \in 1 .. (n - 1) - 1 + 1 : front[i] = s[1 + i - 1]
  BY <1>4, <1>5, <1>6, SubSeqProperties
<1>8. Len(front) = n - 1 /\ \A i \in 1 .. n - 1 : front[i] = s[i]
  <2>1. ~(1 <= n - 1) => n - 1 = 0
    BY <1>6
  <2>2. \A i \in 1 .. n - 1 : 1 + i - 1 = i
    BY <1>6
  <2> QED BY <1>6, <1>7, <2>1, <2>2
<1>9. changed \in Seq(S) /\ Len(changed) = n /\ changed[n] = e /\ \A i \in 1 .. n - 1 : changed[i] = s[i]
  <2>1. n \in 1 .. Len(s) /\ Len(s) = n
    BY <1>6 DEF n
  <2>2. /\ changed \in Seq(S) /\ Len(changed) = n
        /\ \A j \in 1 .. n : changed[j] = IF j = n THEN e ELSE s[j]
    BY <1>1, <1>2, <2>1, ExceptSeq
  <2>3. \A i \in 1 .. n - 1 : i \in 1 .. n /\ i # n
    BY <1>6
  <2> QED BY <1>6, <2>2, <2>3
<1>10. IsSequence(changed) /\ IsSequence(front)
  BY <1>7, <1>9, AnySequence
<1> QED BY <1>3, <1>8, <1>9, <1>10 DEF n, front

-----------------------------------------------------------------------------
(* The newest of some windows is one of them.  (Largest and least elements  *)
(* of sets of numbers, without induction: some order is well-founded.)      *)
LEMMA LargestExists ==
  ASSUME NEW N \in Nat, NEW S, S \subseteq 0 .. N, S # {}
  PROVE  \E m \in S : \A k \in S : k <= m
<1> DEFINE R == {ss \in Nat \X Nat : ss[1] < ss[2]}
           T == {N - k : k \in S}
<1>1. T \subseteq Nat /\ T # {}
  <2>1. \A k \in S : N - k \in Nat
    OBVIOUS
  <2>2. PICK k \in S : TRUE
    OBVIOUS
  <2>3. N - k \in T
    OBVIOUS
  <2> QED BY <2>1, <2>3
<1>2. \E m \in T : \A k \in T : ~(<<k, m>> \in R)
  <2> HIDE DEF R, T
  <2>1. IsWellFoundedOn(R, Nat)
    BY NatLessThanWellFounded DEF R, OpToRel
  <2> QED BY <1>1, <2>1, WFMin
<1>3. PICK m \in T : \A k \in T : ~(<<k, m>> \in R)
  BY <1>2
<1>4. PICK h \in S : m = N - h
  OBVIOUS
<1>5. ASSUME NEW k \in S
      PROVE  k <= h
  <2>1. N - k \in T /\ N - k \in Nat /\ m \in Nat
    BY <1>1
  <2>2. ~(N - k < m)
    BY <1>3, <2>1
  <2> QED BY <1>4, <2>1, <2>2
<1> QED BY <1>5

LEMMA NewestIsOne ==
  ASSUME NEW N \in Nat, NEW S, S \subseteq 1 .. N
  PROVE  /\ S = {} => Newest(S) = 0
         /\ S # {} => Newest(S) \in S /\ Newest(S) # 0
<1>1. S = {} => Newest(S) = 0
  BY DEF Newest
<1>2. ASSUME S # {}
      PROVE  Newest(S) \in S /\ Newest(S) # 0
  <2>1. S \subseteq 0 .. N
    OBVIOUS
  <2>2. \E m \in S : \A k \in S : k <= m
    BY <1>2, <2>1, LargestExists
  <2>3. Newest(S) \in S
    BY <1>2, <2>2 DEF Newest
  <2> QED BY <2>3
<1> QED BY <1>1, <1>2

-----------------------------------------------------------------------------
(* What the window manager's state looks like.  Window handles are numbers  *)
(* given out once, a frame carries a hit test or none, and everything that  *)
(* waits is a sequence.                                                     *)

EveryProc == \A s \in Styles : s.proc = TRUE   \* no class without a procedure

WindowShape(w) ==
    /\ w = [parent |-> w.parent, x |-> w.x, w |-> w.w, shown |-> w.shown,
            needs_paint |-> w.needs_paint, proc |-> w.proc,
            dialog_info |-> w.dialog_info, dialog_cancelled |-> w.dialog_cancelled]
    /\ w.dialog_cancelled \in BOOLEAN
    /\ EveryProc => w.proc = TRUE
WindowsAre(ws) == DOMAIN ws \subseteq 1 .. MaxWindow /\ \A h \in DOMAIN ws : WindowShape(ws[h])

TestShape(p) == p = [hwnd |-> p.hwnd, ev |-> p.ev, skipped |-> p.skipped]
FrameShape(f) ==
    /\ f = [running |-> f.running, remaining |-> f.remaining, then |-> f.then, result |-> f.result]
    /\ f.then = NoTest \/ TestShape(f.then)

WindowsRight == WindowsAre(windows) /\ next_hwnd \in 1 .. MaxWindow + 1
QueuesRight ==
    /\ IsSequence(channel) /\ IsSequence(raw_input) /\ sent \in Nat
    /\ gui_current \in GuiThreads /\ DOMAIN msgs = GuiThreads
    /\ \A t \in GuiThreads : IsSequence(msgs[t])
FramesRight == IsSequence(win32k_cb) /\ \A i \in DOMAIN win32k_cb : FrameShape(win32k_cb[i])
WinInv == WindowsRight /\ QueuesRight /\ FramesRight

Retrieval(d) ==
    /\ d = [windows |-> d.windows, seats |-> d.seats, quit |-> d.quit, raw |-> d.raw, msgs |-> d.msgs]
    /\ WindowsAre(d.windows) /\ IsSequence(d.raw) /\ IsSequence(d.msgs)

LEMMA TestIsNoNoTest ==
  ASSUME NEW hwnd, NEW ev, NEW skipped
  PROVE  [hwnd |-> hwnd, ev |-> ev, skipped |-> skipped] # NoTest
<1>1. "ev" \in DOMAIN [hwnd |-> hwnd, ev |-> ev, skipped |-> skipped]
  OBVIOUS
<1>2. "ev" \notin DOMAIN NoTest
  BY DEF NoTest
<1> QED BY <1>1, <1>2

LEMMA PointIsWindow ==
  ASSUME NEW ws, WindowsAre(ws), NEW root, NEW p, NEW skip
  PROVE  window_from_point_in(ws, root, p, skip) \in DOMAIN ws \union {0}
<1> DEFINE child(h) == Newest({k \in DOMAIN ws : /\ ws[k].parent = h
                                              /\ ws[k].shown
                                              /\ k \notin skip
                                              /\ contains_point(ws, k, p)})
           Way(S) == \A h \in S \ {root} : ws[h].parent \in S /\ child(ws[h].parent) = h
           on == UNION {S \in SUBSET DOMAIN ws : Way(S)}
<1>1. on \subseteq DOMAIN ws /\ on \subseteq 1 .. MaxWindow
  BY DEF WindowsAre
<1>2. window_from_point_in(ws, root, p, skip) = 0 \/ window_from_point_in(ws, root, p, skip) = Newest(on)
  BY DEF window_from_point_in
<1>3. MaxWindow \in Nat
  BY WindowsAssumption
<1> HIDE DEF on
<1>4. Newest(on) \in on \/ Newest(on) = 0
  BY <1>1, <1>3, NewestIsOne
<1> QED BY <1>1, <1>2, <1>4

LEMMA RecordShape ==
  ASSUME NEW parent, NEW x, NEW w, NEW shown, NEW needs_paint, NEW proc, NEW dialog_info,
         NEW dialog_cancelled \in BOOLEAN, EveryProc => proc = TRUE
  PROVE  WindowShape([parent |-> parent, x |-> x, w |-> w, shown |-> shown,
                      needs_paint |-> needs_paint, proc |-> proc,
                      dialog_info |-> dialog_info, dialog_cancelled |-> dialog_cancelled])
  BY DEF WindowShape

LEMMA OneChanges ==
  ASSUME NEW ws, WindowsAre(ws), NEW h, NEW w, WindowShape(w)
  PROVE  WindowsAre([ws EXCEPT ![h] = w])
<1> DEFINE new == [ws EXCEPT ![h] = w]
<1>1. DOMAIN new = DOMAIN ws /\ \A k \in DOMAIN ws : new[k] = IF k = h THEN w ELSE ws[k]
  OBVIOUS
<1> HIDE DEF new
<1>2. \A k \in DOMAIN new : WindowShape(new[k])
  BY <1>1 DEF WindowsAre
<1>3. WindowsAre(new)
  BY <1>1, <1>2 DEF WindowsAre
<1> QED BY <1>3 DEF new

LEMMA FieldsChange ==
  ASSUME NEW ws, WindowsAre(ws), NEW h \in DOMAIN ws, NEW v, NEW u, NEW b \in BOOLEAN
  PROVE  /\ WindowsAre([ws EXCEPT ![h].needs_paint = v])
         /\ WindowsAre([ws EXCEPT ![h].dialog_cancelled = b])
         /\ WindowsAre([ws EXCEPT ![h].x = v])
         /\ WindowsAre([ws EXCEPT ![h].shown = v, ![h].needs_paint = u])
<1> DEFINE w == ws[h]
           Of(x, shown, paint, cancelled) ==
              [parent |-> w.parent, x |-> x, w |-> w.w, shown |-> shown, needs_paint |-> paint,
               proc |-> w.proc, dialog_info |-> w.dialog_info, dialog_cancelled |-> cancelled]
<1>1. WindowShape(w)
  BY DEF WindowsAre
<1>2. w = Of(w.x, w.shown, w.needs_paint, w.dialog_cancelled) /\ w.dialog_cancelled \in BOOLEAN
      /\ (EveryProc => w.proc = TRUE)
  BY <1>1 DEF WindowShape
<1>3. \A x, shown, paint : WindowShape(Of(x, shown, paint, w.dialog_cancelled))
  BY <1>2, RecordShape, ZenonT(20)
<1>4. \A x, shown, paint : WindowShape(Of(x, shown, paint, b))
  BY <1>2, RecordShape, ZenonT(20)
<1> HIDE DEF w
<1>5. /\ [w EXCEPT !.needs_paint = v] = Of(w.x, w.shown, v, w.dialog_cancelled)
      /\ [w EXCEPT !.dialog_cancelled = b] = Of(w.x, w.shown, w.needs_paint, b)
      /\ [w EXCEPT !.x = v] = Of(v, w.shown, w.needs_paint, w.dialog_cancelled)
      /\ [w EXCEPT !.shown = v, !.needs_paint = u] = Of(w.x, v, u, w.dialog_cancelled)
  <2>0. w = Of(w.x, w.shown, w.needs_paint, w.dialog_cancelled)
    BY <1>2
  <2>1. [w EXCEPT !.needs_paint = v] = Of(w.x, w.shown, v, w.dialog_cancelled)
    BY <2>0
  <2>2. [w EXCEPT !.dialog_cancelled = b] = Of(w.x, w.shown, w.needs_paint, b)
    BY <2>0
  <2>3. [w EXCEPT !.x = v] = Of(v, w.shown, w.needs_paint, w.dialog_cancelled)
    BY <2>0
  <2>4. [w EXCEPT !.shown = v, !.needs_paint = u] = Of(w.x, v, u, w.dialog_cancelled)
    <3>1. [w EXCEPT !.shown = v] = Of(w.x, v, w.needs_paint, w.dialog_cancelled)
      BY <2>0
    <3>2. [[w EXCEPT !.shown = v] EXCEPT !.needs_paint = u] = Of(w.x, v, u, w.dialog_cancelled)
      <4> DEFINE part == [w EXCEPT !.shown = v]
                 whole == [part EXCEPT !.needs_paint = u]
      <4>1. part = Of(w.x, v, w.needs_paint, w.dialog_cancelled)
        BY <3>1
      <4> HIDE DEF part
      <4>2. whole = Of(w.x, v, u, w.dialog_cancelled)
        BY <4>1
      <4> QED BY <4>2 DEF part
    <3>3. [w EXCEPT !.shown = v, !.needs_paint = u] = [[w EXCEPT !.shown = v] EXCEPT !.needs_paint = u]
      OBVIOUS
    <3> QED BY <3>2, <3>3
  <2> QED BY <2>1, <2>2, <2>3, <2>4
<1> HIDE DEF Of
<1>6. /\ WindowsAre([ws EXCEPT ![h] = Of(w.x, w.shown, v, w.dialog_cancelled)])
      /\ WindowsAre([ws EXCEPT ![h] = Of(w.x, w.shown, w.needs_paint, b)])
      /\ WindowsAre([ws EXCEPT ![h] = Of(v, w.shown, w.needs_paint, w.dialog_cancelled)])
      /\ WindowsAre([ws EXCEPT ![h] = Of(w.x, v, u, w.dialog_cancelled)])
  BY <1>3, <1>4, OneChanges
<1>7. /\ [ws EXCEPT ![h].needs_paint = v] = [ws EXCEPT ![h] = [w EXCEPT !.needs_paint = v]]
      /\ [ws EXCEPT ![h].dialog_cancelled = b] = [ws EXCEPT ![h] = [w EXCEPT !.dialog_cancelled = b]]
      /\ [ws EXCEPT ![h].x = v] = [ws EXCEPT ![h] = [w EXCEPT !.x = v]]
      /\ [ws EXCEPT ![h].shown = v, ![h].needs_paint = u]
            = [ws EXCEPT ![h] = [w EXCEPT !.shown = v, !.needs_paint = u]]
  BY DEF w
<1> QED BY <1>5, <1>6, <1>7

LEMMA OldestIsOne ==
  ASSUME NEW N \in Nat, NEW S, S \subseteq 1 .. N
  PROVE  /\ S = {} => Oldest(S) = 0
         /\ S # {} => Oldest(S) \in S /\ Oldest(S) # 0
<1>1. S = {} => Oldest(S) = 0
  BY DEF Oldest
<1>2. ASSUME S # {}
      PROVE  Oldest(S) \in S /\ Oldest(S) # 0
  <2> DEFINE T == {N - k : k \in S}
  <2>0. \A k \in S : k \in Int /\ N - k \in 0 .. N
    OBVIOUS
  <2>1. T \subseteq 0 .. N /\ T # {}
    <3>1. PICK k \in S : TRUE
      BY <1>2
    <3>2. N - k \in T
      OBVIOUS
    <3> QED BY <2>0, <3>2
  <2>2. PICK m \in T : \A k \in T : k <= m
    <3> HIDE DEF T
    <3> QED BY <2>1, LargestExists
  <2>3. PICK h \in S : m = N - h
    OBVIOUS
  <2>4. \A k \in S : h <= k
    <3> SUFFICES ASSUME NEW k \in S
                 PROVE  h <= k
      OBVIOUS
    <3>1. N - k \in T
      OBVIOUS
    <3> HIDE DEF T
    <3>2. N - k <= N - h /\ k \in Int /\ h \in Int
      BY <2>0, <2>2, <2>3, <3>1
    <3> QED BY <3>2
  <2>5. Oldest(S) \in S
    BY <1>2, <2>4 DEF Oldest
  <2> QED BY <2>5
<1> QED BY <1>1, <1>2

\* A retrieval with some of its parts replaced.
LEMMA RetrievalShape ==
  ASSUME NEW ws, WindowsAre(ws), NEW places, NEW quit, NEW raw, IsSequence(raw), NEW ms, IsSequence(ms)
  PROVE  Retrieval([windows |-> ws, seats |-> places, quit |-> quit, raw |-> raw, msgs |-> ms])
  BY DEF Retrieval

PaintKeeps(d, e) == Retrieval(e) /\ e.raw = d.raw /\ Ids(d.msgs) \subseteq Ids(e.msgs)
LEMMA PaintedRight ==
  ASSUME NEW d, Retrieval(d)
  PROVE  PaintKeeps(d, synthesize_paint(d))
<1> DEFINE S == {k \in DOMAIN d.windows : d.windows[k].needs_paint /\ chain_visible(d.windows, k)}
           h == Oldest(S)
           message == <<Message(h, "WM_PAINT", 0)>>
           ws == [d.windows EXCEPT ![h].needs_paint = FALSE]
           e == synthesize_paint(d)
<1>0. WindowsAre(d.windows) /\ MaxWindow \in Nat
  BY WindowsAssumption DEF Retrieval
<1>1. CASE d.msgs # <<>> \/ h = 0
  <2>1. e = d
    BY <1>1 DEF synthesize_paint
  <2> HIDE DEF e
  <2>2. PaintKeeps(d, e)
    BY <2>1 DEF PaintKeeps
  <2> QED BY <2>2 DEF e
<1>2. CASE ~(d.msgs # <<>> \/ h = 0)
  <2>1. e = [d EXCEPT !.windows[h].needs_paint = FALSE, !.msgs = message]
    BY <1>2 DEF synthesize_paint
  <2>2. h \in DOMAIN d.windows
    <3>1. S \subseteq 1 .. MaxWindow /\ S \subseteq DOMAIN d.windows
      BY <1>0 DEF WindowsAre
    <3> HIDE DEF S
    <3> QED BY <1>0, <1>2, <3>1, OldestIsOne
  <2>3. IsSequence(message) /\ d.msgs = <<>>
    BY <1>2, OneId
  <2> HIDE DEF message, h, e
  <2>4. WindowsAre(ws)
    BY <1>0, <2>2, FieldsChange
  <2>5. e = [windows |-> ws, seats |-> d.seats, quit |-> d.quit, raw |-> d.raw, msgs |-> message]
    BY <2>1 DEF Retrieval
  <2> HIDE DEF ws
  <2>6. e.raw = d.raw /\ e.msgs = message
    BY <2>5
  <2>7. Retrieval(e)
    BY <2>3, <2>4, <2>5, RetrievalShape DEF Retrieval
  <2>8. PaintKeeps(d, e)
    BY <2>3, <2>6, <2>7, EmptyIds DEF PaintKeeps
  <2> QED BY <2>8 DEF e
<1> QED BY <1>1, <1>2

AllAsked(ws) == \A h \in DOMAIN ws : ws[h].dialog_info => ws[h].dialog_cancelled
CancelKeeps(d, e) ==
    /\ PaintKeeps(d, e)
    /\ e.msgs = <<>> /\ e.raw = <<>> /\ e.quit => AllAsked(e.windows)
LEMMA CancelledRight ==
  ASSUME NEW d, Retrieval(d)
  PROVE  CancelKeeps(d, cancel_unattended_dialog(d))
<1> DEFINE found(asked) == {h \in DOMAIN d.windows : /\ d.windows[h].dialog_info
                                                   /\ d.windows[h].dialog_cancelled = asked}
           dialog(asked) == Newest(found(asked))
           message == <<Message(dialog(FALSE), "WM_CLOSE", 0)>>
           told == [d.windows EXCEPT ![dialog(FALSE)].dialog_cancelled = TRUE]
           without == Without(d.windows, dialog(TRUE))
           e == cancel_unattended_dialog(d)
<1>0. WindowsAre(d.windows) /\ MaxWindow \in Nat /\ IsSequence(d.raw) /\ IsSequence(d.msgs)
  BY WindowsAssumption DEF Retrieval
<1>1. CASE ~d.quit \/ d.msgs # <<>> \/ d.raw # <<>>
  <2>1. e = d
    BY <1>1 DEF cancel_unattended_dialog
  <2> HIDE DEF e
  <2>2. CancelKeeps(d, e)
    BY <1>1, <2>1 DEF CancelKeeps, PaintKeeps
  <2> QED BY <2>2 DEF e
<1>2. CASE ~(~d.quit \/ d.msgs # <<>> \/ d.raw # <<>>) /\ dialog(FALSE) # 0
  <2>1. e = [d EXCEPT !.windows[dialog(FALSE)].dialog_cancelled = TRUE, !.msgs = message]
    BY <1>2 DEF cancel_unattended_dialog
  <2>2. dialog(FALSE) \in DOMAIN d.windows
    <3>1. found(FALSE) \subseteq 1 .. MaxWindow /\ found(FALSE) \subseteq DOMAIN d.windows
      BY <1>0 DEF WindowsAre
    <3> HIDE DEF found
    <3> QED BY <1>0, <1>2, <3>1, NewestIsOne
  <2>3. IsSequence(message) /\ message # <<>> /\ d.msgs = <<>>
    BY <1>2, OneId
  <2> HIDE DEF message, dialog, e
  <2>4. WindowsAre(told)
    BY <1>0, <2>2, FieldsChange
  <2>5. e = [windows |-> told, seats |-> d.seats, quit |-> d.quit, raw |-> d.raw, msgs |-> message]
    BY <2>1 DEF Retrieval
  <2> HIDE DEF told
  <2>6. e.raw = d.raw /\ e.msgs = message
    BY <2>5
  <2>7. Retrieval(e)
    BY <1>0, <2>3, <2>4, <2>5, RetrievalShape
  <2>8. CancelKeeps(d, e)
    BY <2>3, <2>6, <2>7, EmptyIds DEF CancelKeeps, PaintKeeps
  <2> QED BY <2>8 DEF e
<1>3. CASE ~(~d.quit \/ d.msgs # <<>> \/ d.raw # <<>>) /\ dialog(FALSE) = 0
  <2>1. found(FALSE) \subseteq 1 .. MaxWindow
    BY <1>0 DEF WindowsAre
  <2>2. found(FALSE) = {}
    <3> HIDE DEF found
    <3> QED BY <1>0, <1>3, <2>1, NewestIsOne
  <2>3. AllAsked(d.windows)
    <3>1. \A h \in DOMAIN d.windows : d.windows[h].dialog_cancelled \in BOOLEAN
      BY <1>0 DEF WindowsAre, WindowShape
    <3> QED BY <2>2, <3>1 DEF AllAsked
  <2>4. CASE dialog(TRUE) # 0
    <3>1. e = [d EXCEPT !.windows = without, !.seats = Vacated(@, dialog(TRUE))]
      BY <1>3, <2>4 DEF cancel_unattended_dialog
    <3> HIDE DEF e, dialog
    <3>2. DOMAIN without \subseteq DOMAIN d.windows /\ \A h \in DOMAIN without : without[h] = d.windows[h]
      BY DEF Without
    <3> HIDE DEF without
    <3>3. WindowsAre(without) /\ AllAsked(without)
      BY <1>0, <2>3, <3>2 DEF WindowsAre, AllAsked
    <3>4. e = [windows |-> without, seats |-> Vacated(d.seats, dialog(TRUE)), quit |-> d.quit,
               raw |-> d.raw, msgs |-> d.msgs]
      BY <3>1 DEF Retrieval
    <3>5. Retrieval(e)
      BY <1>0, <3>3, <3>4, RetrievalShape
    <3>6. e.raw = d.raw /\ e.msgs = d.msgs /\ e.windows = without
      BY <3>4
    <3>7. CancelKeeps(d, e)
      BY <3>3, <3>5, <3>6 DEF CancelKeeps, PaintKeeps
    <3> QED BY <3>7 DEF e
  <2>5. CASE dialog(TRUE) = 0
    <3>1. e = d
      BY <1>3, <2>5 DEF cancel_unattended_dialog
    <3> HIDE DEF e
    <3>2. CancelKeeps(d, e)
      BY <2>3, <3>1 DEF CancelKeeps, PaintKeeps
    <3> QED BY <3>2 DEF e
  <2> QED BY <2>4, <2>5
<1> QED BY <1>1, <1>2, <1>3

LEMMA PreparedRight ==
  ASSUME WinInv
  PROVE  /\ Retrieval(Prepared)
         /\ Ids(Prepared.raw) = Ids(raw_input) \union Ids(channel)
         /\ Ids(msgs[gui_current]) \subseteq Ids(Prepared.msgs)
         /\ Prepared.msgs = <<>> /\ Prepared.raw = <<>> /\ Prepared.quit => AllAsked(Prepared.windows)
<1> DEFINE raw == raw_input \o channel
           d == Drained
           e == synthesize_paint(d)
<1>1. d = [windows |-> windows, seats |-> seats,
           quit |-> (quit_code[gui_current] \/ ~HasInput \/ closing), raw |-> raw, msgs |-> msgs[gui_current]]
  BY DEF Drained
<1>2. IsSequence(raw) /\ Ids(raw) = Ids(raw_input) \union Ids(channel)
  BY ConcatIds DEF WinInv, QueuesRight
<1>3. IsSequence(msgs[gui_current]) /\ WindowsAre(windows)
  BY DEF WinInv, QueuesRight, WindowsRight
<1> HIDE DEF d, raw
<1>4. Retrieval(d) /\ d.raw = raw /\ d.msgs = msgs[gui_current]
  BY <1>1, <1>2, <1>3 DEF Retrieval
<1>5. Retrieval(e) /\ e.raw = raw /\ Ids(d.msgs) \subseteq Ids(e.msgs)
  BY <1>4, PaintedRight DEF PaintKeeps
<1> HIDE DEF e
<1>6. CancelKeeps(e, cancel_unattended_dialog(e))
  BY <1>5, CancelledRight
<1>7. CancelKeeps(e, Prepared)
  BY <1>6 DEF Prepared, d, e
<1> QED BY <1>2, <1>4, <1>5, <1>7 DEF CancelKeeps, PaintKeeps
-----------------------------------------------------------------------------
(* Where the id of an event may be, and what a step keeps.                  *)
MsgIds(ms) == UNION {Ids(ms[t]) : t \in GuiThreads}
HitIds(cb) == {cb[i].then.ev.id : i \in {j \in DOMAIN cb : cb[j].then # NoTest}}
Queued == Ids(channel) \union Ids(raw_input) \union MsgIds(msgs)
Where == Queued \union HitIds(win32k_cb) \union given \union dropped
AllThere == 1 .. sent \subseteq Where

\* Only the running thread has calls under way, one for every frame.
OwedRight ==
    /\ gui_current \in GuiThreads /\ DOMAIN owed = GuiThreads
    /\ \A t \in GuiThreads : t # gui_current => owed[t] = <<>>
    /\ IsSequence(owed[gui_current]) /\ Len(owed[gui_current]) = Len(win32k_cb)
    /\ \A i \in DOMAIN win32k_cb : owed[gui_current][i] = win32k_cb[i].result
Reaches ==
    \A t \in GuiThreads : Len(owed'[t]) < Len(owed[t]) => Last(owed[t]) = Frame.result

CallsKept == OwedRight => OwedRight' /\ Reaches
SentThere == sent' = sent \/ (sent' = sent + 1 /\ sent' \in Where')
StepKeeps ==
    /\ WinInv' /\ SentThere
    /\ EveryProc => Where \ {0} \subseteq Where'
    /\ ~SwitchesInCallbacks => CallsKept

Replaced(s, e) == [s EXCEPT ![Len(s)] = e]

LEMMA FrontShape ==
  ASSUME NEW s, IsSequence(s), s # <<>>
  PROVE  /\ Len(s) \in Nat \ {0} /\ Last(s) = s[Len(s)] /\ DOMAIN s = 1 .. Len(s)
         /\ IsSequence(Front(s)) /\ Len(Front(s)) = Len(s) - 1 /\ DOMAIN Front(s) = 1 .. Len(s) - 1
         /\ \A i \in 1 .. Len(s) - 1 : Front(s)[i] = s[i]
<1>1. /\ Len(s) \in Nat \ {0} /\ Last(s) = s[Len(s)]
      /\ IsSequence(Front(s)) /\ Len(Front(s)) = Len(s) - 1
      /\ \A i \in 1 .. Len(s) - 1 : Front(s)[i] = s[i]
  BY LastChanges
<1>2. DOMAIN s = 1 .. Len(s) /\ DOMAIN Front(s) = 1 .. Len(Front(s))
  BY <1>1, SequenceShape
<1> QED BY <1>1, <1>2

LEMMA ReplacedShape ==
  ASSUME NEW s, IsSequence(s), s # <<>>, NEW e
  PROVE  /\ IsSequence(Replaced(s, e)) /\ DOMAIN Replaced(s, e) = 1 .. Len(s)
         /\ Len(Replaced(s, e)) = Len(s) /\ Replaced(s, e)[Len(s)] = e
         /\ \A i \in 1 .. Len(s) - 1 : Replaced(s, e)[i] = s[i]
<1>1. /\ IsSequence(Replaced(s, e)) /\ Len(Replaced(s, e)) = Len(s) /\ Replaced(s, e)[Len(s)] = e
      /\ \A i \in 1 .. Len(s) - 1 : Replaced(s, e)[i] = s[i]
  BY LastChanges DEF Replaced
<1> QED BY <1>1, SequenceShape

LEMMA NoFrame ==
  ASSUME FramesRight, UNCHANGED <<win32k_cb, owed, gui_current>>
  PROVE  FramesRight' /\ HitIds(win32k_cb') = HitIds(win32k_cb) /\ CallsKept
<1>1. FramesRight' /\ HitIds(win32k_cb') = HitIds(win32k_cb)
  BY DEF FramesRight
<1>2. ASSUME OwedRight
      PROVE  OwedRight' /\ Reaches
  <2>1. OwedRight'
    BY <1>2 DEF OwedRight
  <2>2. \A t \in GuiThreads : IsSequence(owed[t])
    BY <1>2, EmptyIds DEF OwedRight
  <2>3. \A t \in GuiThreads : Len(owed[t]) \in Nat
    BY <2>2, SequenceShape
  <2>4. Reaches
    BY <2>3 DEF Reaches
  <2> QED BY <2>1, <2>4
<1> QED BY <1>1, <1>2 DEF CallsKept

LEMMA PushRight ==
  ASSUME FramesRight, gui_current' = gui_current, NEW q, NEW test, test = NoTest \/ TestShape(test),
         NEW result, PushFrame(q, test, result, result)
  PROVE  /\ FramesRight' /\ HitIds(win32k_cb) \subseteq HitIds(win32k_cb')
         /\ q # <<>> /\ test # NoTest => test.ev.id \in HitIds(win32k_cb')
         /\ CallsKept
<1>1. CASE q = <<>>
  <2>1. UNCHANGED <<win32k_cb, owed, gui_current>>
    BY <1>1 DEF PushFrame
  <2> QED BY <1>1, <2>1, NoFrame
<1>2. CASE q # <<>>
  <2> DEFINE f == [running |-> Head(q), remaining |-> Tail(q), then |-> test, result |-> result]
             n == Len(win32k_cb)
             cb == win32k_cb'
  <2>1. cb = Append(win32k_cb, f) /\ owed' = [owed EXCEPT ![gui_current] = Append(@, result)]
    BY <1>2 DEF PushFrame
  <2>2. FrameShape(f) /\ f.then = test /\ f.result = result
    BY DEF FrameShape
  <2> HIDE DEF f
  <2>3. /\ IsSequence(cb) /\ Len(cb) = n + 1 /\ cb[n + 1] = f /\ cb # <<>>
        /\ \A i \in 1 .. n : cb[i] = win32k_cb[i]
    BY <2>1, AppendIds DEF FramesRight
  <2>4. n \in Nat /\ DOMAIN win32k_cb = 1 .. n /\ DOMAIN cb = 1 .. n + 1
    BY <2>3, SequenceShape DEF FramesRight
  <2> HIDE DEF n, cb
  <2>5. /\ \A i \in 1 .. n + 1 : i \in 1 .. n \/ i = n + 1
        /\ \A i \in 1 .. n : i \in 1 .. n + 1
        /\ n + 1 \in 1 .. n + 1
    BY <2>4
  <2>6. \A i \in DOMAIN cb : FrameShape(cb[i])
    BY <2>2, <2>3, <2>4, <2>5 DEF FramesRight
  <2>7. HitIds(win32k_cb) \subseteq HitIds(cb)
    BY <2>3, <2>4, <2>5 DEF HitIds
  <2>8. test # NoTest => test.ev.id \in HitIds(cb)
    BY <2>2, <2>3, <2>4, <2>5 DEF HitIds
  <2>9. ASSUME OwedRight
        PROVE  OwedRight' /\ Reaches
    <3> DEFINE os == owed[gui_current]
    <3>1. /\ IsSequence(os) /\ Len(os) = n /\ gui_current \in GuiThreads /\ DOMAIN owed = GuiThreads
          /\ \A i \in 1 .. n : os[i] = win32k_cb[i].result
      BY <2>4, <2>9 DEF OwedRight, n
    <3>2. /\ DOMAIN owed' = GuiThreads /\ owed'[gui_current] = Append(os, result)
          /\ \A t \in GuiThreads : t # gui_current => owed'[t] = owed[t]
      BY <2>1, <3>1
    <3> HIDE DEF os
    <3>3. /\ IsSequence(Append(os, result)) /\ Len(Append(os, result)) = n + 1
          /\ Append(os, result)[n + 1] = result /\ \A i \in 1 .. n : Append(os, result)[i] = os[i]
      BY <3>1, AppendIds
    <3>4. \A i \in 1 .. n + 1 : Append(os, result)[i] = cb[i].result
      BY <2>2, <2>3, <2>5, <3>1, <3>3
    <3>5. OwedRight'
      <4>1. IsSequence(owed[gui_current])' /\ Len(owed[gui_current])' = Len(win32k_cb)'
        BY <2>3, <3>2, <3>3 DEF cb
      <4>2. \A i \in DOMAIN win32k_cb' : owed'[gui_current'][i] = win32k_cb'[i].result
        BY <2>4, <3>2, <3>4 DEF cb
      <4> QED BY <2>9, <3>1, <3>2, <4>1, <4>2 DEF OwedRight
    <3>6. ASSUME NEW t \in GuiThreads
          PROVE  ~(Len(owed'[t]) < Len(owed[t]))
      <4>1. CASE t = gui_current
        <5>1. Len(owed'[t]) = n + 1 /\ Len(owed[t]) = n
          BY <3>1, <3>2, <3>3, <4>1 DEF os
        <5> QED BY <2>4, <5>1
      <4>2. CASE t # gui_current
        <5>1. Len(owed'[t]) = 0 /\ Len(owed[t]) = 0
          BY <2>9, <3>2, <4>2, EmptyIds DEF OwedRight
        <5> QED BY <5>1
      <4> QED BY <4>1, <4>2
    <3> QED BY <3>5, <3>6 DEF Reaches
  <2> QED BY <2>3, <2>6, <2>7, <2>8, <2>9 DEF FramesRight, CallsKept, cb
<1> QED BY <1>1, <1>2

LEMMA ReseatRight ==
  ASSUME FramesRight, win32k_cb # <<>>, UNCHANGED <<owed, gui_current>>,
         NEW f, FrameShape(f), f.result = Frame.result,
         Frame.then # NoTest => f.then # NoTest /\ f.then.ev = Frame.then.ev,
         win32k_cb' = Reseated(f)
  PROVE  FramesRight' /\ HitIds(win32k_cb) \subseteq HitIds(win32k_cb') /\ CallsKept
<1> DEFINE n == Len(win32k_cb)
           cb == win32k_cb'
<1>1. /\ n \in Nat \ {0} /\ Frame = win32k_cb[n] /\ DOMAIN win32k_cb = 1 .. n
  BY FrontShape DEF FramesRight, Frame
<1>2. cb = Replaced(win32k_cb, f)
  BY DEF Reseated, Replaced
<1>3. /\ IsSequence(cb) /\ DOMAIN cb = 1 .. n /\ Len(cb) = n /\ cb[n] = f
      /\ \A i \in 1 .. n - 1 : cb[i] = win32k_cb[i]
  BY <1>2, ReplacedShape DEF FramesRight
<1> HIDE DEF n, cb
<1>4. n \in 1 .. n /\ (\A i \in 1 .. n : i \in 1 .. n - 1 \/ i = n) /\ \A i \in 1 .. n - 1 : i \in 1 .. n
  BY <1>1
<1>5. \A i \in DOMAIN cb : FrameShape(cb[i])
  BY <1>1, <1>3, <1>4 DEF FramesRight
<1>6. HitIds(win32k_cb) \subseteq HitIds(cb)
  <2> SUFFICES ASSUME NEW i \in 1 .. n, win32k_cb[i].then # NoTest
               PROVE  cb[i].then # NoTest /\ cb[i].then.ev.id = win32k_cb[i].then.ev.id
    BY <1>1, <1>3 DEF HitIds
  <2>1. CASE i = n
    BY <1>1, <1>3, <2>1
  <2>2. CASE i \in 1 .. n - 1
    BY <1>3, <2>2
  <2> QED BY <1>4, <2>1, <2>2
<1>7. ASSUME OwedRight
      PROVE  OwedRight' /\ Reaches
  <2>1. \A i \in 1 .. n : cb[i].result = win32k_cb[i].result
    BY <1>1, <1>3, <1>4
  <2>2. /\ Len(owed'[gui_current']) = Len(cb)
        /\ \A i \in DOMAIN cb : owed'[gui_current'][i] = cb[i].result
    BY <1>1, <1>3, <1>7, <2>1 DEF OwedRight, n
  <2>3. OwedRight'
    BY <1>7, <2>2 DEF OwedRight, cb
  <2>4. \A t \in GuiThreads : IsSequence(owed[t])
    BY <1>7, EmptyIds DEF OwedRight
  <2>5. \A t \in GuiThreads : Len(owed[t]) \in Nat
    BY <2>4, SequenceShape
  <2>6. Reaches
    BY <2>5 DEF Reaches
  <2> QED BY <2>3, <2>6
<1> QED BY <1>3, <1>5, <1>6, <1>7 DEF FramesRight, CallsKept, cb

LEMMA PopRight ==
  ASSUME FramesRight, win32k_cb # <<>>, gui_current' = gui_current, PopFrame
  PROVE  /\ FramesRight' /\ CallsKept
         /\ HitIds(win32k_cb) \subseteq HitIds(win32k_cb')
                \union (IF Frame.then = NoTest THEN {} ELSE {Frame.then.ev.id})
<1> DEFINE n == Len(win32k_cb)
           cb == win32k_cb'
<1>1. /\ n \in Nat \ {0} /\ Frame = win32k_cb[n] /\ DOMAIN win32k_cb = 1 .. n
      /\ IsSequence(cb) /\ Len(cb) = n - 1 /\ DOMAIN cb = 1 .. n - 1
      /\ \A i \in 1 .. n - 1 : cb[i] = win32k_cb[i]
  BY FrontShape DEF FramesRight, Frame, PopFrame
<1>2. owed' = [owed EXCEPT ![gui_current] = Front(@)]
  BY DEF PopFrame
<1> HIDE DEF n, cb
<1>3. n \in 1 .. n /\ (\A i \in 1 .. n : i \in 1 .. n - 1 \/ i = n) /\ \A i \in 1 .. n - 1 : i \in 1 .. n
  BY <1>1
<1>4. \A i \in DOMAIN cb : FrameShape(cb[i])
  BY <1>1, <1>3 DEF FramesRight
<1>5. HitIds(win32k_cb) \subseteq HitIds(cb) \union (IF Frame.then = NoTest THEN {} ELSE {Frame.then.ev.id})
  <2> SUFFICES ASSUME NEW i \in 1 .. n, win32k_cb[i].then # NoTest
               PROVE  win32k_cb[i].then.ev.id \in
                        HitIds(cb) \union (IF Frame.then = NoTest THEN {} ELSE {Frame.then.ev.id})
    BY <1>1 DEF HitIds
  <2>1. CASE i = n
    BY <1>1, <2>1
  <2>2. CASE i \in 1 .. n - 1
    BY <1>1, <2>2 DEF HitIds
  <2> QED BY <1>3, <2>1, <2>2
<1>6. ASSUME OwedRight
      PROVE  OwedRight' /\ Reaches
  <2> DEFINE os == owed[gui_current]
  <2>1. /\ IsSequence(os) /\ Len(os) = n /\ gui_current \in GuiThreads /\ DOMAIN owed = GuiThreads
        /\ \A i \in 1 .. n : os[i] = win32k_cb[i].result
    BY <1>1, <1>6 DEF OwedRight, n
  <2>2. /\ DOMAIN owed' = GuiThreads /\ owed'[gui_current] = Front(os)
        /\ \A t \in GuiThreads : t # gui_current => owed'[t] = owed[t]
    BY <1>2, <2>1
  <2>3. os # <<>>
    BY <1>1, <2>1, EmptyIds
  <2> HIDE DEF os
  <2>4. /\ IsSequence(Front(os)) /\ Len(Front(os)) = n - 1 /\ Last(os) = os[n]
        /\ \A i \in 1 .. n - 1 : Front(os)[i] = os[i]
    BY <2>1, <2>3, FrontShape
  <2>5. OwedRight'
    <3>1. IsSequence(owed[gui_current])' /\ Len(owed[gui_current])' = Len(win32k_cb)'
      BY <1>1, <2>2, <2>4 DEF cb
    <3>2. \A i \in DOMAIN win32k_cb' : owed'[gui_current'][i] = win32k_cb'[i].result
      BY <1>1, <1>3, <2>1, <2>2, <2>4 DEF cb
    <3> QED BY <1>6, <2>1, <2>2, <3>1, <3>2 DEF OwedRight
  <2>6. ASSUME NEW t \in GuiThreads, Len(owed'[t]) < Len(owed[t])
        PROVE  Last(owed[t]) = Frame.result
    <3>1. CASE t = gui_current
      BY <1>1, <1>3, <2>1, <2>4, <3>1 DEF os
    <3>2. CASE t # gui_current
      <4>1. Len(owed'[t]) = 0 /\ Len(owed[t]) = 0
        BY <1>6, <2>2, <3>2, EmptyIds DEF OwedRight
      <4> QED BY <2>6, <4>1
    <3> QED BY <3>1, <3>2
  <2> QED BY <2>5, <2>6 DEF Reaches
<1> QED BY <1>1, <1>4, <1>5, <1>6 DEF FramesRight, CallsKept, cb
-----------------------------------------------------------------------------
(* The calls that leave every event where it is.                            *)
LEMMA QuietStep ==
  ASSUME WinInv, WindowsRight', UNCHANGED <<channel, raw_input, sent, msgs, gui_current, given, dropped>>,
         FramesRight', HitIds(win32k_cb) \subseteq HitIds(win32k_cb'), CallsKept
  PROVE  StepKeeps
<1>1. QueuesRight'
  BY DEF WinInv, QueuesRight
<1>2. Queued' = Queued
  BY DEF Queued
<1>3. Where \subseteq Where'
  BY <1>2 DEF Where
<1> QED BY <1>1, <1>3 DEF StepKeeps, WinInv, SentThere

LEMMA WindowsStay ==
  ASSUME WindowsRight, UNCHANGED <<windows, next_hwnd>>
  PROVE  WindowsRight'
  BY DEF WindowsRight

LEMMA CreateKeeps ==
  ASSUME WinInv, NEW p, NEW s \in Styles, nt_user_create_window_ex(p, s)
  PROVE  StepKeeps
<1> DEFINE q == IF s.proc THEN <<Call(next_hwnd, "WM_NCCREATE"), Call(next_hwnd, "WM_CREATE")>> ELSE NoCalls
           w == [parent |-> p, x |-> s.x, w |-> s.w, shown |-> s.shown,
                 needs_paint |-> s.shown, proc |-> s.proc,
                 dialog_info |-> s.dialog, dialog_cancelled |-> FALSE]
<1>1. /\ windows' = With(windows, next_hwnd, w) /\ next_hwnd' = next_hwnd + 1 /\ next_hwnd <= MaxWindow
      /\ PushFrame(q, NoTest, next_hwnd, next_hwnd)
      /\ UNCHANGED <<channel, raw_input, sent, msgs, gui_current, given, dropped>>
  BY DEF nt_user_create_window_ex, inputVars, queueVars
<1> HIDE DEF q
<1>2. FramesRight' /\ HitIds(win32k_cb) \subseteq HitIds(win32k_cb') /\ CallsKept
  BY <1>1, PushRight DEF WinInv
<1>3. WindowShape(w)
  <2>1. EveryProc => s.proc = TRUE
    BY DEF EveryProc
  <2> QED BY <2>1, RecordShape
<1> HIDE DEF w
<1>4. WindowsAre(With(windows, next_hwnd, w))
  <2>1. next_hwnd \in 1 .. MaxWindow
    BY <1>1, WindowsAssumption DEF WinInv, WindowsRight
  <2> QED BY <1>3, <2>1 DEF WinInv, WindowsRight, WindowsAre, With
<1>5. WindowsRight'
  BY <1>1, <1>4, WindowsAssumption DEF WinInv, WindowsRight
<1> QED BY <1>1, <1>2, <1>5, QuietStep

LEMMA ShowKeeps ==
  ASSUME WinInv, NEW h, NEW shown, nt_user_show_window(h, shown)
  PROVE  StepKeeps
<1> USE DEF nt_user_show_window, inputVars, queueVars
<1>1. WindowsRight'
  <2>1. CASE Has(windows, h)
    <3> DEFINE u == windows[h].needs_paint \/ shown
    <3>1. windows' = [windows EXCEPT ![h].shown = shown, ![h].needs_paint = u]
      BY <2>1
    <3> HIDE DEF u
    <3>2. WindowsAre([windows EXCEPT ![h].shown = shown, ![h].needs_paint = u])
      BY <2>1, FieldsChange DEF WinInv, WindowsRight, Has
    <3> QED BY <3>1, <3>2 DEF WinInv, WindowsRight
  <2>2. CASE ~Has(windows, h)
    BY <2>2 DEF WinInv, WindowsRight
  <2> QED BY <2>1, <2>2
<1>2. FramesRight' /\ HitIds(win32k_cb) \subseteq HitIds(win32k_cb') /\ CallsKept
  BY NoFrame DEF WinInv
<1> QED BY <1>1, <1>2, QuietStep

LEMMA DestroyKeeps ==
  ASSUME WinInv, NEW h, destroy_window(h)
  PROVE  StepKeeps
<1> USE DEF destroy_window, inputVars, queueVars
<1>1. WindowsRight'
  BY DEF WinInv, WindowsRight, WindowsAre, Without
<1>2. FramesRight' /\ HitIds(win32k_cb) \subseteq HitIds(win32k_cb') /\ CallsKept
  BY NoFrame DEF WinInv
<1> QED BY <1>1, <1>2, QuietStep

LEMMA MoveKeeps ==
  ASSUME WinInv, NEW h, NEW x, nt_user_set_window_pos(h, x)
  PROVE  StepKeeps
<1> USE DEF nt_user_set_window_pos, inputVars, queueVars
<1>1. WindowsRight'
  <2>1. WindowsAre([windows EXCEPT ![h].x = x])
    BY FieldsChange DEF WinInv, WindowsRight, Has
  <2> QED BY <2>1 DEF WinInv, WindowsRight
<1>2. FramesRight' /\ HitIds(win32k_cb) \subseteq HitIds(win32k_cb') /\ CallsKept
  BY NoFrame DEF WinInv
<1> QED BY <1>1, <1>2, QuietStep

\* The calls that change a seat or nothing, and may call procedures.
LEMMA SeatKeeps ==
  ASSUME WinInv, NEW h, set_capture(h) \/ nt_user_set_focus(h) \/ nt_user_set_active_window(h)
                        \/ dispatch_to_wndproc(h)
  PROVE  StepKeeps
<1> USE DEF inputVars, queueVars
<1>1. WindowsRight'
  BY WindowsStay DEF WinInv, set_capture, nt_user_set_focus, nt_user_set_active_window, dispatch_to_wndproc
<1>2. UNCHANGED <<channel, raw_input, sent, msgs, gui_current, given, dropped>>
  BY DEF set_capture, nt_user_set_focus, nt_user_set_active_window, dispatch_to_wndproc
<1>3. FramesRight' /\ HitIds(win32k_cb) \subseteq HitIds(win32k_cb') /\ CallsKept
  <2>1. CASE set_capture(h)
    <3> DEFINE q == CallsTo(<<Call(seats.capture, "WM_CAPTURECHANGED")>>)
    <3>1. PushFrame(q, NoTest, seats.capture, seats.capture)
      BY <2>1 DEF set_capture
    <3> HIDE DEF q
    <3> QED BY <1>2, <3>1, PushRight DEF WinInv
  <2>2. CASE nt_user_set_focus(h)
    <3> DEFINE q == CallsTo(<<Call(seats.focus, "WM_KILLFOCUS"), Call(h, "WM_SETFOCUS")>>)
    <3>1. PushFrame(q, NoTest, seats.focus, seats.focus)
      BY <2>2 DEF nt_user_set_focus
    <3> HIDE DEF q
    <3> QED BY <1>2, <3>1, PushRight DEF WinInv
  <2>3. CASE nt_user_set_active_window(h)
    BY <1>2, <2>3, NoFrame DEF WinInv, nt_user_set_active_window
  <2>4. CASE dispatch_to_wndproc(h)
    <3> DEFINE q == <<Call(h, "message")>>
    <3>1. PushFrame(q, NoTest, LResult, LResult)
      BY <2>4 DEF dispatch_to_wndproc
    <3> HIDE DEF q
    <3> QED BY <1>2, <3>1, PushRight DEF WinInv
  <2> QED BY <2>1, <2>2, <2>3, <2>4
<1> QED BY <1>1, <1>2, <1>3, QuietStep

LEMMA QuitKeeps ==
  ASSUME WinInv, nt_user_post_quit_message \/ nt_user_get_message \/ HostCloses
  PROVE  StepKeeps
<1> USE DEF nt_user_post_quit_message, nt_user_get_message, HostCloses, inputVars, queueVars
<1>1. WindowsRight'
  BY WindowsStay DEF WinInv
<1>2. FramesRight' /\ HitIds(win32k_cb) \subseteq HitIds(win32k_cb') /\ CallsKept
  BY NoFrame DEF WinInv
<1> QED BY <1>1, <1>2, QuietStep

LEMMA PostKeeps ==
  ASSUME WinInv, NEW h, nt_user_post_message(h)
  PROVE  StepKeeps
<1> USE DEF nt_user_post_message
<1> DEFINE m == Message(h, "posted", 0)
<1>1. WindowsRight'
  BY WindowsStay DEF WinInv
<1>2. FramesRight' /\ HitIds(win32k_cb) \subseteq HitIds(win32k_cb') /\ CallsKept
  BY NoFrame DEF WinInv
<1>3. UNCHANGED <<channel, raw_input, sent, gui_current, given, dropped>>
  BY DEF inputVars
<1>4. msgs' = [msgs EXCEPT ![gui_current] = Append(@, m)]
  OBVIOUS
<1> HIDE DEF m
<1>5. /\ DOMAIN msgs' = GuiThreads /\ msgs'[gui_current] = Append(msgs[gui_current], m)
      /\ \A t \in GuiThreads : t # gui_current => msgs'[t] = msgs[t]
  BY <1>4 DEF WinInv, QueuesRight
<1>6. /\ IsSequence(Append(msgs[gui_current], m))
      /\ Ids(msgs[gui_current]) \subseteq Ids(Append(msgs[gui_current], m))
  BY AppendIds DEF WinInv, QueuesRight
<1>7. QueuesRight'
  BY <1>3, <1>5, <1>6 DEF WinInv, QueuesRight
<1>8. \A t \in GuiThreads : Ids(msgs[t]) \subseteq Ids(msgs'[t])
  BY <1>5, <1>6
<1>9. MsgIds(msgs) \subseteq MsgIds(msgs')
  BY <1>8 DEF MsgIds
<1>10. Where \subseteq Where'
  BY <1>2, <1>3, <1>9 DEF Where, Queued
<1> QED BY <1>1, <1>2, <1>3, <1>7, <1>10 DEF StepKeeps, WinInv, SentThere

LEMMA SendKeeps ==
  ASSUME WinInv, NEW e, HostSends(e)
  PROVE  StepKeeps
<1> USE DEF HostSends
<1> DEFINE ev == [id |-> sent + 1, mouse |-> e.mouse, win |-> e.win, x |-> e.x]
<1>1. WindowsRight'
  BY WindowsStay DEF WinInv
<1>2. FramesRight' /\ HitIds(win32k_cb) \subseteq HitIds(win32k_cb') /\ CallsKept
  BY NoFrame DEF WinInv
<1>3. UNCHANGED <<raw_input, msgs, gui_current, given, dropped>> /\ sent' = sent + 1
  BY DEF queueVars
<1>4. channel' = Append(channel, ev) /\ ev.id = sent + 1
  OBVIOUS
<1> HIDE DEF ev
<1>5. IsSequence(channel') /\ Ids(channel') = Ids(channel) \union {sent + 1}
  BY <1>4, AppendIds DEF WinInv, QueuesRight
<1>6. QueuesRight'
  BY <1>3, <1>5 DEF WinInv, QueuesRight
<1>7. Where \subseteq Where' /\ sent' \in Where'
  BY <1>2, <1>3, <1>5 DEF Where, Queued
<1> QED BY <1>1, <1>2, <1>3, <1>6, <1>7 DEF StepKeeps, WinInv, SentThere

LEMMA SwitchKeeps ==
  ASSUME WinInv, GuiSwitch
  PROVE  StepKeeps
<1> USE DEF GuiSwitch
<1>1. WindowsRight'
  BY WindowsStay DEF WinInv
<1>2. FramesRight' /\ HitIds(win32k_cb') = HitIds(win32k_cb)
  BY DEF WinInv, FramesRight
<1>3. UNCHANGED <<raw_input, channel, sent, msgs, given, dropped>> /\ gui_current' \in GuiThreads
  BY DEF inputVars, queueVars
<1>4. QueuesRight'
  BY <1>3 DEF WinInv, QueuesRight
<1>5. Where' = Where
  BY <1>2, <1>3 DEF Where, Queued
<1>6. ASSUME ~SwitchesInCallbacks, OwedRight
      PROVE  OwedRight' /\ Reaches
  <2>1. win32k_cb = <<>> /\ Len(win32k_cb) = 0 /\ DOMAIN win32k_cb = {}
    BY <1>6, EmptyIds, SequenceShape
  <2>2. owed[gui_current] = <<>>
    BY <1>6, <2>1, SequenceShape DEF OwedRight
  <2>3. \A t \in GuiThreads : owed[t] = <<>>
    BY <1>6, <2>2 DEF OwedRight
  <2>4. OwedRight'
    BY <1>3, <1>6, <2>1, <2>3, EmptyIds DEF OwedRight
  <2>5. \A t \in GuiThreads : Len(owed'[t]) = 0 /\ Len(owed[t]) = 0
    BY <2>3, EmptyIds
  <2> QED BY <2>4, <2>5 DEF Reaches
<1> QED BY <1>1, <1>2, <1>3, <1>4, <1>5, <1>6 DEF StepKeeps, WinInv, SentThere, CallsKept
-----------------------------------------------------------------------------
(* The retrievals.                                                          *)
Loses(d, lost) == Ids(Prepared.raw) \union Ids(Prepared.msgs) \subseteq Ids(d.raw) \union Ids(d.msgs) \union lost

LEMMA RoutedRight ==
  ASSUME EveryProc, NEW d, Retrieval(d)
  PROVE  Routed(d).how \in {"post", "drop", "ask"}
<1> DEFINE ev == Head(d.raw)
           root == input_root(d.windows, ev.win)
           target == window_from_point_in(d.windows, root, ev.x, {})
           h == keyboard_target(d.windows, d.seats, ev.win)
<1>1. target \in DOMAIN d.windows \union {0}
  BY PointIsWindow DEF Retrieval
<1>2. target # 0 => d.windows[target].proc = TRUE
  BY <1>1 DEF Retrieval, WindowsAre, WindowShape
<1>3. Routed(d) =
        IF ~ev.mouse THEN [to |-> h, how |-> IF h = 0 THEN "drop" ELSE "post"]
        ELSE IF Has(d.windows, d.seats.capture) THEN [to |-> d.seats.capture, how |-> "post"]
        ELSE IF root = 0 \/ target = 0 THEN [to |-> 0, how |-> "drop"]
        ELSE [to |-> target, how |-> IF d.windows[target].proc THEN "ask" ELSE "write"]
  BY DEF Routed
<1> HIDE DEF ev, root, target, h
<1>4. CASE ~ev.mouse
  BY <1>3, <1>4
<1>5. CASE ev.mouse /\ Has(d.windows, d.seats.capture)
  BY <1>3, <1>5
<1>6. CASE ev.mouse /\ ~Has(d.windows, d.seats.capture) /\ (root = 0 \/ target = 0)
  BY <1>3, <1>6
<1>7. CASE ev.mouse /\ ~Has(d.windows, d.seats.capture) /\ ~(root = 0 \/ target = 0)
  <2>1. Routed(d) = [to |-> target, how |-> "ask"]
    BY <1>2, <1>3, <1>7
  <2> QED BY <2>1
<1> QED BY <1>4, <1>5, <1>6, <1>7

LEMMA AfterRight ==
  ASSUME NEW d, Retrieval(d), d.raw # <<>>, NEW r
  PROVE  /\ Retrieval(AfterRoute(d, r)) /\ AfterRoute(d, r).raw = Tail(d.raw)
         /\ Ids(d.raw) \subseteq {Head(d.raw).id} \union Ids(AfterRoute(d, r).raw)
         /\ Ids(d.msgs) \subseteq Ids(AfterRoute(d, r).msgs)
         /\ r.how = "post" => Head(d.raw).id \in Ids(AfterRoute(d, r).msgs)
<1> DEFINE m == Message(r.to, "input", Head(d.raw).id)
           ms == IF r.how = "post" THEN Append(d.msgs, m) ELSE d.msgs
           e == AfterRoute(d, r)
<1>1. e = [d EXCEPT !.raw = Tail(@), !.msgs = IF r.how = "post" THEN Append(@, m) ELSE @]
  BY DEF AfterRoute
<1>2. m.id = Head(d.raw).id
  BY DEF Message
<1> HIDE DEF m, e
<1>3. e = [windows |-> d.windows, seats |-> d.seats, quit |-> d.quit, raw |-> Tail(d.raw), msgs |-> ms]
  BY <1>1 DEF Retrieval
<1>4. /\ IsSequence(ms) /\ Ids(d.msgs) \subseteq Ids(ms)
      /\ r.how = "post" => Head(d.raw).id \in Ids(ms)
  <2>1. CASE r.how = "post"
    <3>1. IsSequence(Append(d.msgs, m)) /\ Ids(Append(d.msgs, m)) = Ids(d.msgs) \union {m.id}
      BY AppendIds DEF Retrieval
    <3> QED BY <1>2, <2>1, <3>1
  <2>2. CASE r.how # "post"
    BY <2>2 DEF Retrieval
  <2> QED BY <2>1, <2>2
<1>5. IsSequence(Tail(d.raw)) /\ Ids(d.raw) = {Head(d.raw).id} \union Ids(Tail(d.raw))
  BY TailIds DEF Retrieval
<1> HIDE DEF ms
<1>6. e.raw = Tail(d.raw) /\ e.msgs = ms
  BY <1>3
<1>7. Retrieval(e)
  BY <1>3, <1>4, <1>5, RetrievalShape DEF Retrieval
<1> QED BY <1>4, <1>5, <1>6, <1>7 DEF e

\* The queue with its first message taken, the retrieval that forgot a quit.
LEMMA TakenRight ==
  ASSUME NEW d, Retrieval(d)
  PROVE  /\ Retrieval([d EXCEPT !.quit = FALSE]) /\ [d EXCEPT !.quit = FALSE].windows = d.windows
         /\ [d EXCEPT !.quit = FALSE].raw = d.raw /\ [d EXCEPT !.quit = FALSE].msgs = d.msgs
         /\ d.msgs # <<>> =>
              /\ Retrieval([d EXCEPT !.msgs = Tail(@)]) /\ [d EXCEPT !.msgs = Tail(@)].raw = d.raw
              /\ Ids(d.msgs) = {Head(d.msgs).id} \union Ids([d EXCEPT !.msgs = Tail(@)].msgs)
<1>1. d = [windows |-> d.windows, seats |-> d.seats, quit |-> d.quit, raw |-> d.raw, msgs |-> d.msgs]
      /\ WindowsAre(d.windows) /\ IsSequence(d.raw) /\ IsSequence(d.msgs)
  BY DEF Retrieval
<1>2. /\ Retrieval([d EXCEPT !.quit = FALSE]) /\ [d EXCEPT !.quit = FALSE].windows = d.windows
      /\ [d EXCEPT !.quit = FALSE].raw = d.raw /\ [d EXCEPT !.quit = FALSE].msgs = d.msgs
  <2> DEFINE no == FALSE
             e == [d EXCEPT !.quit = no]
  <2> HIDE DEF no
  <2>1. e = [windows |-> d.windows, seats |-> d.seats, quit |-> no, raw |-> d.raw, msgs |-> d.msgs]
    BY <1>1
  <2> HIDE DEF e
  <2>2. Retrieval(e)
    BY <1>1, <2>1, RetrievalShape
  <2>3. e.windows = d.windows /\ e.raw = d.raw /\ e.msgs = d.msgs
    BY <2>1
  <2> QED BY <2>2, <2>3 DEF e, no
<1>3. ASSUME d.msgs # <<>>
      PROVE  /\ Retrieval([d EXCEPT !.msgs = Tail(@)]) /\ [d EXCEPT !.msgs = Tail(@)].raw = d.raw
             /\ Ids(d.msgs) = {Head(d.msgs).id} \union Ids([d EXCEPT !.msgs = Tail(@)].msgs)
  <2> DEFINE tail == Tail(d.msgs)
             e == [d EXCEPT !.msgs = Tail(@)]
  <2>0. e = [d EXCEPT !.msgs = tail]
    OBVIOUS
  <2> HIDE DEF tail, e
  <2>1. e = [windows |-> d.windows, seats |-> d.seats, quit |-> d.quit, raw |-> d.raw, msgs |-> tail]
    BY <1>1, <2>0
  <2> USE DEF tail
  <2>2. IsSequence(Tail(d.msgs)) /\ Ids(d.msgs) = {Head(d.msgs).id} \union Ids(Tail(d.msgs))
    BY <1>1, <1>3, TailIds
  <2> HIDE DEF e
  <2>3. Retrieval(e)
    BY <1>1, <2>1, <2>2, RetrievalShape
  <2>4. e.raw = d.raw /\ e.msgs = Tail(d.msgs)
    BY <2>1
  <2> QED BY <2>2, <2>3, <2>4 DEF e
<1> QED BY <1>2, <1>3

LEMMA SettleRight ==
  ASSUME WinInv, NEW d, Retrieval(d), Settle(d), NEW lost, Loses(d, lost)
  PROVE  /\ WindowsRight' /\ QueuesRight' /\ sent' = sent /\ gui_current' = gui_current
         /\ Queued \subseteq Queued' \union lost
<1>1. /\ windows' = d.windows /\ raw_input' = d.raw /\ channel' = <<>>
      /\ msgs' = [msgs EXCEPT ![gui_current] = d.msgs]
      /\ UNCHANGED <<next_hwnd, sent, gui_current>>
  BY DEF Settle
<1>2. WindowsRight'
  BY <1>1 DEF WinInv, WindowsRight, Retrieval
<1>3. /\ DOMAIN msgs' = GuiThreads /\ msgs'[gui_current] = d.msgs /\ gui_current \in GuiThreads
      /\ \A t \in GuiThreads : t # gui_current => msgs'[t] = msgs[t]
  BY <1>1 DEF WinInv, QueuesRight
<1>4. QueuesRight'
  BY <1>1, <1>3, EmptyIds DEF WinInv, QueuesRight, Retrieval
<1>5. /\ Ids(raw_input) \union Ids(channel) \union Ids(msgs[gui_current])
            \subseteq Ids(d.raw) \union Ids(d.msgs) \union lost
  BY PreparedRight DEF Loses
<1>6. Ids(d.raw) \union Ids(d.msgs) \subseteq Queued'
  BY <1>1, <1>3 DEF Queued, MsgIds
<1>7. \A t \in GuiThreads : Ids(msgs[t]) \subseteq Queued' \union lost
  <2> SUFFICES ASSUME NEW t \in GuiThreads
               PROVE  Ids(msgs[t]) \subseteq Queued' \union lost
    OBVIOUS
  <2>1. CASE t = gui_current
    BY <1>5, <1>6, <2>1
  <2>2. CASE t # gui_current
    <3>1. Ids(msgs[t]) = Ids(msgs'[t])
      BY <1>3, <2>2
    <3> QED BY <3>1 DEF Queued, MsgIds
  <2> QED BY <2>1, <2>2
<1>8. Queued \subseteq Queued' \union lost
  BY <1>5, <1>6, <1>7 DEF Queued, MsgIds
<1> QED BY <1>1, <1>2, <1>4, <1>8

LEMMA RetrievalKeeps ==
  ASSUME WinInv, NEW d, Retrieval(d), Settle(d), NEW lost, Loses(d, lost),
         FramesRight', CallsKept, HitIds(win32k_cb) \subseteq HitIds(win32k_cb'),
         given \subseteq given', dropped \subseteq dropped',
         EveryProc => lost \ {0} \subseteq given' \union dropped' \union HitIds(win32k_cb')
  PROVE  StepKeeps
<1>1. /\ WindowsRight' /\ QueuesRight' /\ sent' = sent
      /\ Queued \subseteq Queued' \union lost
  BY SettleRight
<1>2. EveryProc => Where \ {0} \subseteq Where'
  BY <1>1 DEF Where
<1> QED BY <1>1, <1>2 DEF StepKeeps, WinInv, SentThere

LEMMA GiveQueuedKeeps ==
  ASSUME WinInv, GiveQueued(Prepared)
  PROVE  StepKeeps
<1> DEFINE p == Prepared
           d == [p EXCEPT !.msgs = Tail(@)]
<1>1. /\ p.msgs # <<>> /\ Settle(d) /\ GivenBy(Head(p.msgs))
      /\ UNCHANGED <<dropped, win32k_cb, owed>>
  BY DEF GiveQueued
<1>2. Retrieval(p)
  BY PreparedRight
<1>3. Retrieval(d) /\ d.raw = p.raw /\ Ids(p.msgs) = {Head(p.msgs).id} \union Ids(d.msgs)
  BY <1>1, <1>2, TakenRight
<1> HIDE DEF d
<1>4. Loses(d, {Head(p.msgs).id})
  BY <1>3 DEF Loses
<1> HIDE DEF p
<1>5. given \subseteq given' /\ {Head(p.msgs).id} \ {0} \subseteq given'
  BY <1>1 DEF GivenBy
<1>6. gui_current' = gui_current
  BY <1>1 DEF Settle
<1>7. FramesRight' /\ HitIds(win32k_cb) \subseteq HitIds(win32k_cb') /\ CallsKept
  BY <1>1, <1>6, NoFrame DEF WinInv
<1> QED BY <1>1, <1>3, <1>4, <1>5, <1>7, RetrievalKeeps

LEMMA GiveQuitKeeps ==
  ASSUME WinInv, GiveQuit(Prepared)
  PROVE  /\ StepKeeps
         /\ \A h \in DOMAIN windows' : windows'[h].dialog_info => windows'[h].dialog_cancelled
<1> DEFINE p == Prepared
           d == [p EXCEPT !.quit = FALSE]
<1>1. /\ p.msgs = <<>> /\ p.raw = <<>> /\ p.quit /\ Settle(d)
      /\ UNCHANGED <<given, dropped, win32k_cb, owed>>
  BY DEF GiveQuit
<1>2. Retrieval(p) /\ AllAsked(p.windows)
  BY <1>1, PreparedRight
<1>3. Retrieval(d) /\ d.raw = p.raw /\ d.msgs = p.msgs /\ d.windows = p.windows
  BY <1>2, TakenRight
<1> HIDE DEF d
<1>4. Loses(d, {})
  BY <1>3 DEF Loses
<1> HIDE DEF p
<1>5. gui_current' = gui_current /\ windows' = p.windows
  BY <1>1, <1>3 DEF Settle
<1>6. FramesRight' /\ HitIds(win32k_cb) \subseteq HitIds(win32k_cb') /\ CallsKept
  BY <1>1, <1>5, NoFrame DEF WinInv
<1>7. StepKeeps
  BY <1>1, <1>3, <1>4, <1>6, RetrievalKeeps
<1> QED BY <1>2, <1>5, <1>7 DEF AllAsked

LEMMA HitTestKeeps ==
  ASSUME FramesRight, gui_current' = gui_current, NEW ev, NEW h, BeginHitTest(ev, h)
  PROVE  /\ FramesRight' /\ CallsKept
         /\ HitIds(win32k_cb) \subseteq HitIds(win32k_cb') /\ ev.id \in HitIds(win32k_cb')
<1> DEFINE test == [hwnd |-> h, ev |-> ev, skipped |-> <<>>]
           q == <<Call(h, "WM_NCHITTEST")>>
<1>1. PushFrame(q, test, 1, 1)
  BY DEF BeginHitTest
<1>2. TestShape(test) /\ test # NoTest /\ test.ev = ev /\ q # <<>>
  BY TestIsNoNoTest DEF TestShape
<1> HIDE DEF test, q
<1> QED BY <1>1, <1>2, PushRight

LEMMA RouteKeeps ==
  ASSUME WinInv, RouteNext(Prepared)
  PROVE  StepKeeps
<1> DEFINE p == Prepared
           r == Routed(p)
           d == AfterRoute(p, r)
           lost == IF r.how = "post" THEN {} ELSE {Head(p.raw).id}
<1>1. /\ p.msgs = <<>> /\ p.raw # <<>> /\ Settle(d) /\ DroppedBy(p, r) /\ given' = given
      /\ IF r.how = "ask" THEN BeginHitTest(Head(p.raw), r.to) ELSE UNCHANGED <<win32k_cb, owed>>
  BY DEF RouteNext
<1>2. Retrieval(p) /\ (EveryProc => r.how \in {"post", "drop", "ask"})
  BY PreparedRight, RoutedRight
<1> HIDE DEF r
<1>3. /\ Retrieval(d)
      /\ Ids(p.raw) \subseteq {Head(p.raw).id} \union Ids(d.raw)
      /\ Ids(p.msgs) \subseteq Ids(d.msgs)
      /\ r.how = "post" => Head(p.raw).id \in Ids(d.msgs)
  BY <1>1, <1>2, AfterRight
<1> HIDE DEF d
<1>4. Loses(d, lost)
  BY <1>3 DEF Loses
<1> HIDE DEF p
<1>5. gui_current' = gui_current
  BY <1>1 DEF Settle
<1>6. /\ FramesRight' /\ HitIds(win32k_cb) \subseteq HitIds(win32k_cb') /\ CallsKept
      /\ r.how = "ask" => Head(p.raw).id \in HitIds(win32k_cb')
  <2>1. CASE r.how = "ask"
    BY <1>1, <1>5, <2>1, HitTestKeeps DEF WinInv
  <2>2. CASE r.how # "ask"
    BY <1>1, <1>5, <2>2, NoFrame DEF WinInv
  <2> QED BY <2>1, <2>2
<1>7. dropped \subseteq dropped' /\ (r.how = "drop" => Head(p.raw).id \in dropped')
  BY <1>1 DEF DroppedBy
<1>8. EveryProc => lost \ {0} \subseteq given' \union dropped' \union HitIds(win32k_cb')
  BY <1>2, <1>6, <1>7
<1> HIDE DEF lost
<1> QED BY <1>1, <1>3, <1>4, <1>6, <1>7, <1>8, RetrievalKeeps

LEMMA PeekOnlyKeeps ==
  ASSUME WinInv, PeekOnly
  PROVE  StepKeeps
<1> DEFINE p == Prepared
<1>1. Settle(p) /\ UNCHANGED <<given, dropped, win32k_cb, owed>>
  BY DEF PeekOnly
<1>2. Retrieval(p) /\ Loses(p, {})
  BY PreparedRight DEF Loses
<1> HIDE DEF p
<1>3. gui_current' = gui_current
  BY <1>1 DEF Settle
<1>4. FramesRight' /\ HitIds(win32k_cb) \subseteq HitIds(win32k_cb') /\ CallsKept
  BY <1>1, <1>3, NoFrame DEF WinInv
<1> QED BY <1>1, <1>2, <1>4, RetrievalKeeps

LEMMA PeekRemoveKeeps ==
  ASSUME WinInv, PeekRemove
  PROVE  StepKeeps
<1> DEFINE p == Prepared
           r == Routed(p)
           e == AfterRoute(p, r)
           quiet == [e EXCEPT !.quit = FALSE]
           taken == [e EXCEPT !.msgs = Tail(@)]
           event == Head(p.raw).id
           gone == IF r.how = "post" THEN {} ELSE {event}
<1>1. \/ GiveQueued(p)
      \/ /\ p.msgs = <<>> /\ p.raw # <<>> /\ DroppedBy(p, r)
         /\ IF r.how = "ask"
            THEN Settle(e) /\ BeginHitTest(Head(p.raw), r.to) /\ UNCHANGED given
            ELSE /\ IF e.msgs = <<>> THEN Settle(quiet) /\ UNCHANGED given
                    ELSE Settle(taken) /\ GivenBy(Head(e.msgs))
                 /\ UNCHANGED <<win32k_cb, owed>>
      \/ GiveQuit(p)
  BY DEF PeekRemove
<1>2. CASE GiveQueued(p)
  BY <1>2, GiveQueuedKeeps
<1>3. CASE GiveQuit(p)
  BY <1>3, GiveQuitKeeps
<1>4. ASSUME p.msgs = <<>>, p.raw # <<>>, DroppedBy(p, r),
             IF r.how = "ask"
             THEN Settle(e) /\ BeginHitTest(Head(p.raw), r.to) /\ UNCHANGED given
             ELSE /\ IF e.msgs = <<>> THEN Settle(quiet) /\ UNCHANGED given
                     ELSE Settle(taken) /\ GivenBy(Head(e.msgs))
                  /\ UNCHANGED <<win32k_cb, owed>>
      PROVE  StepKeeps
  <2>1. Retrieval(p) /\ (EveryProc => r.how \in {"post", "drop", "ask"})
    BY PreparedRight, RoutedRight
  <2> HIDE DEF r
  <2>2. /\ Retrieval(e)
        /\ Ids(p.raw) \subseteq {event} \union Ids(e.raw)
        /\ Ids(p.msgs) \subseteq Ids(e.msgs)
        /\ r.how = "post" => event \in Ids(e.msgs)
    BY <1>4, <2>1, AfterRight
  <2> HIDE DEF e
  <2>3. Loses(e, gone)
    BY <2>2 DEF Loses
  <2>4. dropped \subseteq dropped' /\ (r.how = "drop" => event \in dropped')
    BY <1>4 DEF DroppedBy
  <2> HIDE DEF p
  <2>5. CASE r.how = "ask"
    <3>1. Settle(e) /\ BeginHitTest(Head(p.raw), r.to) /\ given' = given
      BY <1>4, <2>5
    <3>2. gui_current' = gui_current
      BY <3>1 DEF Settle
    <3>3. /\ FramesRight' /\ HitIds(win32k_cb) \subseteq HitIds(win32k_cb') /\ CallsKept
          /\ event \in HitIds(win32k_cb')
      BY <3>1, <3>2, HitTestKeeps DEF WinInv
    <3> HIDE DEF event
    <3>4. gone \ {0} \subseteq given' \union dropped' \union HitIds(win32k_cb')
      BY <3>3
    <3> HIDE DEF gone
    <3> QED BY <2>2, <2>3, <2>4, <3>1, <3>3, <3>4, RetrievalKeeps
  <2>6. CASE r.how # "ask" /\ e.msgs = <<>>
    <3>1. Settle(quiet) /\ UNCHANGED <<given, win32k_cb, owed>>
      BY <1>4, <2>6
    <3>2. Retrieval(quiet) /\ quiet.raw = e.raw /\ quiet.msgs = e.msgs
      BY <2>2, TakenRight
    <3> HIDE DEF quiet
    <3>3. Loses(quiet, gone)
      BY <2>3, <3>2 DEF Loses
    <3>4. gui_current' = gui_current
      BY <3>1 DEF Settle
    <3>5. FramesRight' /\ HitIds(win32k_cb) \subseteq HitIds(win32k_cb') /\ CallsKept
      BY <3>1, <3>4, NoFrame DEF WinInv
    <3> HIDE DEF event
    <3>6. EveryProc => gone \ {0} \subseteq given' \union dropped' \union HitIds(win32k_cb')
      BY <2>1, <2>4, <2>6
    <3> HIDE DEF gone
    <3> QED BY <2>4, <3>1, <3>2, <3>3, <3>5, <3>6, RetrievalKeeps
  <2>7. CASE r.how # "ask" /\ e.msgs # <<>>
    <3> DEFINE first == Head(e.msgs)
               lost == gone \union {first.id}
    <3>1. Settle(taken) /\ GivenBy(first) /\ UNCHANGED <<win32k_cb, owed>>
      BY <1>4, <2>7
    <3>2. Retrieval(taken) /\ taken.raw = e.raw /\ Ids(e.msgs) = {first.id} \union Ids(taken.msgs)
      BY <2>2, <2>7, TakenRight
    <3> HIDE DEF taken, first
    <3>3. Loses(taken, lost)
      BY <2>3, <3>2 DEF Loses
    <3>4. gui_current' = gui_current
      BY <3>1 DEF Settle
    <3>5. FramesRight' /\ HitIds(win32k_cb) \subseteq HitIds(win32k_cb') /\ CallsKept
      BY <3>1, <3>4, NoFrame DEF WinInv
    <3>6. given \subseteq given' /\ {first.id} \ {0} \subseteq given'
      BY <3>1 DEF GivenBy
    <3> HIDE DEF event
    <3>7. EveryProc => lost \ {0} \subseteq given' \union dropped' \union HitIds(win32k_cb')
      BY <2>1, <2>4, <2>7, <3>6
    <3> HIDE DEF gone, lost
    <3> QED BY <2>4, <3>2, <3>1, <3>3, <3>5, <3>6, <3>7, RetrievalKeeps
  <2> QED BY <2>5, <2>6, <2>7
<1> QED BY <1>1, <1>2, <1>3, <1>4
-----------------------------------------------------------------------------
(* A window procedure returns.                                              *)
LEMMA HitTestGoesOn ==
  ASSUME FramesRight, win32k_cb # <<>>, Frame.then # NoTest, NEW code
  PROVE  LET f == finish_hit_test(code) IN
         /\ FrameShape(f.frame) /\ f.frame.result = Frame.result
         /\ f.frame.then # NoTest /\ f.frame.then.ev = Frame.then.ev
         /\ ~f.asks => Frame.then.ev.id \in f.given \union f.dropped
<1> DEFINE p == [Frame.then EXCEPT !.skipped = Append(@, Frame.then.hwnd)]
           next == NextUnder(p)
           again == /\ code = "HTTRANSPARENT"
                    /\ next # 0 /\ next # Frame.then.hwnd
           asks == /\ again
                   /\ windows[next].proc
                   /\ Len(p.skipped) < HitRounds
           lands == code # "HTTRANSPARENT" \/ (again /\ ~asks)
           call == Call(next, "WM_NCHITTEST")
           test == [p EXCEPT !.hwnd = next]
           newFrame == [Frame EXCEPT !.running = call, !.then = test]
           G == IF lands THEN {p.ev.id} ELSE {}
           D == IF lands \/ asks THEN {} ELSE {p.ev.id}
           f == finish_hit_test(code)
           old == Frame.then
           oldFrame == Frame
           longer == Append(old.skipped, old.hwnd)
<1>1. f = [asks |-> asks, frame |-> newFrame, given |-> G, dropped |-> D]
  BY DEF finish_hit_test
<1>2. FrameShape(oldFrame)
  <2>1. Len(win32k_cb) \in DOMAIN win32k_cb /\ Frame = win32k_cb[Len(win32k_cb)]
    BY FrontShape DEF FramesRight, Frame
  <2> QED BY <2>1 DEF FramesRight
<1>3. old = [hwnd |-> old.hwnd, ev |-> old.ev, skipped |-> old.skipped]
  BY <1>2 DEF FrameShape, TestShape
<1>4. oldFrame = [running |-> oldFrame.running, remaining |-> oldFrame.remaining,
                  then |-> oldFrame.then, result |-> oldFrame.result]
  BY <1>2 DEF FrameShape
<1>5. p = [old EXCEPT !.skipped = longer]
  OBVIOUS
<1> HIDE DEF longer
<1>6. p = [hwnd |-> old.hwnd, ev |-> old.ev, skipped |-> longer]
  <2> HIDE DEF p, old
  <2> QED BY <1>3, <1>5
<1>7. test = [hwnd |-> next, ev |-> old.ev, skipped |-> longer]
  <2> HIDE DEF p, old, next
  <2> QED BY <1>6
<1>8. TestShape(test) /\ test # NoTest /\ test.ev = old.ev
  <2> HIDE DEF old, next
  <2>1. [hwnd |-> next, ev |-> old.ev, skipped |-> longer] # NoTest
    BY TestIsNoNoTest
  <2> HIDE DEF test
  <2> QED BY <1>7, <2>1 DEF TestShape
<1>9. p.ev = old.ev
  <2> HIDE DEF p, old
  <2> QED BY <1>6
<1>10. newFrame = [running |-> call, remaining |-> oldFrame.remaining, then |-> test, result |-> oldFrame.result]
  <2>1. newFrame = [oldFrame EXCEPT !.running = call, !.then = test]
    OBVIOUS
  <2> HIDE DEF newFrame, oldFrame, call, test
  <2> QED BY <1>4, <2>1
<1>11. FrameShape(newFrame) /\ newFrame.result = oldFrame.result /\ newFrame.then = test
  <2> HIDE DEF newFrame, oldFrame, call, test
  <2> QED BY <1>8, <1>10 DEF FrameShape
<1>12. ~asks => p.ev.id \in G \union D
  <2> HIDE DEF asks, again, lands, p
  <2>1. CASE lands
    BY <2>1
  <2>2. CASE ~lands
    BY <2>2
  <2> QED BY <2>1, <2>2
<1> HIDE DEF asks, newFrame, G, D, f, p, test
<1>13. (f.asks <=> asks) /\ f.frame = newFrame /\ f.given = G /\ f.dropped = D
  BY <1>1
<1> QED BY <1>8, <1>9, <1>11, <1>12, <1>13 DEF f

LEMMA CallbackKeeps ==
  ASSUME WinInv, CallbackReturn
  PROVE  StepKeeps
<1>1. /\ win32k_cb # <<>>
      /\ UNCHANGED <<windows, next_hwnd, raw_input, channel, sent, msgs, gui_current>>
  BY DEF CallbackReturn, queueVars
<1>2. WindowsRight' /\ QueuesRight' /\ Queued' = Queued
  BY <1>1 DEF WinInv, WindowsRight, QueuesRight, Queued
<1>3. FramesRight
  BY DEF WinInv
<1>4. CASE /\ Frame.remaining # <<>>
           /\ win32k_cb' = Reseated([Frame EXCEPT !.running = Head(Frame.remaining),
                                                  !.remaining = Tail(@)])
           /\ UNCHANGED <<owed, given, dropped>>
  <2> DEFINE oldFrame == Frame
             first == Head(oldFrame.remaining)
             rest == Tail(oldFrame.remaining)
             f == [oldFrame EXCEPT !.running = first, !.remaining = rest]
  <2>1. FrameShape(oldFrame)
    <3>1. Len(win32k_cb) \in DOMAIN win32k_cb /\ Frame = win32k_cb[Len(win32k_cb)]
      BY <1>1, <1>3, FrontShape DEF FramesRight, Frame
    <3> QED BY <1>3, <3>1 DEF FramesRight
  <2>2. win32k_cb' = Reseated(f)
    BY <1>4
  <2>3. oldFrame = Frame
    OBVIOUS
  <2> HIDE DEF oldFrame, first, rest
  <2>4. oldFrame = [running |-> oldFrame.running, remaining |-> oldFrame.remaining,
                    then |-> oldFrame.then, result |-> oldFrame.result]
    BY <2>1 DEF FrameShape
  <2>5. f = [running |-> first, remaining |-> rest, then |-> oldFrame.then, result |-> oldFrame.result]
    <3> DEFINE part == [oldFrame EXCEPT !.running = first]
    <3>1. part = [running |-> first, remaining |-> oldFrame.remaining,
                  then |-> oldFrame.then, result |-> oldFrame.result]
      BY <2>4
    <3>2. f = [part EXCEPT !.remaining = rest]
      OBVIOUS
    <3> HIDE DEF part, f
    <3> QED BY <3>1, <3>2
  <2> HIDE DEF f
  <2>6. f.then = oldFrame.then /\ f.result = oldFrame.result
    BY <2>5
  <2>7. FrameShape(f)
    BY <2>1, <2>5, <2>6 DEF FrameShape
  <2>8. FramesRight' /\ HitIds(win32k_cb) \subseteq HitIds(win32k_cb') /\ CallsKept
    BY <1>1, <1>3, <1>4, <2>2, <2>3, <2>6, <2>7, ReseatRight
  <2> QED BY <1>1, <1>2, <1>4, <2>8, QuietStep
<1>5. ASSUME NEW code \in Codes, Drain,
             IF finish_hit_test(code).asks
             THEN win32k_cb' = Reseated(finish_hit_test(code).frame) /\ UNCHANGED owed
             ELSE PopFrame,
             given' = given \union finish_hit_test(code).given,
             dropped' = dropped \union finish_hit_test(code).dropped
      PROVE  StepKeeps
  <2> DEFINE f == finish_hit_test(code)
             id == Frame.then.ev.id
  <2>1. Frame.then # NoTest
    BY <1>5 DEF Drain
  <2>2. /\ FrameShape(f.frame) /\ f.frame.result = Frame.result
        /\ f.frame.then # NoTest /\ f.frame.then.ev = Frame.then.ev
        /\ ~f.asks => id \in f.given \union f.dropped
    BY <1>1, <1>3, <2>1, HitTestGoesOn
  <2>3. /\ IF f.asks THEN win32k_cb' = Reseated(f.frame) /\ UNCHANGED owed ELSE PopFrame
        /\ given' = given \union f.given /\ dropped' = dropped \union f.dropped
    BY <1>5
  <2> HIDE DEF f
  <2>4. CASE f.asks
    <3>1. FramesRight' /\ HitIds(win32k_cb) \subseteq HitIds(win32k_cb') /\ CallsKept
      BY <1>1, <1>3, <2>2, <2>3, <2>4, ReseatRight
    <3>2. Where \subseteq Where'
      BY <1>2, <2>3, <3>1 DEF Where
    <3> QED BY <1>1, <1>2, <3>1, <3>2 DEF StepKeeps, WinInv, SentThere
  <2>5. CASE ~f.asks
    <3>1. FramesRight' /\ CallsKept /\ HitIds(win32k_cb) \subseteq HitIds(win32k_cb') \union {id}
      BY <1>1, <1>3, <2>1, <2>3, <2>5, PopRight
    <3> HIDE DEF id
    <3>2. Where \subseteq Where'
      BY <1>2, <2>2, <2>3, <2>5, <3>1 DEF Where
    <3> QED BY <1>1, <1>2, <3>1, <3>2 DEF StepKeeps, WinInv, SentThere
  <2> QED BY <2>4, <2>5
<1>6. CASE /\ Frame.remaining = <<>> /\ Frame.then = NoTest
           /\ PopFrame
           /\ UNCHANGED <<given, dropped>>
  <2>1. FramesRight' /\ CallsKept /\ HitIds(win32k_cb) \subseteq HitIds(win32k_cb')
    BY <1>1, <1>3, <1>6, PopRight
  <2> QED BY <1>1, <1>2, <1>6, <2>1, QuietStep
<1> QED BY <1>4, <1>5, <1>6 DEF CallbackReturn

-----------------------------------------------------------------------------
(* The whole of the window manager.                                         *)
LEMMA StillKeeps ==
  ASSUME WinInv, UNCHANGED winVars
  PROVE  StepKeeps
<1> USE DEF winVars
<1>1. WindowsRight'
  BY WindowsStay DEF WinInv
<1>2. FramesRight' /\ HitIds(win32k_cb) \subseteq HitIds(win32k_cb') /\ CallsKept
  BY NoFrame DEF WinInv
<1> QED BY <1>1, <1>2, QuietStep

LEMMA EveryStepKeeps ==
  ASSUME WinInv, [WinNext]_winVars
  PROVE  StepKeeps
<1>1. ASSUME NEW p \in {0} \union DOMAIN windows, NEW s \in Styles, nt_user_create_window_ex(p, s)
      PROVE  StepKeeps
  BY <1>1, CreateKeeps
<1>2. ASSUME NEW h \in Hwnds,
             \/ \E shown \in BOOLEAN : nt_user_show_window(h, shown)
             \/ destroy_window(h)
             \/ \E s \in Styles : nt_user_set_window_pos(h, s.x)
             \/ set_capture(h)
             \/ nt_user_set_focus(h)
             \/ nt_user_set_active_window(h)
             \/ dispatch_to_wndproc(h)
             \/ nt_user_post_message(h)
      PROVE  StepKeeps
  BY <1>2, ShowKeeps, DestroyKeeps, MoveKeeps, SeatKeeps, PostKeeps
<1>3. CASE set_capture(0)
  BY <1>3, SeatKeeps
<1>4. CASE nt_user_post_quit_message \/ nt_user_get_message \/ HostCloses
  BY <1>4, QuitKeeps
<1>5. CASE GetMessageTurn
  BY <1>5, GiveQueuedKeeps, RouteKeeps, GiveQuitKeeps DEF GetMessageTurn
<1>6. CASE PeekOnly \/ PeekRemove
  BY <1>6, PeekOnlyKeeps, PeekRemoveKeeps
<1>7. CASE CallbackReturn
  BY <1>7, CallbackKeeps
<1>8. ASSUME NEW e \in HostEvents, HostSends(e)
      PROVE  StepKeeps
  BY <1>8, SendKeeps
<1>9. CASE GuiSwitch
  BY <1>9, SwitchKeeps
<1>10. CASE UNCHANGED winVars
  BY <1>10, StillKeeps
<1> QED BY <1>1, <1>2, <1>3, <1>4, <1>5, <1>6, <1>7, <1>8, <1>9, <1>10 DEF WinNext

LEMMA WinStarts ==
  ASSUME WinInit
  PROVE  WinInv /\ AllThere /\ OwedRight
<1> USE DEF WinInit
<1>1. WindowsRight
  BY WindowsAssumption, EmptyIds DEF WindowsRight, WindowsAre
<1>2. gui_current \in GuiThreads
  BY WindowsAssumption
<1>3. QueuesRight /\ FramesRight
  BY <1>2, EmptyIds, SequenceShape DEF QueuesRight, FramesRight
<1>4. AllThere
  BY DEF AllThere
<1>5. OwedRight
  BY <1>2, EmptyIds, SequenceShape DEF OwedRight
<1> QED BY <1>1, <1>3, <1>4, <1>5 DEF WinInv

(* The invariant behind the next three: handles name windows of the desktop,  *)
(* every queue is one, and a frame carries a hit test or none (win32k.rs      *)
(* Win32kState, msg.rs, api.rs Win32kCbFrame).                               *)
THEOREM WindowsStayRight == WinSpec => []WinInv
<1>1. WinInit => WinInv
  BY WinStarts
<1>2. WinInv /\ [WinNext]_winVars => WinInv'
  BY EveryStepKeeps DEF StepKeeps
<1> QED BY <1>1, <1>2, PTL DEF WinSpec

(* ClicksLand, when every class has a procedure: a host event is never lost,  *)
(* it waits in a queue, a hit test asks about it, the guest has it, or no     *)
(* window was there for it (win32k.rs drain_input, route_raw_input and        *)
(* finish_hit_test, msg.rs).                                                  *)
THEOREM ClicksAreKept == EveryProc => (WinSpec => []ClicksLand)
<1> SUFFICES ASSUME EveryProc
             PROVE  WinSpec => []ClicksLand
  OBVIOUS
<1>1. WinInit => AllThere
  BY WinStarts
<1>2. WinInv /\ AllThere /\ [WinNext]_winVars => AllThere'
  <2> SUFFICES ASSUME WinInv, AllThere, [WinNext]_winVars
               PROVE  AllThere'
    OBVIOUS
  <2>1. (sent' = sent \/ (sent' = sent + 1 /\ sent' \in Where')) /\ Where \ {0} \subseteq Where' /\ sent \in Nat
    BY EveryStepKeeps DEF StepKeeps, SentThere, WinInv, QueuesRight
  <2> DEFINE there == Where'
  <2>2. 1 .. sent \subseteq there
    BY <2>1 DEF AllThere
  <2> HIDE DEF there
  <2>3. sent' = sent \/ (sent' = sent + 1 /\ sent' \in there)
    BY <2>1 DEF there
  <2>4. 1 .. sent' \subseteq there
    BY <2>1, <2>2, <2>3
  <2> QED BY <2>4 DEF AllThere, there
<1>3. AllThere => ClicksLand
  <2> SUFFICES ASSUME AllThere, NEW id \in 1 .. sent
               PROVE  OnTheWay(id) \/ id \in given \union dropped
    BY DEF ClicksLand
  <2>1. id \in Where
    BY DEF AllThere
  <2>2. CASE id \in Ids(channel) \union Ids(raw_input) \union MsgIds(msgs)
    BY <2>2 DEF OnTheWay, Ids, MsgIds
  <2>3. CASE id \in HitIds(win32k_cb)
    BY <2>3 DEF OnTheWay, HitIds
  <2> QED BY <2>1, <2>2, <2>3 DEF Where, Queued
<1> QED BY <1>1, <1>2, <1>3, WindowsStayRight, PTL DEF WinSpec

(* HandleReachesItsCaller, while no slice ends inside a window procedure: an  *)
(* interrupted call returns what it owes its thread (api.rs win32k_cb_advance *)
(* and call_wndprocs_from_syscall).                                           *)
THEOREM HandlesReachCallers == ~SwitchesInCallbacks => (WinSpec => HandleReachesItsCaller)
<1> SUFFICES ASSUME ~SwitchesInCallbacks
             PROVE  WinSpec => HandleReachesItsCaller
  OBVIOUS
<1>1. WinInit => OwedRight
  BY WinStarts
<1>2. WinInv /\ OwedRight /\ [WinNext]_winVars => OwedRight' /\ Reaches
  BY EveryStepKeeps DEF StepKeeps, CallsKept
<1>3. OwedRight /\ WinInv /\ [WinNext]_winVars
        => [\A t \in GuiThreads : Len(owed'[t]) < Len(owed[t]) => Last(owed[t]) = Frame.result]_winVars
  BY <1>2 DEF Reaches
<1> QED BY <1>1, <1>2, <1>3, WindowsStayRight, PTL DEF WinSpec, HandleReachesItsCaller

(* DialogsCloseFirst: GetMessage gives WM_QUIT only when every dialog still   *)
(* open has been asked to close (win32k.rs cancel_unattended_dialog).         *)
THEOREM DialogsAreAsked == WinSpec => DialogsCloseFirst
<1>1. WinInv /\ [WinNext]_winVars
        => [asking /\ GiveQuit(Prepared) =>
              \A h \in DOMAIN windows' : windows'[h].dialog_info => windows'[h].dialog_cancelled]_winVars
  BY GiveQuitKeeps
<1> QED BY <1>1, WindowsStayRight, PTL DEF WinSpec, DialogsCloseFirst

-----------------------------------------------------------------------------
(* The handle table.                                                        *)
(* SlotsConserved says which slots are where; to keep it a step must also know*)
(* that the free stack is a sequence of slots and the next slot a number.     *)
GdiTypes ==
    /\ gdi_next_slot \in FirstSlot..TableSlots
    /\ gdi_free_slots \in Seq(Slots)
    /\ slot_used \subseteq Slots
SlotInv == GdiTypes /\ SlotsConserved

slotVars == <<slot_used, gdi_free_slots, gdi_next_slot>>

(* The empty stack and the table with nothing in use. *)
LEMMA SlotInit == GdiInit => SlotInv
  BY GdiAssumption, SMT DEF GdiInit, SlotInv, GdiTypes, SlotsConserved, ToSet, Slots

(* A step that leaves the table alone. *)
LEMMA SlotStutter == SlotInv /\ UNCHANGED slotVars => SlotInv'
  BY DEF SlotInv, GdiTypes, SlotsConserved, slotVars, ToSet, Slots

(* Popping the free stack. *)
LEMMA PopKeeps ==
    ASSUME SlotInv, NEW ty, alloc_gdi_object(ty), gdi_free_slots # <<>>
    PROVE  SlotInv'
<1> DEFINE n == Len(gdi_free_slots)
<1>1. /\ n \in Nat /\ n >= 1
      /\ gdi_free_slots \in [1..n -> Slots]
  BY LenProperties, EmptySeq DEF SlotInv, GdiTypes
<1>2. /\ gdi_next_slot' = gdi_next_slot
      /\ slot_used' = slot_used \union {gdi_free_slots[n]}
      /\ gdi_free_slots' = SubSeq(gdi_free_slots, 1, n - 1)
  BY DEF alloc_gdi_object, Slot, Last, Front
<1>3. /\ gdi_free_slots' \in Seq(Slots) /\ gdi_free_slots' \in [1..n-1 -> Slots]
      /\ \A i \in 1..n-1 : gdi_free_slots'[i] = gdi_free_slots[i]
  <2>1. \A i \in 1..n-1 : gdi_free_slots[i] \in Slots
    BY <1>1
  <2>2. /\ gdi_free_slots' \in Seq(Slots)
        /\ Len(gdi_free_slots') = IF 1 <= n - 1 THEN n - 1 - 1 + 1 ELSE 0
        /\ \A i \in 1..n-1-1+1 : gdi_free_slots'[i] = gdi_free_slots[1 + i - 1]
    <3>1. 1 \in Int /\ n - 1 \in Int
      BY <1>1
    <3> HIDE DEF n
    <3> QED BY <2>1, <3>1, <1>2, SubSeqProperties
  <2>3. Len(gdi_free_slots') = n - 1 /\ 1..n-1-1+1 = 1..n-1 /\ \A i \in 1..n-1 : 1 + i - 1 = i
    <3>1. /\ \A i \in 1..n-1 : 1 + i - 1 = i
          /\ n - 1 - 1 + 1 = n - 1 /\ (1 <= n - 1 \/ n - 1 = 0)
      BY <1>1
    <3> QED BY <2>2, <3>1
  <2> QED BY <2>2, <2>3, LenProperties
<1>4. gdi_free_slots' \in Seq(Slots)
  BY <1>3
<1>5. DOMAIN gdi_free_slots = 1..n /\ DOMAIN gdi_free_slots' = 1..n-1
  BY <1>1, <1>3
<1>6. GdiTypes'
  <2>1. gdi_free_slots[n] \in Slots
    BY <1>1
  <2> QED BY <2>1, <1>2, <1>4 DEF SlotInv, GdiTypes
<1>7. ToSet(gdi_free_slots) = {gdi_free_slots[i] : i \in 1..n}
      /\ ToSet(gdi_free_slots)' = {gdi_free_slots[i] : i \in 1..n-1}
  BY <1>5, <1>3 DEF ToSet
<1>8. \A i, j \in 1..n : gdi_free_slots[i] = gdi_free_slots[j] => i = j
  BY <1>5 DEF SlotInv, SlotsConserved
<1>9. ToSet(gdi_free_slots)' = ToSet(gdi_free_slots) \ {gdi_free_slots[n]}
  BY <1>7, <1>8, <1>1, SMT
<1>10. gdi_free_slots[n] \in ToSet(gdi_free_slots)
  BY <1>7, <1>1
<1>11. \A i, j \in DOMAIN gdi_free_slots' : gdi_free_slots'[i] = gdi_free_slots'[j] => i = j
  BY <1>1, <1>3, <1>5, <1>8, SMT
<1>12. SlotsConserved'
  BY <1>2, <1>9, <1>10, <1>11 DEF SlotInv, SlotsConserved
<1> QED BY <1>6, <1>12 DEF SlotInv

(* Taking the next slot of the table. *)
LEMMA GrowKeeps ==
    ASSUME SlotInv, NEW ty, alloc_gdi_object(ty), gdi_free_slots = <<>>
    PROVE  SlotInv'
<1>1. /\ slot_used' = slot_used \union {gdi_next_slot}
      /\ gdi_free_slots' = <<>> /\ gdi_next_slot' = gdi_next_slot + 1
      /\ gdi_next_slot < TableSlots
  BY DEF alloc_gdi_object, Slot, Room
<1>2. gdi_next_slot \in Nat /\ FirstSlot \in Nat /\ TableSlots \in Nat /\ gdi_next_slot >= FirstSlot
  BY GdiAssumption DEF SlotInv, GdiTypes
<1>3. GdiTypes'
  BY <1>1, <1>2 DEF SlotInv, GdiTypes, Slots
<1>4. ToSet(gdi_free_slots) = {} /\ ToSet(gdi_free_slots)' = {} /\ DOMAIN gdi_free_slots' = {}
  BY <1>1 DEF ToSet
<1>5. slot_used' = FirstSlot .. gdi_next_slot' - 1
  BY <1>1, <1>2, <1>4 DEF SlotInv, SlotsConserved
<1> QED BY <1>3, <1>4, <1>5 DEF SlotInv, SlotsConserved

LEMMA AllocKeeps == ASSUME SlotInv, NEW ty, alloc_gdi_object(ty) PROVE SlotInv'
  BY PopKeeps, GrowKeeps

(* Freeing: only a slot in use is pushed, so it cannot be on the stack.       *)
LEMMA FreedKeeps ==
    ASSUME SlotInv, NEW s, Freed(s), UNCHANGED gdi_next_slot
    PROVE  SlotInv'
<1>1. CASE s \notin slot_used
  BY <1>1, SlotStutter DEF Freed, slotVars
<1>2. CASE s \in slot_used
  <2> DEFINE n == Len(gdi_free_slots)
  <2>1. /\ n \in Nat /\ s \in Slots
        /\ gdi_free_slots \in [1..n -> Slots]
    BY <1>2, LenProperties DEF SlotInv, GdiTypes
  <2>2. slot_used' = slot_used \ {s} /\ gdi_free_slots' = Append(gdi_free_slots, s)
    BY <1>2 DEF Freed, FreedAgain
  <2>3. /\ gdi_free_slots' \in Seq(Slots) /\ DOMAIN gdi_free_slots' = 1..n+1
        /\ gdi_free_slots'[n+1] = s
        /\ \A i \in 1..n : gdi_free_slots'[i] = gdi_free_slots[i]
    BY <2>1, <2>2, AppendProperties, SMT DEF SlotInv, GdiTypes
  <2>4. GdiTypes'
    BY <2>2, <2>3 DEF SlotInv, GdiTypes, Slots
  <2>5. ToSet(gdi_free_slots) = {gdi_free_slots[i] : i \in 1..n}
    BY <2>1 DEF ToSet
  <2>6. ToSet(gdi_free_slots)' = {gdi_free_slots'[i] : i \in 1..n+1}
    BY <2>3 DEF ToSet
  <2>7. ToSet(gdi_free_slots)' = ToSet(gdi_free_slots) \union {s}
    BY <2>1, <2>3, <2>5, <2>6, SMT
  <2>8. \A i \in 1..n : gdi_free_slots[i] # s
    BY <1>2, <2>5 DEF SlotInv, SlotsConserved
  <2>9. \A i, j \in 1..n : gdi_free_slots[i] = gdi_free_slots[j] => i = j
    BY <2>1 DEF SlotInv, SlotsConserved
  <2>10. \A i, j \in 1..n+1 : gdi_free_slots'[i] = gdi_free_slots'[j] => i = j
    BY <2>1, <2>3, <2>8, <2>9, SMT
  <2>11. SlotsConserved'
    BY <1>2, <2>2, <2>3, <2>7, <2>10 DEF SlotInv, SlotsConserved
  <2> QED BY <2>4, <2>11 DEF SlotInv
<1> QED BY <1>1, <1>2

(* Every action is an allocation, a freeing or neither. *)
LEMMA SlotStep == SlotInv /\ [GdiNext]_gdiVars => SlotInv'
<1> SUFFICES ASSUME SlotInv, [GdiNext]_gdiVars PROVE SlotInv'
  OBVIOUS
<1>1. ASSUME NEW w, alloc_dc(w) PROVE SlotInv'
  BY <1>1, AllocKeeps DEF alloc_dc
<1>2. ASSUME NEW c, alloc_brush(c) PROVE SlotInv'
  BY <1>2, AllocKeeps DEF alloc_brush
<1>3. ASSUME alloc_bitmap PROVE SlotInv'
  BY <1>3, AllocKeeps DEF alloc_bitmap
<1>4. ASSUME alloc_bitmap_unmapped PROVE SlotInv'
  BY <1>4, AllocKeeps DEF alloc_bitmap_unmapped
<1>5. ASSUME nt_gdi_hfont_create PROVE SlotInv'
  BY <1>5, AllocKeeps DEF nt_gdi_hfont_create
<1>6. ASSUME NEW ty, CreateBare(ty) PROVE SlotInv'
  BY <1>6, AllocKeeps DEF CreateBare
<1>7. ASSUME NEW i, sys_color_brush(i) PROVE SlotInv'
  BY <1>7, AllocKeeps DEF sys_color_brush
<1>8. ASSUME NEW h, NEW obj, SelectObject(h, obj) PROVE SlotInv'
  BY <1>8, SlotStutter DEF SelectObject, slotVars
<1>9. ASSUME NEW h, Delete(h) PROVE SlotInv'
  BY <1>9, FreedKeeps DEF Delete, free_gdi_object
<1>10. ASSUME UNCHANGED gdiVars PROVE SlotInv'
  BY <1>10, SlotStutter DEF gdiVars, slotVars
<1> QED
  BY <1>1, <1>2, <1>3, <1>4, <1>5, <1>6, <1>7, <1>8, <1>9, <1>10 DEF GdiNext

(* Every slot handed out is in use or on the free stack, once and never both, *)
(* whatever handles the guest deletes and however often (free_gdi_object of   *)
(* win32k.rs frees a slot only if its entry says it is in use).               *)
THEOREM SlotsAreConserved == GdiSpec => []SlotsConserved
<1>1. SlotInv => SlotsConserved
  BY DEF SlotInv
<1> QED BY SlotInit, SlotStep, <1>1, PTL DEF GdiSpec

-----------------------------------------------------------------------------
(* Painting, for every tree of windows and any number of contexts.  First     *)
(* what lies above a window, then the invariant, one lemma for each action.   *)

(* A least number that a set holds.                                         *)
LEMMA LeastExists ==
  ASSUME NEW S, S \subseteq Nat, S # {}
  PROVE  \E m \in S : \A k \in S : m <= k
<1> DEFINE R == {ss \in Nat \X Nat : ss[1] < ss[2]}
<1>1. PICK m \in S : \A k \in S : ~(<<k, m>> \in R)
  <2> HIDE DEF R
  <2>1. IsWellFoundedOn(R, Nat)
    BY NatLessThanWellFounded DEF R, OpToRel
  <2> QED BY <2>1, WFMin
<1>2. ASSUME NEW k \in S
      PROVE  m <= k
  <2>1. m \in Nat /\ k \in Nat /\ ~(k < m)
    BY <1>1
  <2> QED BY <2>1
<1> QED BY <1>2

(* What is defined along the parents of windows is defined: there is a       *)
(* function that follows a step from each number to a lesser one.            *)
Follows(f, N, stop, base, up, g) ==
    /\ DOMAIN f = 0 .. N
    /\ \A h \in 0 .. N : f[h] = IF stop[h] THEN base[h] ELSE g[<<h, f[up[h]]>>]

LEMMA FollowsExists ==
  ASSUME NEW N \in Nat, NEW T, NEW stop, NEW base, NEW up, NEW g,
         \A h \in 0 .. N : \/ stop[h] /\ base[h] \in T
                           \/ ~stop[h] /\ up[h] \in Nat /\ up[h] < h,
         \A h \in 0 .. N : stop[h] \/ \A v \in T : g[<<h, v>>] \in T
  PROVE  \E f \in [0 .. N -> T] : Follows(f, N, stop, base, up, g)
<1> DEFINE Right(n) == \E f \in [0 .. n -> T] : Follows(f, n, stop, base, up, g)
           Bad == {n \in 0 .. N : ~Right(n)}
<1>1. SUFFICES Bad = {}
  <2>1. N \in 0 .. N
    OBVIOUS
  <2>2. Right(N)
    BY <1>1, <2>1
  <2> QED BY <2>2
<1>2. SUFFICES ASSUME Bad # {}
               PROVE  FALSE
  OBVIOUS
<1>3. PICK n \in Bad : \A k \in Bad : n <= k
  <2>1. Bad \subseteq Nat
    OBVIOUS
  <2> HIDE DEF Bad
  <2> QED BY <1>2, <2>1, LeastExists
<1>4. n \in 0 .. N /\ ~Right(n)
  OBVIOUS
<1>5. ASSUME NEW k \in 0 .. N, k < n
      PROVE  Right(k)
  <2>1. k \notin Bad
    BY <1>3, <1>4, <1>5
  <2> QED BY <2>1
<1>6. \/ stop[n] /\ base[n] \in T
      \/ ~stop[n] /\ up[n] \in Nat /\ up[n] < n
  BY <1>4
<1>7. PICK f0 : /\ n > 0 => f0 \in [0 .. n - 1 -> T] /\ Follows(f0, n - 1, stop, base, up, g)
  <2>1. CASE n > 0
    <3>1. n - 1 \in 0 .. N /\ n - 1 < n
      BY <1>4, <2>1
    <3>2. Right(n - 1)
      BY <1>5, <3>1
    <3> QED BY <3>2
  <2>2. CASE ~(n > 0)
    BY <2>2
  <2> QED BY <2>1, <2>2
<1> DEFINE v == IF stop[n] THEN base[n] ELSE g[<<n, f0[up[n]]>>]
           f == [h \in 0 .. n |-> IF h = n THEN v ELSE f0[h]]
<1>8. v \in T
  <2>1. CASE stop[n]
    BY <1>6, <2>1
  <2>2. CASE ~stop[n]
    <3>1. up[n] \in 0 .. n - 1 /\ n > 0
      BY <1>4, <1>6, <2>2
    <3>2. f0[up[n]] \in T
      BY <1>7, <3>1
    <3> QED BY <1>4, <2>2, <3>2
  <2> QED BY <2>1, <2>2
<1>9. \A h \in 0 .. n : h # n => h \in 0 .. n - 1 /\ n > 0
  BY <1>4
<1>10. f \in [0 .. n -> T]
  <2> HIDE DEF v
  <2>1. \A h \in 0 .. n : h # n => f0[h] \in T
    BY <1>7, <1>9
  <2> QED BY <1>8, <2>1
<1>11. ASSUME NEW h \in 0 .. n
       PROVE  f[h] = IF stop[h] THEN base[h] ELSE g[<<h, f[up[h]]>>]
  <2>1. CASE stop[h]
    <3>1. CASE h = n
      BY <2>1, <3>1
    <3>2. CASE h # n
      <4>1. h \in 0 .. n - 1 /\ n > 0
        BY <1>9, <3>2
      <4>2. f0[h] = base[h]
        BY <1>7, <2>1, <4>1 DEF Follows
      <4> HIDE DEF v
      <4> QED BY <2>1, <3>2, <4>2
    <3> QED BY <3>1, <3>2
  <2>2. CASE ~stop[h]
    <3>1. h \in 0 .. N
      BY <1>4
    <3>2. up[h] \in Nat /\ up[h] < h
      BY <2>2, <3>1
    <3>3. up[h] \in 0 .. n /\ up[h] # n
      BY <1>4, <3>2
    <3>4. f[up[h]] = f0[up[h]]
      <4> HIDE DEF v
      <4> QED BY <3>3
    <3>5. CASE h = n
      <4>1. f[h] = v
        <5> HIDE DEF v
        <5> QED BY <3>5
      <4> HIDE DEF f
      <4> QED BY <2>2, <3>4, <3>5, <4>1
    <3>6. CASE h # n
      <4>1. h \in 0 .. n - 1 /\ n > 0
        BY <1>9, <3>6
      <4>2. f0[h] = g[<<h, f0[up[h]]>>]
        BY <1>7, <2>2, <4>1 DEF Follows
      <4>3. f[h] = f0[h]
        <5> HIDE DEF v
        <5> QED BY <3>6
      <4> HIDE DEF f
      <4> QED BY <2>2, <3>4, <4>2, <4>3
    <3> QED BY <3>5, <3>6
  <2> QED BY <2>1, <2>2
<1>12. Right(n)
  <2> HIDE DEF f
  <2>1. DOMAIN f = 0 .. n
    BY <1>10
  <2>2. Follows(f, n, stop, base, up, g)
    BY <1>11, <2>1 DEF Follows
  <2> QED BY <1>10, <2>2
<1> QED BY <1>4, <1>12

(* And only one: two of them agree as far as both go.                        *)
LEMMA FollowsAgree ==
  ASSUME NEW N \in Nat, NEW M \in Nat, NEW stop, NEW base, NEW up, NEW g, NEW f1, NEW f2,
         Follows(f1, N, stop, base, up, g), Follows(f2, M, stop, base, up, g),
         \A h \in 0 .. N : stop[h] \/ (up[h] \in Nat /\ up[h] < h)
  PROVE  \A h \in 0 .. N : h <= M => f1[h] = f2[h]
<1> DEFINE Bad == {h \in 0 .. N : h <= M /\ f1[h] # f2[h]}
<1>1. SUFFICES ASSUME Bad # {}
               PROVE  FALSE
  OBVIOUS
<1>2. PICK h \in Bad : \A k \in Bad : h <= k
  <2>1. Bad \subseteq Nat
    OBVIOUS
  <2> HIDE DEF Bad
  <2> QED BY <1>1, <2>1, LeastExists
<1>3. h \in 0 .. N /\ h \in 0 .. M /\ f1[h] # f2[h]
  OBVIOUS
<1>4. /\ f1[h] = IF stop[h] THEN base[h] ELSE g[<<h, f1[up[h]]>>]
      /\ f2[h] = IF stop[h] THEN base[h] ELSE g[<<h, f2[up[h]]>>]
  BY <1>3 DEF Follows
<1>5. ~stop[h]
  BY <1>3, <1>4
<1>6. up[h] \in Nat /\ up[h] < h
  BY <1>3, <1>5
<1>7. up[h] \notin Bad
  BY <1>2, <1>3, <1>6
<1>8. up[h] \in 0 .. N /\ up[h] <= M
  BY <1>3, <1>6
<1>9. f1[up[h]] = f2[up[h]]
  BY <1>7, <1>8
<1> QED BY <1>3, <1>4, <1>9

-----------------------------------------------------------------------------
(* What lies along the ancestors of a window, one level at a time.          *)
LEMMA TreeShape ==
  ASSUME NEW ws, Tree(ws)
  PROVE  /\ \A h \in DOMAIN ws : /\ h \in Panes /\ h \in Nat /\ h # 0 /\ ws[h].parent \in Nat
                                 /\ ws[h].parent < h /\ ws[h].x \in Int /\ ws[h].w \in Nat
         /\ \A h : ~Orphan(ws, h) => /\ h \in DOMAIN ws /\ ws[h].parent \in DOMAIN ws
                                     /\ ws[h].parent \in Nat /\ ws[h].parent < h
         /\ \A h \in DOMAIN ws : Orphan(ws, h) <=> ws[h].parent \notin DOMAIN ws
  BY PaintingAssumption DEF Tree, Window, Orphan, Has

LEMMA OwnerUp ==
  ASSUME NEW ws, Tree(ws), NEW n \in Nat
  PROVE  /\ surface_owner(ws, n) \in Nat
         /\ surface_owner(ws, n) = IF Orphan(ws, n) THEN n ELSE surface_owner(ws, ws[n].parent)
<1> DEFINE body(f, m) == [h \in 0 .. m |-> IF Orphan(ws, h) THEN h ELSE f[ws[h].parent]]
           walk(m) == CHOOSE f : f = body(f, m)
           stop == [h \in Nat |-> Orphan(ws, h)]
           base == [h \in Nat |-> h]
           up == [h \in Nat |-> ws[h].parent]
<1>0. /\ \A h \in Nat : stop[h] = Orphan(ws, h) /\ base[h] = h /\ up[h] = ws[h].parent
      /\ \A h \in Nat : stop[h] \/ (up[h] \in Nat /\ up[h] < h)
  BY TreeShape
<1> HIDE DEF stop, base, up
<1>1. ASSUME NEW m \in Nat
      PROVE  \E f \in [0 .. m -> Nat] : f = body(f, m)
  <2> DEFINE g == [x \in Nat \X Nat |-> x[2]]
  <2>1. \A h \in 0 .. m : \/ stop[h] /\ base[h] \in Nat
                          \/ ~stop[h] /\ up[h] \in Nat /\ up[h] < h
    BY <1>0
  <2>2. \A h \in Nat : \A v \in Nat : g[<<h, v>>] = v
    OBVIOUS
  <2> HIDE DEF g
  <2>0. ASSUME NEW h \in 0 .. m
        PROVE  stop[h] \/ \A v \in Nat : g[<<h, v>>] \in Nat
    <3>1. h \in Nat
      OBVIOUS
    <3> QED BY <2>2, <3>1
  <2>3. PICK f \in [0 .. m -> Nat] : Follows(f, m, stop, base, up, g)
    BY <2>0, <2>1, FollowsExists
  <2>4. ASSUME NEW h \in 0 .. m
        PROVE  f[h] = IF Orphan(ws, h) THEN h ELSE f[ws[h].parent]
    <3>1. f[h] = IF stop[h] THEN base[h] ELSE g[<<h, f[up[h]]>>]
      BY <2>3 DEF Follows
    <3>2. ~stop[h] => f[up[h]] \in Nat
      BY <1>0, <2>1
    <3>3. h \in Nat
      OBVIOUS
    <3> QED BY <1>0, <2>2, <3>1, <3>2, <3>3
  <2> QED BY <2>4
<1>2. ASSUME NEW m \in Nat, NEW k \in Nat, NEW e1, NEW e2, e1 = body(e1, m), e2 = body(e2, k)
      PROVE  \A h \in 0 .. m : h <= k => e1[h] = e2[h]
  <2> DEFINE T == {e1[h] : h \in 0 .. m} \cup {e2[h] : h \in 0 .. k}
             g == [x \in Nat \X T |-> x[2]]
  <2>1. \A h \in Nat : \A v \in T : g[<<h, v>>] = v
    OBVIOUS
  <2>2. \A h \in 0 .. m : ~stop[h] => e1[up[h]] \in T
    BY <1>0
  <2>3. \A h \in 0 .. k : ~stop[h] => e2[up[h]] \in T
    BY <1>0
  <2> HIDE DEF T, g
  <2>4. Follows(e1, m, stop, base, up, g)
    <3>1. ASSUME NEW h \in 0 .. m
          PROVE  e1[h] = IF stop[h] THEN base[h] ELSE g[<<h, e1[up[h]]>>]
      <4>1. e1[h] = IF Orphan(ws, h) THEN h ELSE e1[ws[h].parent]
        BY <1>2
      <4>2. h \in Nat
        OBVIOUS
      <4>3. CASE stop[h]
        BY <1>0, <4>1, <4>2, <4>3
      <4>4. CASE ~stop[h]
        <5>1. g[<<h, e1[up[h]]>>] = e1[up[h]]
          BY <2>1, <2>2, <4>2, <4>4
        <5> QED BY <1>0, <4>1, <4>2, <4>4, <5>1
      <4> QED BY <4>3, <4>4
    <3>2. DOMAIN e1 = 0 .. m
      BY <1>2
    <3> HIDE DEF body
    <3> QED BY <3>1, <3>2 DEF Follows
  <2>5. Follows(e2, k, stop, base, up, g)
    <3>1. ASSUME NEW h \in 0 .. k
          PROVE  e2[h] = IF stop[h] THEN base[h] ELSE g[<<h, e2[up[h]]>>]
      <4>1. e2[h] = IF Orphan(ws, h) THEN h ELSE e2[ws[h].parent]
        BY <1>2
      <4>2. h \in Nat
        OBVIOUS
      <4>3. CASE stop[h]
        BY <1>0, <4>1, <4>2, <4>3
      <4>4. CASE ~stop[h]
        <5>1. g[<<h, e2[up[h]]>>] = e2[up[h]]
          BY <2>1, <2>3, <4>2, <4>4
        <5> QED BY <1>0, <4>1, <4>2, <4>4, <5>1
      <4> QED BY <4>3, <4>4
    <3>2. DOMAIN e2 = 0 .. k
      BY <1>2
    <3> HIDE DEF body
    <3> QED BY <3>1, <3>2 DEF Follows
  <2>6. \A h \in 0 .. m : stop[h] \/ (up[h] \in Nat /\ up[h] < h)
    BY <1>0
  <2> QED BY <2>4, <2>5, <2>6, FollowsAgree
<1>3. ASSUME NEW m \in Nat
      PROVE  /\ walk(m) = body(walk(m), m) /\ walk(m) \in [0 .. m -> Nat]
             /\ walk(m)[m] \in Nat
             /\ surface_owner(ws, m) = walk(m)[m]
  <2>1. PICK f \in [0 .. m -> Nat] : f = body(f, m)
    BY <1>1
  <2>2. walk(m) = body(walk(m), m)
    BY <2>1
  <2>3. surface_owner(ws, m) = walk(m)[m]
    BY DEF surface_owner
  <2>6. DOMAIN walk(m) = 0 .. m /\ walk(m) = [h \in 0 .. m |-> walk(m)[h]]
    <3> HIDE DEF walk
    <3> QED BY <2>2
  <2> HIDE DEF walk, body
  <2>4. \A h \in 0 .. m : h <= m => walk(m)[h] = f[h]
    BY <1>2, <2>1, <2>2
  <2>5. walk(m) \in [0 .. m -> Nat] /\ walk(m)[m] \in Nat
    BY <2>4, <2>6
  <2> QED BY <2>2, <2>3, <2>5
<1> HIDE DEF walk
<1>4. walk(n)[n] = IF Orphan(ws, n) THEN n ELSE walk(n)[ws[n].parent]
  <2>1. walk(n) = body(walk(n), n)
    BY <1>3
  <2>2. n \in 0 .. n
    OBVIOUS
  <2> QED BY <2>1, <2>2
<1>5. CASE ~Orphan(ws, n)
  <2>1. ws[n].parent \in Nat /\ ws[n].parent \in 0 .. n
    BY <1>5, TreeShape
  <2>2. walk(n)[ws[n].parent] = walk(ws[n].parent)[ws[n].parent]
    <3> DEFINE p == ws[n].parent
    <3>1. walk(n) = body(walk(n), n) /\ walk(p) = body(walk(p), p)
      BY <1>3, <2>1
    <3> HIDE DEF body, p
    <3>2. p \in Nat /\ p \in 0 .. n
      BY <2>1 DEF p
    <3>3. \A h \in 0 .. n : h <= p => walk(n)[h] = walk(p)[h]
      BY <1>2, <3>1, <3>2
    <3> QED BY <3>2, <3>3 DEF p
  <2> QED BY <1>3, <1>4, <1>5, <2>1, <2>2
<1> QED BY <1>3, <1>4, <1>5

LEMMA OriginUp ==
  ASSUME NEW ws, Tree(ws), NEW n \in Nat
  PROVE  /\ client_origin(ws, n) \in Int
         /\ client_origin(ws, n) = IF Orphan(ws, n) THEN 0
                                   ELSE ws[n].x + client_origin(ws, ws[n].parent)
<1> DEFINE body(f, m) == [h \in 0 .. m |-> IF Orphan(ws, h) THEN 0 ELSE ws[h].x + f[ws[h].parent]]
           walk(m) == CHOOSE f : f = body(f, m)
           stop == [h \in Nat |-> Orphan(ws, h)]
           base == [h \in Nat |-> 0]
           up == [h \in Nat |-> ws[h].parent]
<1>0. /\ \A h \in Nat : stop[h] = Orphan(ws, h) /\ base[h] = 0 /\ up[h] = ws[h].parent
      /\ \A h \in Nat : stop[h] \/ (up[h] \in Nat /\ up[h] < h)
  BY TreeShape
<1> HIDE DEF stop, base, up
<1>1. ASSUME NEW m \in Nat
      PROVE  \E f \in [0 .. m -> Int] : f = body(f, m)
  <2> DEFINE g == [x \in Nat \X Int |-> ws[x[1]].x + x[2]]
  <2>1. \A h \in 0 .. m : \/ stop[h] /\ base[h] \in Int
                          \/ ~stop[h] /\ up[h] \in Nat /\ up[h] < h
    BY <1>0
  <2>2. \A h \in Nat : \A v \in Int : g[<<h, v>>] = ws[h].x + v
    OBVIOUS
  <2> HIDE DEF g
  <2>0. ASSUME NEW h \in 0 .. m
        PROVE  stop[h] \/ \A v \in Int : g[<<h, v>>] \in Int
    <3>1. h \in Nat
      OBVIOUS
    <3>2. stop[h] \/ ws[h].x \in Int
      BY <1>0, <3>1, TreeShape
    <3> QED BY <2>2, <3>1, <3>2
  <2>3. PICK f \in [0 .. m -> Int] : Follows(f, m, stop, base, up, g)
    BY <2>0, <2>1, FollowsExists
  <2>4. ASSUME NEW h \in 0 .. m
        PROVE  f[h] = IF Orphan(ws, h) THEN 0 ELSE ws[h].x + f[ws[h].parent]
    <3>1. f[h] = IF stop[h] THEN base[h] ELSE g[<<h, f[up[h]]>>]
      BY <2>3 DEF Follows
    <3>2. ~stop[h] => f[up[h]] \in Int
      BY <1>0, <2>1
    <3>3. h \in Nat
      OBVIOUS
    <3> QED BY <1>0, <2>2, <3>1, <3>2, <3>3
  <2> QED BY <2>4
<1>2. ASSUME NEW m \in Nat, NEW k \in Nat, NEW e1, NEW e2, e1 = body(e1, m), e2 = body(e2, k)
      PROVE  \A h \in 0 .. m : h <= k => e1[h] = e2[h]
  <2> DEFINE T == {e1[h] : h \in 0 .. m} \cup {e2[h] : h \in 0 .. k}
             g == [x \in Nat \X T |-> ws[x[1]].x + x[2]]
  <2>1. \A h \in Nat : \A v \in T : g[<<h, v>>] = ws[h].x + v
    OBVIOUS
  <2>2. \A h \in 0 .. m : ~stop[h] => e1[up[h]] \in T
    BY <1>0
  <2>3. \A h \in 0 .. k : ~stop[h] => e2[up[h]] \in T
    BY <1>0
  <2> HIDE DEF T, g
  <2>4. Follows(e1, m, stop, base, up, g)
    <3>1. ASSUME NEW h \in 0 .. m
          PROVE  e1[h] = IF stop[h] THEN base[h] ELSE g[<<h, e1[up[h]]>>]
      <4>1. e1[h] = IF Orphan(ws, h) THEN 0 ELSE ws[h].x + e1[ws[h].parent]
        BY <1>2
      <4>2. h \in Nat
        OBVIOUS
      <4>3. CASE stop[h]
        BY <1>0, <4>1, <4>2, <4>3
      <4>4. CASE ~stop[h]
        <5>1. g[<<h, e1[up[h]]>>] = ws[h].x + e1[up[h]]
          BY <2>1, <2>2, <4>2, <4>4
        <5> QED BY <1>0, <4>1, <4>2, <4>4, <5>1
      <4> QED BY <4>3, <4>4
    <3>2. DOMAIN e1 = 0 .. m
      BY <1>2
    <3> HIDE DEF body
    <3> QED BY <3>1, <3>2 DEF Follows
  <2>5. Follows(e2, k, stop, base, up, g)
    <3>1. ASSUME NEW h \in 0 .. k
          PROVE  e2[h] = IF stop[h] THEN base[h] ELSE g[<<h, e2[up[h]]>>]
      <4>1. e2[h] = IF Orphan(ws, h) THEN 0 ELSE ws[h].x + e2[ws[h].parent]
        BY <1>2
      <4>2. h \in Nat
        OBVIOUS
      <4>3. CASE stop[h]
        BY <1>0, <4>1, <4>2, <4>3
      <4>4. CASE ~stop[h]
        <5>1. g[<<h, e2[up[h]]>>] = ws[h].x + e2[up[h]]
          BY <2>1, <2>3, <4>2, <4>4
        <5> QED BY <1>0, <4>1, <4>2, <4>4, <5>1
      <4> QED BY <4>3, <4>4
    <3>2. DOMAIN e2 = 0 .. k
      BY <1>2
    <3> HIDE DEF body
    <3> QED BY <3>1, <3>2 DEF Follows
  <2>6. \A h \in 0 .. m : stop[h] \/ (up[h] \in Nat /\ up[h] < h)
    BY <1>0
  <2> QED BY <2>4, <2>5, <2>6, FollowsAgree
<1>3. ASSUME NEW m \in Nat
      PROVE  /\ walk(m) = body(walk(m), m) /\ walk(m) \in [0 .. m -> Int]
             /\ walk(m)[m] \in Int
             /\ client_origin(ws, m) = walk(m)[m]
  <2>1. PICK f \in [0 .. m -> Int] : f = body(f, m)
    BY <1>1
  <2>2. walk(m) = body(walk(m), m)
    BY <2>1
  <2>3. client_origin(ws, m) = walk(m)[m]
    BY DEF client_origin
  <2>6. DOMAIN walk(m) = 0 .. m /\ walk(m) = [h \in 0 .. m |-> walk(m)[h]]
    <3> HIDE DEF walk
    <3> QED BY <2>2
  <2> HIDE DEF walk, body
  <2>4. \A h \in 0 .. m : h <= m => walk(m)[h] = f[h]
    BY <1>2, <2>1, <2>2
  <2>5. walk(m) \in [0 .. m -> Int] /\ walk(m)[m] \in Int
    BY <2>4, <2>6
  <2> QED BY <2>2, <2>3, <2>5
<1> HIDE DEF walk
<1>4. walk(n)[n] = IF Orphan(ws, n) THEN 0 ELSE ws[n].x + walk(n)[ws[n].parent]
  <2>1. walk(n) = body(walk(n), n)
    BY <1>3
  <2>2. n \in 0 .. n
    OBVIOUS
  <2> QED BY <2>1, <2>2
<1>5. CASE ~Orphan(ws, n)
  <2>1. ws[n].parent \in Nat /\ ws[n].parent \in 0 .. n
    BY <1>5, TreeShape
  <2>2. walk(n)[ws[n].parent] = walk(ws[n].parent)[ws[n].parent]
    <3> DEFINE p == ws[n].parent
    <3>1. walk(n) = body(walk(n), n) /\ walk(p) = body(walk(p), p)
      BY <1>3, <2>1
    <3> HIDE DEF body, p
    <3>2. p \in Nat /\ p \in 0 .. n
      BY <2>1 DEF p
    <3>3. \A h \in 0 .. n : h <= p => walk(n)[h] = walk(p)[h]
      BY <1>2, <3>1, <3>2
    <3> QED BY <3>2, <3>3 DEF p
  <2> QED BY <1>3, <1>4, <1>5, <2>1, <2>2
<1> QED BY <1>3, <1>4, <1>5

LEMMA ChainUp ==
  ASSUME NEW ws, Tree(ws), NEW n \in Nat
  PROVE  /\ Chain(ws, n) \in SUBSET Nat
         /\ Chain(ws, n) = IF Orphan(ws, n) THEN {n} ELSE {n} \union Chain(ws, ws[n].parent)
<1> DEFINE body(f, m) == [h \in 0 .. m |-> IF Orphan(ws, h) THEN {h} ELSE {h} \union f[ws[h].parent]]
           walk(m) == CHOOSE f : f = body(f, m)
           stop == [h \in Nat |-> Orphan(ws, h)]
           base == [h \in Nat |-> {h}]
           up == [h \in Nat |-> ws[h].parent]
<1>0. /\ \A h \in Nat : stop[h] = Orphan(ws, h) /\ base[h] = {h} /\ up[h] = ws[h].parent
      /\ \A h \in Nat : stop[h] \/ (up[h] \in Nat /\ up[h] < h)
  BY TreeShape
<1> HIDE DEF stop, base, up
<1>1. ASSUME NEW m \in Nat
      PROVE  \E f \in [0 .. m -> SUBSET Nat] : f = body(f, m)
  <2> DEFINE g == [x \in Nat \X SUBSET Nat |-> {x[1]} \union x[2]]
  <2>1. \A h \in 0 .. m : \/ stop[h] /\ base[h] \in SUBSET Nat
                          \/ ~stop[h] /\ up[h] \in Nat /\ up[h] < h
    BY <1>0
  <2>2. \A h \in Nat : \A v \in SUBSET Nat : g[<<h, v>>] = {h} \union v
    OBVIOUS
  <2> HIDE DEF g
  <2>0. ASSUME NEW h \in 0 .. m
        PROVE  stop[h] \/ \A v \in SUBSET Nat : g[<<h, v>>] \in SUBSET Nat
    <3>1. h \in Nat /\ {h} \in SUBSET Nat
      OBVIOUS
    <3>2. ASSUME NEW v \in SUBSET Nat
          PROVE  g[<<h, v>>] \in SUBSET Nat
      <4>1. g[<<h, v>>] = {h} \union v
        BY <2>2, <3>1
      <4> QED BY <3>1, <4>1
    <3> QED BY <3>2
  <2>3. PICK f \in [0 .. m -> SUBSET Nat] : Follows(f, m, stop, base, up, g)
    BY <2>0, <2>1, FollowsExists
  <2>4. ASSUME NEW h \in 0 .. m
        PROVE  f[h] = IF Orphan(ws, h) THEN {h} ELSE {h} \union f[ws[h].parent]
    <3>1. f[h] = IF stop[h] THEN base[h] ELSE g[<<h, f[up[h]]>>]
      BY <2>3 DEF Follows
    <3>2. ~stop[h] => f[up[h]] \in SUBSET Nat
      BY <1>0, <2>1
    <3>3. h \in Nat
      OBVIOUS
    <3> QED BY <1>0, <2>2, <3>1, <3>2, <3>3
  <2> QED BY <2>4
<1>2. ASSUME NEW m \in Nat, NEW k \in Nat, NEW e1, NEW e2, e1 = body(e1, m), e2 = body(e2, k)
      PROVE  \A h \in 0 .. m : h <= k => e1[h] = e2[h]
  <2> DEFINE T == {e1[h] : h \in 0 .. m} \cup {e2[h] : h \in 0 .. k}
             g == [x \in Nat \X T |-> {x[1]} \union x[2]]
  <2>1. \A h \in Nat : \A v \in T : g[<<h, v>>] = {h} \union v
    OBVIOUS
  <2>2. \A h \in 0 .. m : ~stop[h] => e1[up[h]] \in T
    BY <1>0
  <2>3. \A h \in 0 .. k : ~stop[h] => e2[up[h]] \in T
    BY <1>0
  <2> HIDE DEF T, g
  <2>4. Follows(e1, m, stop, base, up, g)
    <3>1. ASSUME NEW h \in 0 .. m
          PROVE  e1[h] = IF stop[h] THEN base[h] ELSE g[<<h, e1[up[h]]>>]
      <4>1. e1[h] = IF Orphan(ws, h) THEN {h} ELSE {h} \union e1[ws[h].parent]
        BY <1>2
      <4>2. h \in Nat
        OBVIOUS
      <4>3. CASE stop[h]
        BY <1>0, <4>1, <4>2, <4>3
      <4>4. CASE ~stop[h]
        <5>1. g[<<h, e1[up[h]]>>] = {h} \union e1[up[h]]
          BY <2>1, <2>2, <4>2, <4>4
        <5> QED BY <1>0, <4>1, <4>2, <4>4, <5>1
      <4> QED BY <4>3, <4>4
    <3>2. DOMAIN e1 = 0 .. m
      BY <1>2
    <3> HIDE DEF body
    <3> QED BY <3>1, <3>2 DEF Follows
  <2>5. Follows(e2, k, stop, base, up, g)
    <3>1. ASSUME NEW h \in 0 .. k
          PROVE  e2[h] = IF stop[h] THEN base[h] ELSE g[<<h, e2[up[h]]>>]
      <4>1. e2[h] = IF Orphan(ws, h) THEN {h} ELSE {h} \union e2[ws[h].parent]
        BY <1>2
      <4>2. h \in Nat
        OBVIOUS
      <4>3. CASE stop[h]
        BY <1>0, <4>1, <4>2, <4>3
      <4>4. CASE ~stop[h]
        <5>1. g[<<h, e2[up[h]]>>] = {h} \union e2[up[h]]
          BY <2>1, <2>3, <4>2, <4>4
        <5> QED BY <1>0, <4>1, <4>2, <4>4, <5>1
      <4> QED BY <4>3, <4>4
    <3>2. DOMAIN e2 = 0 .. k
      BY <1>2
    <3> HIDE DEF body
    <3> QED BY <3>1, <3>2 DEF Follows
  <2>6. \A h \in 0 .. m : stop[h] \/ (up[h] \in Nat /\ up[h] < h)
    BY <1>0
  <2> QED BY <2>4, <2>5, <2>6, FollowsAgree
<1>3. ASSUME NEW m \in Nat
      PROVE  /\ walk(m) = body(walk(m), m) /\ walk(m) \in [0 .. m -> SUBSET Nat]
             /\ walk(m)[m] \in SUBSET Nat
             /\ Chain(ws, m) = walk(m)[m]
  <2>1. PICK f \in [0 .. m -> SUBSET Nat] : f = body(f, m)
    BY <1>1
  <2>2. walk(m) = body(walk(m), m)
    BY <2>1
  <2>3. Chain(ws, m) = walk(m)[m]
    BY DEF Chain
  <2>6. DOMAIN walk(m) = 0 .. m /\ walk(m) = [h \in 0 .. m |-> walk(m)[h]]
    <3> HIDE DEF walk
    <3> QED BY <2>2
  <2> HIDE DEF walk, body
  <2>4. \A h \in 0 .. m : h <= m => walk(m)[h] = f[h]
    BY <1>2, <2>1, <2>2
  <2>5. walk(m) \in [0 .. m -> SUBSET Nat] /\ walk(m)[m] \in SUBSET Nat
    BY <2>4, <2>6
  <2> QED BY <2>2, <2>3, <2>5
<1> HIDE DEF walk
<1>4. walk(n)[n] = IF Orphan(ws, n) THEN {n} ELSE {n} \union walk(n)[ws[n].parent]
  <2>1. walk(n) = body(walk(n), n)
    BY <1>3
  <2>2. n \in 0 .. n
    OBVIOUS
  <2> QED BY <2>1, <2>2
<1>5. CASE ~Orphan(ws, n)
  <2>1. ws[n].parent \in Nat /\ ws[n].parent \in 0 .. n
    BY <1>5, TreeShape
  <2>2. walk(n)[ws[n].parent] = walk(ws[n].parent)[ws[n].parent]
    <3> DEFINE p == ws[n].parent
    <3>1. walk(n) = body(walk(n), n) /\ walk(p) = body(walk(p), p)
      BY <1>3, <2>1
    <3> HIDE DEF body, p
    <3>2. p \in Nat /\ p \in 0 .. n
      BY <2>1 DEF p
    <3>3. \A h \in 0 .. n : h <= p => walk(n)[h] = walk(p)[h]
      BY <1>2, <3>1, <3>2
    <3> QED BY <3>2, <3>3 DEF p
  <2> QED BY <1>3, <1>4, <1>5, <2>1, <2>2
<1> QED BY <1>3, <1>4, <1>5

(* What an ancestor leaves of a rectangle.                                  *)
Cut(r, ws, p) == [lo |-> Higher(r.lo, client_origin(ws, p)),
                  hi |-> Lower(r.hi, client_origin(ws, p) + ws[p].w)]
Rectangle == [lo : Int, hi : Int]

LEMMA RectDown ==
  ASSUME NEW ws, Tree(ws), NEW hwnd \in DOMAIN ws, NEW own, own \in Rectangle,
         own = [lo |-> client_origin(ws, hwnd), hi |-> client_origin(ws, hwnd) + ws[hwnd].w]
  PROVE  \E cut \in [0 .. hwnd -> Rectangle] :
            /\ window_visible_rect(ws, hwnd) = cut[hwnd]
            /\ \A h \in 0 .. hwnd : cut[h] = IF Orphan(ws, h) THEN own ELSE Cut(cut[ws[h].parent], ws, ws[h].parent)
<1> DEFINE body(f, m) == [h \in 0 .. m |-> IF Orphan(ws, h) THEN own ELSE Cut(f[ws[h].parent], ws, ws[h].parent)]
           walk(m) == CHOOSE f : f = body(f, m)
           stop == [h \in Nat |-> Orphan(ws, h)]
           base == [h \in Nat |-> own]
           up == [h \in Nat |-> ws[h].parent]
<1>0. /\ \A h \in Nat : stop[h] = Orphan(ws, h) /\ base[h] = own /\ up[h] = ws[h].parent
      /\ \A h \in Nat : stop[h] \/ (up[h] \in Nat /\ up[h] < h)
  BY TreeShape
<1> HIDE DEF stop, base, up
<1>1. ASSUME NEW m \in Nat
      PROVE  \E f \in [0 .. m -> Rectangle] : f = body(f, m)
  <2> DEFINE g == [x \in Nat \X Rectangle |-> Cut(x[2], ws, ws[x[1]].parent)]
  <2>1. \A h \in 0 .. m : \/ stop[h] /\ base[h] \in Rectangle
                          \/ ~stop[h] /\ up[h] \in Nat /\ up[h] < h
    BY <1>0
  <2>2. \A h \in Nat : \A v \in Rectangle : g[<<h, v>>] = Cut(v, ws, ws[h].parent)
    OBVIOUS
  <2> HIDE DEF g
  <2>0. ASSUME NEW h \in 0 .. m
        PROVE  stop[h] \/ \A v \in Rectangle : g[<<h, v>>] \in Rectangle
    <3>1. h \in Nat
      OBVIOUS
    <3> SUFFICES ASSUME ~stop[h], NEW v \in Rectangle
                 PROVE  Cut(v, ws, ws[h].parent) \in Rectangle
      BY <2>2, <3>1
    <3>2. ws[h].parent \in DOMAIN ws /\ ws[h].parent \in Nat
      BY <1>0, <3>1, TreeShape
    <3>3. client_origin(ws, ws[h].parent) \in Int /\ ws[ws[h].parent].w \in Int
      BY <3>2, TreeShape, OriginUp
    <3>4. v.lo \in Int /\ v.hi \in Int
      BY DEF Rectangle
    <3> QED BY <3>3, <3>4 DEF Cut, Rectangle, Higher, Lower
  <2>3. PICK f \in [0 .. m -> Rectangle] : Follows(f, m, stop, base, up, g)
    BY <2>0, <2>1, FollowsExists
  <2>4. ASSUME NEW h \in 0 .. m
        PROVE  f[h] = IF Orphan(ws, h) THEN own ELSE Cut(f[ws[h].parent], ws, ws[h].parent)
    <3>1. f[h] = IF stop[h] THEN base[h] ELSE g[<<h, f[up[h]]>>]
      BY <2>3 DEF Follows
    <3>2. ~stop[h] => f[up[h]] \in Rectangle
      BY <1>0, <2>1
    <3>3. h \in Nat
      OBVIOUS
    <3> QED BY <1>0, <2>2, <3>1, <3>2, <3>3
  <2> QED BY <2>4
<1>2. ASSUME NEW m \in Nat, NEW k \in Nat, NEW e1, NEW e2, e1 = body(e1, m), e2 = body(e2, k)
      PROVE  \A h \in 0 .. m : h <= k => e1[h] = e2[h]
  <2> DEFINE T == {e1[h] : h \in 0 .. m} \cup {e2[h] : h \in 0 .. k}
             g == [x \in Nat \X T |-> Cut(x[2], ws, ws[x[1]].parent)]
  <2>1. \A h \in Nat : \A v \in T : g[<<h, v>>] = Cut(v, ws, ws[h].parent)
    OBVIOUS
  <2>2. \A h \in 0 .. m : ~stop[h] => e1[up[h]] \in T
    BY <1>0
  <2>3. \A h \in 0 .. k : ~stop[h] => e2[up[h]] \in T
    BY <1>0
  <2> HIDE DEF T, g
  <2>4. Follows(e1, m, stop, base, up, g)
    <3>1. ASSUME NEW h \in 0 .. m
          PROVE  e1[h] = IF stop[h] THEN base[h] ELSE g[<<h, e1[up[h]]>>]
      <4>1. e1[h] = IF Orphan(ws, h) THEN own ELSE Cut(e1[ws[h].parent], ws, ws[h].parent)
        BY <1>2
      <4>2. h \in Nat
        OBVIOUS
      <4>3. CASE stop[h]
        BY <1>0, <4>1, <4>2, <4>3
      <4>4. CASE ~stop[h]
        <5>1. g[<<h, e1[up[h]]>>] = Cut(e1[up[h]], ws, ws[h].parent)
          BY <2>1, <2>2, <4>2, <4>4
        <5> QED BY <1>0, <4>1, <4>2, <4>4, <5>1
      <4> QED BY <4>3, <4>4
    <3>2. DOMAIN e1 = 0 .. m
      BY <1>2
    <3> HIDE DEF body
    <3> QED BY <3>1, <3>2 DEF Follows
  <2>5. Follows(e2, k, stop, base, up, g)
    <3>1. ASSUME NEW h \in 0 .. k
          PROVE  e2[h] = IF stop[h] THEN base[h] ELSE g[<<h, e2[up[h]]>>]
      <4>1. e2[h] = IF Orphan(ws, h) THEN own ELSE Cut(e2[ws[h].parent], ws, ws[h].parent)
        BY <1>2
      <4>2. h \in Nat
        OBVIOUS
      <4>3. CASE stop[h]
        BY <1>0, <4>1, <4>2, <4>3
      <4>4. CASE ~stop[h]
        <5>1. g[<<h, e2[up[h]]>>] = Cut(e2[up[h]], ws, ws[h].parent)
          BY <2>1, <2>3, <4>2, <4>4
        <5> QED BY <1>0, <4>1, <4>2, <4>4, <5>1
      <4> QED BY <4>3, <4>4
    <3>2. DOMAIN e2 = 0 .. k
      BY <1>2
    <3> HIDE DEF body
    <3> QED BY <3>1, <3>2 DEF Follows
  <2>6. \A h \in 0 .. m : stop[h] \/ (up[h] \in Nat /\ up[h] < h)
    BY <1>0
  <2> QED BY <2>4, <2>5, <2>6, FollowsAgree
<1>3. ASSUME NEW m \in Nat
      PROVE  /\ walk(m) = body(walk(m), m) /\ walk(m) \in [0 .. m -> Rectangle]
             /\ walk(m)[m] \in Rectangle
             /\ m = hwnd => window_visible_rect(ws, hwnd) = walk(m)[m]
  <2>1. PICK f \in [0 .. m -> Rectangle] : f = body(f, m)
    BY <1>1
  <2>2. walk(m) = body(walk(m), m)
    BY <2>1
  <2>3. m = hwnd => window_visible_rect(ws, hwnd) = walk(m)[m]
    BY DEF window_visible_rect, Cut, Has
  <2>6. DOMAIN walk(m) = 0 .. m /\ walk(m) = [h \in 0 .. m |-> walk(m)[h]]
    <3> HIDE DEF walk
    <3> QED BY <2>2
  <2> HIDE DEF walk, body
  <2>4. \A h \in 0 .. m : h <= m => walk(m)[h] = f[h]
    BY <1>2, <2>1, <2>2
  <2>5. walk(m) \in [0 .. m -> Rectangle] /\ walk(m)[m] \in Rectangle
    BY <2>4, <2>6
  <2> QED BY <2>2, <2>3, <2>5
<1> HIDE DEF walk
<1>4. hwnd \in Nat
  BY TreeShape
<1> QED BY <1>3, <1>4

-----------------------------------------------------------------------------
(* The tree of windows: who owns a surface, and what a window may paint on.  *)

LEMMA OwnerLives ==
  ASSUME NEW ws, Tree(ws), NEW hwnd \in DOMAIN ws
  PROVE  surface_owner(ws, hwnd) \in DOMAIN ws /\ Orphan(ws, surface_owner(ws, hwnd))
<1> DEFINE Right(h) == surface_owner(ws, h) \in DOMAIN ws /\ Orphan(ws, surface_owner(ws, h))
           Bad == {h \in DOMAIN ws : ~Right(h)}
<1>1. SUFFICES ASSUME Bad # {}
               PROVE  FALSE
  OBVIOUS
<1>2. PICK h \in Bad : \A k \in Bad : h <= k
  <2>1. Bad \subseteq Nat
    BY TreeShape
  <2> HIDE DEF Bad
  <2> QED BY <1>1, <2>1, LeastExists
<1>3. h \in DOMAIN ws /\ h \in Nat
  BY TreeShape
<1>4. CASE Orphan(ws, h)
  <2>1. surface_owner(ws, h) = h
    BY <1>3, <1>4, OwnerUp
  <2> QED BY <1>3, <1>4, <2>1
<1>5. CASE ~Orphan(ws, h)
  <2>1. ws[h].parent \in DOMAIN ws /\ ws[h].parent \in Nat /\ ws[h].parent < h
    BY <1>5, TreeShape
  <2>2. surface_owner(ws, h) = surface_owner(ws, ws[h].parent)
    BY <1>3, <1>5, OwnerUp
  <2>3. ws[h].parent \notin Bad
    BY <1>2, <1>3, <2>1
  <2> QED BY <2>1, <2>2, <2>3
<1> QED BY <1>4, <1>5

(* A window that owned its surface before others went is the owner of those  *)
(* it owns now.                                                              *)
Remain(ws, now) ==
    DOMAIN now \subseteq DOMAIN ws /\ \A h \in DOMAIN now : now[h].parent = ws[h].parent /\ now[h].w = ws[h].w

LEMMA OwnersRemain ==
  ASSUME NEW ws, NEW now, Tree(ws), Tree(now), Remain(ws, now), NEW owner, Orphan(ws, owner),
         NEW hwnd \in DOMAIN now, surface_owner(now, hwnd) = owner
  PROVE  surface_owner(ws, hwnd) = owner
<1> DEFINE Right(h) == surface_owner(now, h) = owner => surface_owner(ws, h) = owner
           Bad == {h \in DOMAIN now : ~Right(h)}
<1>1. SUFFICES ASSUME Bad # {}
               PROVE  FALSE
  OBVIOUS
<1>2. PICK h \in Bad : \A k \in Bad : h <= k
  <2>1. Bad \subseteq Nat
    BY TreeShape
  <2> HIDE DEF Bad
  <2> QED BY <1>1, <2>1, LeastExists
<1>3. h \in DOMAIN now /\ h \in Nat /\ h \in DOMAIN ws
  BY TreeShape DEF Remain
<1>4. CASE Orphan(now, h)
  <2>1. surface_owner(now, h) = h
    BY <1>3, <1>4, OwnerUp
  <2>2. h = owner => surface_owner(ws, h) = h
    BY <1>3, OwnerUp
  <2> QED BY <2>1, <2>2
<1>5. CASE ~Orphan(now, h)
  <2>1. now[h].parent \in DOMAIN now /\ now[h].parent \in Nat /\ now[h].parent < h
    BY <1>5, TreeShape
  <2>2. ~Orphan(ws, h) /\ ws[h].parent = now[h].parent
    BY <1>3, <2>1 DEF Remain, Orphan, Has
  <2>3. surface_owner(now, h) = surface_owner(now, now[h].parent)
    BY <1>3, <1>5, OwnerUp
  <2>4. surface_owner(ws, h) = surface_owner(ws, now[h].parent)
    BY <1>3, <2>2, OwnerUp
  <2>5. now[h].parent \notin Bad
    BY <1>2, <1>3, <2>1
  <2> QED BY <2>1, <2>3, <2>4, <2>5
<1> QED BY <1>4, <1>5

(* The visible rectangle lies in every window on the way up.                 *)
LEMMA RectIsSeen ==
  ASSUME NEW ws, Tree(ws), NEW hwnd \in DOMAIN ws
  PROVE  /\ window_visible_rect(ws, hwnd) \in Rectangle
         /\ \A p \in 0 .. ws[surface_owner(ws, hwnd)].w - 1 :
               window_visible_rect(ws, hwnd).lo <= p /\ p < window_visible_rect(ws, hwnd).hi
                  => p \in Seen(ws, hwnd)
<1> DEFINE own == [lo |-> client_origin(ws, hwnd), hi |-> client_origin(ws, hwnd) + ws[hwnd].w]
           Inside(r, a) == client_origin(ws, a) <= r.lo /\ r.hi <= client_origin(ws, a) + ws[a].w
<1>1. hwnd \in Nat /\ ws[hwnd].w \in Int /\ client_origin(ws, hwnd) \in Int
  BY TreeShape, OriginUp
<1>2. own \in Rectangle /\ own.lo = client_origin(ws, hwnd) /\ own.hi = client_origin(ws, hwnd) + ws[hwnd].w
  BY <1>1 DEF Rectangle
<1>3. PICK cut \in [0 .. hwnd -> Rectangle] :
          /\ window_visible_rect(ws, hwnd) = cut[hwnd]
          /\ \A h \in 0 .. hwnd : cut[h] = IF Orphan(ws, h) THEN own ELSE Cut(cut[ws[h].parent], ws, ws[h].parent)
  <2> HIDE DEF own
  <2>1. own = [lo |-> client_origin(ws, hwnd), hi |-> client_origin(ws, hwnd) + ws[hwnd].w]
    BY DEF own
  <2> QED BY <1>2, <2>1, RectDown
<1> DEFINE Right(h) == /\ Inside(cut[h], hwnd)
                       /\ \A a \in Chain(ws, h) \ {h} : a \in DOMAIN ws /\ Inside(cut[h], a)
           Bad == {h \in DOMAIN ws : h <= hwnd /\ ~Right(h)}
<1>4. Bad = {}
  <2>1. SUFFICES ASSUME Bad # {}
                 PROVE  FALSE
    OBVIOUS
  <2>2. PICK h \in Bad : \A k \in Bad : h <= k
    <3>1. Bad \subseteq Nat
      BY TreeShape
    <3> HIDE DEF Bad
    <3> QED BY <2>1, <3>1, LeastExists
  <2>3. h \in DOMAIN ws /\ h \in Nat /\ h \in 0 .. hwnd /\ ~Right(h)
    BY <1>1, TreeShape
  <2>4. CASE Orphan(ws, h)
    <3>1. Chain(ws, h) = {h}
      BY <2>3, <2>4, ChainUp
    <3>2. cut[h] = own
      BY <1>3, <2>3, <2>4
    <3>3. Inside(own, hwnd)
      BY <1>1, <1>2
    <3> HIDE DEF own
    <3> QED BY <2>3, <3>1, <3>2, <3>3
  <2>5. CASE ~Orphan(ws, h)
    <3>1. PICK p : p = ws[h].parent
      OBVIOUS
    <3>2. /\ p \in DOMAIN ws /\ p \in Nat /\ p < h /\ p \in 0 .. hwnd /\ p <= hwnd
          /\ ws[p].w \in Int /\ client_origin(ws, p) \in Int
      BY <2>3, <2>5, <3>1, TreeShape, OriginUp
    <3>3. p \notin Bad
      BY <2>2, <2>3, <3>2
    <3>4. Right(p)
      BY <3>2, <3>3
    <3>5. cut[h] = Cut(cut[p], ws, p)
      BY <1>3, <2>3, <2>5, <3>1
    <3>6. Chain(ws, h) = {h} \union Chain(ws, p)
      BY <2>3, <2>5, <3>1, ChainUp
    <3>7. cut[p].lo \in Int /\ cut[p].hi \in Int
      BY <3>2 DEF Rectangle
    <3>8. /\ cut[h].lo \in Int /\ cut[h].hi \in Int
          /\ cut[p].lo <= cut[h].lo /\ cut[h].hi <= cut[p].hi
          /\ client_origin(ws, p) <= cut[h].lo /\ cut[h].hi <= client_origin(ws, p) + ws[p].w
      BY <3>2, <3>5, <3>7 DEF Cut, Higher, Lower
    <3>9. ASSUME NEW a \in DOMAIN ws, Inside(cut[p], a)
          PROVE  Inside(cut[h], a)
      <4>1. client_origin(ws, a) \in Int /\ ws[a].w \in Int
        BY TreeShape, OriginUp
      <4> QED BY <3>7, <3>8, <3>9, <4>1
    <3>10. ASSUME NEW a \in Chain(ws, h) \ {h}
           PROVE  a \in DOMAIN ws /\ Inside(cut[h], a)
      <4>1. CASE a = p
        BY <3>2, <3>8, <4>1
      <4>2. CASE a # p
        <5>1. a \in Chain(ws, p) \ {p}
          BY <3>6, <4>2
        <5>2. a \in DOMAIN ws /\ Inside(cut[p], a)
          BY <3>4, <5>1
        <5> QED BY <3>9, <5>2
      <4> QED BY <4>1, <4>2
    <3>11. Inside(cut[h], hwnd)
      BY <3>4, <3>9
    <3> QED BY <2>3, <3>10, <3>11
  <2> QED BY <2>4, <2>5
<1>5. Right(hwnd) /\ cut[hwnd] \in Rectangle
  <2>1. Right(hwnd)
    BY <1>1, <1>4
  <2>2. cut[hwnd] \in Rectangle
    BY <1>1, <1>3
  <2> QED BY <2>1, <2>2
<1>6. ASSUME NEW p \in 0 .. ws[surface_owner(ws, hwnd)].w - 1, cut[hwnd].lo <= p, p < cut[hwnd].hi
      PROVE  p \in Seen(ws, hwnd)
  <2>1. cut[hwnd].lo \in Int /\ cut[hwnd].hi \in Int /\ p \in Int
    BY <1>5 DEF Rectangle
  <2>2. ASSUME NEW a \in Chain(ws, hwnd)
        PROVE  contains_point(ws, a, p)
    <3>1. a \in DOMAIN ws /\ Inside(cut[hwnd], a)
      BY <1>5
    <3>2. client_origin(ws, a) \in Int /\ ws[a].w \in Int
      BY <3>1, TreeShape, OriginUp
    <3>3. p >= client_origin(ws, a) /\ p < client_origin(ws, a) + ws[a].w
      BY <1>6, <2>1, <3>1, <3>2
    <3> QED BY <3>1, <3>3 DEF contains_point, Has
  <2> QED BY <2>2 DEF Seen
<1> QED BY <1>3, <1>5, <1>6

LEMMA OldestLives ==
  ASSUME NEW S, S \subseteq Nat \ {0}, Oldest(S) # 0
  PROVE  Oldest(S) \in S
<1>1. S # {}
  BY DEF Oldest
<1>2. \E m \in S : \A k \in S : m <= k
  BY <1>1, LeastExists
<1> QED BY <1>1, <1>2 DEF Oldest

LEMMA Destroyed ==
  ASSUME NEW ws, Tree(ws), NEW h
  PROVE  Tree(Without(ws, h)) /\ Remain(ws, Without(ws, h)) /\ DOMAIN Without(ws, h) = DOMAIN ws \ {h}
  BY DEF Tree, Without, Remain

LEMMA Moved ==
  ASSUME NEW ws, Tree(ws), NEW h \in DOMAIN ws, NEW x \in Int
  PROVE  Tree([ws EXCEPT ![h].x = x]) /\ Remain(ws, [ws EXCEPT ![h].x = x])
<1> DEFINE now == [ws EXCEPT ![h].x = x]
<1>1. DOMAIN now = DOMAIN ws
  OBVIOUS
<1>2. ASSUME NEW k \in DOMAIN ws
      PROVE  now[k] \in Window /\ now[k].parent = ws[k].parent /\ now[k].w = ws[k].w
  <2>1. ws[k] \in Window
    BY DEF Tree
  <2>2. now[k] = IF k = h THEN [ws[h] EXCEPT !.x = x] ELSE ws[k]
    OBVIOUS
  <2> QED BY <2>1, <2>2 DEF Window
<1> HIDE DEF now
<1>3. Tree(now) /\ Remain(ws, now)
  BY <1>1, <1>2 DEF Tree, Remain
<1> QED BY <1>3 DEF now

-----------------------------------------------------------------------------
(* What holds between the windows, their surfaces and the contexts.  Only a  *)
(* window that lies in no other has a surface, as wide as it is; every pixel *)
(* was painted by a context that was made, or by an erased window; and what  *)
(* a context may reach on its window's surface is what it was made with.     *)
Made == 1 .. Len(ever)
Ever == [hwnd : Panes \union {0}, on : Panes \union {Bitmap}, may : SUBSET Int]
Context == [id : Nat \ {0}, hwnd : Panes \union {0}, org : Int, lo : Int, hi : Int,
            bitmap : BOOLEAN, painting : BOOLEAN]

SurfaceRight(on) ==
    IF on = Bitmap THEN DOMAIN canvas[on] = 0 .. BitmapWidth - 1
    ELSE canvas[on] # Blank => /\ on \in DOMAIN windows /\ Orphan(windows, on)
                               /\ DOMAIN canvas[on] = 0 .. windows[on].w - 1
SurfacesRight ==
    /\ DOMAIN canvas = Panes \union {Bitmap} /\ DOMAIN frame = Panes
    /\ \A on \in DOMAIN canvas : SurfaceRight(on)
    /\ \A on \in DOMAIN canvas : \A p \in DOMAIN canvas[on] :
          canvas[on][p] \in Int /\ (canvas[on][p] > 0 => canvas[on][p] \in Made)

ContextRight(c) ==
    /\ c \in Context /\ c.id \in Made
    /\ ever[c.id].hwnd = c.hwnd
    /\ c.hwnd # 0 /\ ever[c.id].on \in DOMAIN windows =>
          \A p \in 0 .. windows[ever[c.id].on].w - 1 :
              c.lo <= p /\ p < c.hi => p \in ever[c.id].may
    /\ c.hwnd = 0 => 0 .. BitmapWidth - 1 \subseteq ever[c.id].may

PaintInv ==
    /\ Tree(windows) /\ SurfacesRight
    /\ ever \in Seq(Ever)
    /\ \A c \in held_dcs : ContextRight(c)
    /\ PaintIsShown

LEMMA PaintTypes ==
  ASSUME PaintInv
  PROVE  /\ Panes \subseteq Nat \ {0} /\ Bitmap \notin Panes /\ Bitmap = 0
         /\ Len(ever) \in Nat /\ Made \subseteq Nat \ {0}
         /\ \A n \in Made : ever[n] \in Ever
         /\ DOMAIN windows \subseteq Panes
  BY PaintingAssumption, LenProperties DEF PaintInv, Tree, Bitmap, Made

(* What is left to show of a step that lets no context go that drew on a     *)
(* surface, and paints with contexts that are held.                          *)
LEMMA ShownStays ==
  ASSUME PaintInv, Tree(windows'), Remain(windows, windows'),
         \A on \in Panes : \A p \in DOMAIN canvas'[on] :
             LET n == canvas'[on][p] IN
             n > 0 /\ (\A c \in held_dcs' : c.id # n) =>
                 /\ p \in DOMAIN canvas[on] /\ canvas[on][p] = n /\ frame'[on] = frame[on]
                 /\ ever'[n].hwnd = ever[n].hwnd
                 /\ (\A c \in held_dcs : c.id # n) \/ ever[n].hwnd = 0
  PROVE  PaintIsShown'
<1> SUFFICES ASSUME NEW on \in Panes, NEW p \in DOMAIN canvas'[on], NEW n, n = canvas'[on][p],
                    n > 0, \A c \in held_dcs' : c.id # n,
                    ever'[n].hwnd \in DOMAIN windows', surface_owner(windows', ever'[n].hwnd) = on
             PROVE  frame'[on] # Blank /\ frame'[on][p] = n
  BY DEF PaintIsShown, LetGoOf, Has
<1>1. /\ p \in DOMAIN canvas[on] /\ canvas[on][p] = n /\ frame'[on] = frame[on]
      /\ ever'[n].hwnd = ever[n].hwnd
      /\ (\A c \in held_dcs : c.id # n) \/ ever[n].hwnd = 0
  OBVIOUS
<1>2. ever[n].hwnd \in DOMAIN windows /\ ever[n].hwnd # 0
  <2>1. ever[n].hwnd \in DOMAIN windows
    BY <1>1 DEF Remain
  <2> QED BY <2>1, PaintTypes
<1>3. on \in DOMAIN windows /\ Orphan(windows, on)
  <2>1. canvas[on] # Blank
    BY <1>1 DEF Blank
  <2>2. SurfaceRight(on) /\ on # Bitmap
    BY PaintTypes DEF PaintInv, SurfacesRight
  <2> QED BY <2>1, <2>2 DEF SurfaceRight
<1>4. surface_owner(windows, ever[n].hwnd) = on
  BY <1>1, <1>3, OwnersRemain DEF PaintInv
<1>5. frame[on] # Blank /\ frame[on][p] = n
  BY <1>1, <1>2, <1>4 DEF PaintInv, PaintIsShown, LetGoOf, Has
<1> QED BY <1>1, <1>5

(* A held context stays right while windows move and go.                     *)
LEMMA ContextStays ==
  ASSUME PaintInv, Remain(windows, windows'), ever' = ever, NEW c \in held_dcs
  PROVE  ContextRight(c)'
<1>1. ContextRight(c)
  BY DEF PaintInv
<1> QED BY <1>1 DEF ContextRight, Remain, Made

LEMMA SurfacesStay ==
  ASSUME PaintInv, UNCHANGED <<canvas, ever>>, DOMAIN frame' = Panes, UNCHANGED windows
  PROVE  SurfacesRight'
<1> QED BY DEF PaintInv, SurfacesRight, SurfaceRight, Made

LEMMA Unpainted ==
  ASSUME PaintInv, UNCHANGED <<winVars, canvas, frame, ever>>,
         \A c \in held_dcs' : c \in held_dcs \/ ContextRight(c)',
         \A c \in held_dcs : c.hwnd # 0 => \E k \in held_dcs' : k.id = c.id
  PROVE  PaintInv'
<1>1. windows' = windows /\ Tree(windows') /\ Remain(windows, windows')
  BY DEF winVars, PaintInv, Remain
<1>2. PaintIsShown'
  <2> SUFFICES ASSUME NEW on \in Panes, NEW p \in DOMAIN canvas'[on], NEW n, n = canvas'[on][p],
                      n > 0, \A c \in held_dcs' : c.id # n
               PROVE  (\A c \in held_dcs : c.id # n) \/ ever[n].hwnd = 0
    BY <1>1, ShownStays
  <2>1. ASSUME NEW c \in held_dcs, c.id = n
        PROVE  ever[n].hwnd = 0
    <3>1. c.hwnd = 0
      BY <2>1
    <3> QED BY <2>1, <3>1 DEF PaintInv, ContextRight
  <2> QED BY <2>1
<1>3. SurfacesRight'
  BY <1>1, SurfacesStay DEF PaintInv, SurfacesRight
<1>4. \A c \in held_dcs' : ContextRight(c)'
  BY <1>1, ContextStays
<1> QED BY <1>1, <1>2, <1>3, <1>4 DEF PaintInv

(* A new context, and the surface it may have been the first to need.        *)
LEMMA ContextMade ==
  ASSUME PaintInv, UNCHANGED <<windows, frame>>, NEW e \in Ever, NEW c \in Context,
         ever' = Append(ever, e), held_dcs' = held_dcs \union {c},
         c.id = Len(ever) + 1, c.hwnd = e.hwnd,
         c.hwnd # 0 => \A p \in 0 .. windows[e.on].w - 1 : c.lo <= p /\ p < c.hi => p \in e.may,
         c.hwnd = 0 => 0 .. BitmapWidth - 1 \subseteq e.may,
         DOMAIN canvas' = DOMAIN canvas,
         \A on \in DOMAIN canvas :
             \/ canvas'[on] = canvas[on]
             \/ /\ on # Bitmap /\ on \in DOMAIN windows /\ Orphan(windows, on)
                /\ DOMAIN canvas'[on] = 0 .. windows[on].w - 1
                /\ \A p \in DOMAIN canvas'[on] : canvas'[on][p] = 0
  PROVE  PaintInv'
<1>1. /\ ever' \in Seq(Ever) /\ Len(ever') = Len(ever) + 1 /\ Len(ever) \in Nat
      /\ \A n \in Made : ever'[n] = ever[n] /\ n \in Made'
      /\ ever'[Len(ever) + 1] = e /\ Len(ever) + 1 \in Made'
  <2>1. ever \in Seq(Ever) /\ Len(ever) \in Nat
    BY PaintTypes DEF PaintInv
  <2>2. /\ ever' \in Seq(Ever) /\ Len(ever') = Len(ever) + 1
        /\ \A n \in 1 .. Len(ever) : ever'[n] = ever[n]
        /\ ever'[Len(ever) + 1] = e
    BY <2>1, AppendProperties
  <2> QED BY <2>1, <2>2 DEF Made
<1>2. SurfacesRight'
  <2>1. ASSUME NEW on \in DOMAIN canvas
        PROVE  SurfaceRight(on)'
    <3>1. CASE canvas'[on] = canvas[on]
      BY <3>1 DEF PaintInv, SurfacesRight, SurfaceRight
    <3>2. CASE canvas'[on] # canvas[on]
      BY <3>2 DEF SurfaceRight
    <3> QED BY <3>1, <3>2
  <2>2. ASSUME NEW on \in DOMAIN canvas, NEW p \in DOMAIN canvas'[on]
        PROVE  canvas'[on][p] \in Int /\ (canvas'[on][p] > 0 => canvas'[on][p] \in Made')
    <3>1. CASE canvas'[on] = canvas[on]
      BY <1>1, <3>1 DEF PaintInv, SurfacesRight
    <3>2. CASE canvas'[on] # canvas[on]
      BY <3>2
    <3> QED BY <3>1, <3>2
  <2> QED BY <2>1, <2>2 DEF PaintInv, SurfacesRight
<1>3. PaintIsShown'
  <2>1. Tree(windows') /\ Remain(windows, windows')
    BY DEF PaintInv, Remain
  <2>0. held_dcs \subseteq held_dcs'
    OBVIOUS
  <2>2. ASSUME NEW on \in Panes, NEW p \in DOMAIN canvas'[on], canvas'[on][p] > 0
        PROVE  /\ p \in DOMAIN canvas[on] /\ canvas[on][p] = canvas'[on][p]
               /\ ever'[canvas'[on][p]] = ever[canvas'[on][p]]
    <3>1. on \in DOMAIN canvas
      BY DEF PaintInv, SurfacesRight
    <3>2. canvas'[on] = canvas[on]
      BY <2>2, <3>1
    <3>3. canvas'[on][p] \in Made
      BY <2>2, <3>1, <3>2 DEF PaintInv, SurfacesRight
    <3> QED BY <1>1, <3>2, <3>3
  <2>3. ASSUME NEW on \in Panes, NEW p \in DOMAIN canvas'[on], canvas'[on][p] > 0,
               \A k \in held_dcs' : k.id # canvas'[on][p]
        PROVE  /\ p \in DOMAIN canvas[on] /\ canvas[on][p] = canvas'[on][p] /\ frame'[on] = frame[on]
               /\ ever'[canvas'[on][p]].hwnd = ever[canvas'[on][p]].hwnd
               /\ \A k \in held_dcs : k.id # canvas'[on][p]
    BY <2>0, <2>2, <2>3
  <2> QED BY <2>1, <2>3, ShownStays
<1>4. ASSUME NEW k \in held_dcs'
      PROVE  ContextRight(k)'
  <2>1. CASE k \in held_dcs
    <3>1. ContextRight(k)
      BY <2>1 DEF PaintInv
    <3>2. ever'[k.id] = ever[k.id] /\ k.id \in Made'
      BY <1>1, <3>1 DEF ContextRight
    <3> QED BY <3>1, <3>2 DEF ContextRight
  <2>2. CASE k = c
    BY <1>1, <2>2 DEF ContextRight
  <2> QED BY <2>1, <2>2
<1> QED BY <1>1, <1>2, <1>3, <1>4 DEF PaintInv

LEMMA OpenKeeps ==
  ASSUME PaintInv, NEW h \in DOMAIN windows, NEW painting \in BOOLEAN, OpenOn(h, painting)
  PROVE  PaintInv'
<1> DEFINE owner == surface_owner(windows, h)
           r == window_visible_rect(windows, h)
           e == [hwnd |-> h, on |-> owner, may |-> Seen(windows, h)]
           c == [id |-> Len(ever) + 1, hwnd |-> h, org |-> client_origin(windows, h), lo |-> r.lo,
                 hi |-> r.hi, bitmap |-> FALSE, painting |-> painting]
<1>1. /\ Tree(windows) /\ owner \in DOMAIN windows /\ Orphan(windows, owner)
      /\ h \in Panes /\ h \in Nat /\ owner \in Panes /\ owner # Bitmap /\ h # 0
  <2>1. Tree(windows)
    BY DEF PaintInv
  <2> QED BY <2>1, OwnerLives, PaintTypes
<1>2. /\ r \in Rectangle /\ client_origin(windows, h) \in Int
      /\ \A p \in 0 .. windows[owner].w - 1 : r.lo <= p /\ p < r.hi => p \in Seen(windows, h)
  BY <1>1, RectIsSeen, OriginUp
<1>3. /\ canvas' = IF canvas[owner] # Blank THEN canvas
                   ELSE [canvas EXCEPT ![owner] = [p \in 0 .. windows[owner].w - 1 |-> 0]]
      /\ held_dcs' = held_dcs \union {c} /\ ever' = Append(ever, e)
      /\ UNCHANGED <<windows, frame>>
  BY DEF OpenOn, NewDc, ensure_surface, winVars
<1>4. Seen(windows, h) \subseteq Int
  BY DEF Seen
<1>5. e \in Ever /\ e.hwnd = h /\ e.on = owner /\ e.may = Seen(windows, h)
  <2> HIDE DEF owner
  <2> QED BY <1>1, <1>4 DEF Ever
<1>6. /\ c \in Context /\ c.id = Len(ever) + 1 /\ c.hwnd = h /\ c.lo = r.lo /\ c.hi = r.hi
  <2>1. r.lo \in Int /\ r.hi \in Int /\ Len(ever) + 1 \in Nat \ {0}
    BY <1>2, PaintTypes DEF Rectangle
  <2> HIDE DEF r
  <2> QED BY <1>1, <1>2, <2>1 DEF Context
<1> HIDE DEF c, e, r, owner
<1>7. /\ DOMAIN canvas' = DOMAIN canvas
      /\ \A on \in DOMAIN canvas :
             \/ canvas'[on] = canvas[on]
             \/ /\ on # Bitmap /\ on \in DOMAIN windows /\ Orphan(windows, on)
                /\ DOMAIN canvas'[on] = 0 .. windows[on].w - 1
                /\ \A p \in DOMAIN canvas'[on] : canvas'[on][p] = 0
  <2>1. CASE canvas[owner] # Blank
    BY <1>3, <2>1
  <2>2. CASE canvas[owner] = Blank
    <3>1. canvas' = [canvas EXCEPT ![owner] = [p \in 0 .. windows[owner].w - 1 |-> 0]]
      BY <1>3, <2>2
    <3> QED BY <1>1, <3>1
  <2> QED BY <2>1, <2>2
<1>8. /\ c.hwnd # 0
      /\ \A p \in 0 .. windows[e.on].w - 1 : c.lo <= p /\ p < c.hi => p \in e.may
  BY <1>1, <1>2, <1>5, <1>6
<1> QED BY <1>3, <1>5, <1>6, <1>7, <1>8, ContextMade

LEMMA MemoryDcKeeps ==
  ASSUME PaintInv, alloc_memory_dc
  PROVE  PaintInv'
<1> DEFINE e == [hwnd |-> 0, on |-> Bitmap, may |-> 0 .. BitmapWidth - 1]
           c == [id |-> Len(ever) + 1, hwnd |-> 0, org |-> 0, lo |-> 0,
                 hi |-> 0, bitmap |-> FALSE, painting |-> FALSE]
<1>1. /\ held_dcs' = held_dcs \union {c} /\ ever' = Append(ever, e)
      /\ UNCHANGED <<windows, frame, canvas>>
  BY DEF alloc_memory_dc, NewDc, winVars
<1>2. e \in Ever /\ e.hwnd = 0 /\ e.may = 0 .. BitmapWidth - 1
  BY PaintingAssumption DEF Ever
<1>3. c \in Context /\ c.id = Len(ever) + 1 /\ c.hwnd = 0
  BY PaintTypes DEF Context
<1> HIDE DEF c, e
<1> QED BY <1>1, <1>2, <1>3, ContextMade

(* Letting a context go shows what it drew, or its window is gone.           *)
LEMMA LetGoKeeps ==
  ASSUME PaintInv, NEW d \in held_dcs, held_dcs' = LetGo(d), UNCHANGED <<winVars, canvas, ever>>,
         IF d.hwnd \in DOMAIN windows THEN frame' = present_surface(d.hwnd) ELSE frame' = frame
  PROVE  PaintInv'
<1>1. windows' = windows /\ Tree(windows) /\ Remain(windows, windows')
  BY DEF winVars, PaintInv, Remain
<1>2. \A c \in held_dcs' : c \in held_dcs
  BY DEF LetGo
<1>3. \A c \in held_dcs' : ContextRight(c)'
  BY <1>1, <1>2, ContextStays
<1>4. ever[d.id].hwnd = d.hwnd
  BY DEF PaintInv, ContextRight
<1>5. CASE d.hwnd \notin DOMAIN windows
  <2>1. frame' = frame
    BY <1>5
  <2>2. SurfacesRight'
    BY <1>1, <2>1, SurfacesStay DEF PaintInv, SurfacesRight
  <2>3. PaintIsShown'
    <3> SUFFICES ASSUME NEW on \in Panes, NEW p \in DOMAIN canvas[on], NEW n, n = canvas[on][p],
                        n > 0, \A c \in held_dcs' : c.id # n,
                        ever[n].hwnd \in DOMAIN windows, surface_owner(windows, ever[n].hwnd) = on
                 PROVE  frame[on] # Blank /\ frame[on][p] = n
      BY <1>1, <2>1 DEF PaintIsShown, LetGoOf, Has
    <3>1. d.id # n
      BY <1>4, <1>5
    <3>2. \A c \in held_dcs : c.id # n
      BY <3>1 DEF LetGo
    <3> QED BY <3>2 DEF PaintInv, PaintIsShown, LetGoOf, Has
  <2> QED BY <1>1, <1>3, <2>2, <2>3 DEF PaintInv
<1>6. CASE d.hwnd \in DOMAIN windows
  <2> DEFINE owner == surface_owner(windows, d.hwnd)
  <2>1. owner \in DOMAIN windows /\ owner \in Panes
    BY <1>1, <1>6, OwnerLives, PaintTypes
  <2>2. frame' = IF canvas[owner] = Blank THEN frame ELSE [frame EXCEPT ![owner] = canvas[owner]]
    BY <1>6, <2>1 DEF present_surface
  <2>3. DOMAIN frame = Panes /\ DOMAIN canvas = Panes \union {Bitmap}
    BY DEF PaintInv, SurfacesRight
  <2>4. SurfacesRight'
    <3>1. DOMAIN frame' = Panes
      BY <2>2, <2>3
    <3> QED BY <1>1, <3>1, SurfacesStay
  <2>5. PaintIsShown'
    <3> SUFFICES ASSUME NEW on \in Panes, NEW p \in DOMAIN canvas[on], NEW n, n = canvas[on][p],
                        n > 0, \A c \in held_dcs' : c.id # n,
                        ever[n].hwnd \in DOMAIN windows, surface_owner(windows, ever[n].hwnd) = on
                 PROVE  frame'[on] # Blank /\ frame'[on][p] = n
      <4>1. canvas' = canvas /\ ever' = ever /\ windows' = windows
        BY <1>1
      <4> HIDE DEF owner
      <4> QED BY <4>1 DEF PaintIsShown, LetGoOf, Has
    <3>1. canvas[on] # Blank
      BY DEF Blank
    <3>2. CASE on = owner
      <4>1. frame'[on] = canvas[on]
        BY <2>1, <2>2, <2>3, <3>1, <3>2
      <4> QED BY <3>1, <4>1
    <3>3. CASE on # owner
      <4>1. d.id # n
        BY <1>4, <3>3
      <4>2. \A c \in held_dcs : c.id # n
        BY <4>1 DEF LetGo
      <4>3. frame[on] # Blank /\ frame[on][p] = n
        BY <4>2 DEF PaintInv, PaintIsShown, LetGoOf, Has
      <4>4. frame'[on] = frame[on]
        BY <2>2, <2>3, <3>3
      <4> QED BY <4>3, <4>4
    <3> QED BY <3>2, <3>3
  <2> QED BY <1>1, <1>3, <2>4, <2>5 DEF PaintInv
<1> QED BY <1>5, <1>6

-----------------------------------------------------------------------------
(* Painting: which pixels change, and to what.                               *)
StaysInside ==
    \A on \in DOMAIN canvas : \A p \in DOMAIN canvas[on] \intersect DOMAIN canvas'[on] :
        LET d == canvas'[on][p] IN
        d # canvas[on][p] =>
            IF d < 0 THEN on = surface_owner(windows, -d) /\ p \in Seen(windows, -d)
            ELSE /\ on = Bitmap <=> ever[d].hwnd = 0
                 /\ ever[d].on = on => p \in ever[d].may

LEMMA NothingPainted ==
  ASSUME \A on \in DOMAIN canvas : canvas'[on] = canvas[on] \/ canvas[on] = Blank \/ canvas'[on] = Blank
  PROVE  StaysInside
  BY DEF StaysInside, Blank

LEMMA PaintedPixels ==
  ASSUME PaintInv, NEW on \in DOMAIN canvas, NEW pixels, NEW id, Painted(on, pixels, id)
  PROVE  /\ DOMAIN canvas' = DOMAIN canvas
         /\ \A k \in DOMAIN canvas : /\ DOMAIN canvas'[k] = DOMAIN canvas[k]
                                     /\ canvas[k] = Blank => canvas'[k] = Blank
                                     /\ \A p \in DOMAIN canvas[k] :
                                           \/ canvas'[k][p] = canvas[k][p]
                                           \/ k = on /\ p \in pixels /\ canvas'[k][p] = id
         /\ \A k \in DOMAIN canvas : k # on => canvas'[k] = canvas[k]
<1>1. canvas' = [canvas EXCEPT ![on] = [p \in DOMAIN canvas[on] |-> IF p \in pixels THEN id ELSE canvas[on][p]]]
  BY DEF Painted
<1>2. /\ DOMAIN canvas' = DOMAIN canvas
      /\ \A k \in DOMAIN canvas : k # on => canvas'[k] = canvas[k]
      /\ canvas'[on] = [p \in DOMAIN canvas[on] |-> IF p \in pixels THEN id ELSE canvas[on][p]]
  BY <1>1
<1>3. canvas[on] = Blank => canvas'[on] = Blank
  BY <1>2 DEF Blank
<1>4. /\ DOMAIN canvas'[on] = DOMAIN canvas[on]
      /\ \A p \in DOMAIN canvas[on] : canvas'[on][p] = canvas[on][p] \/ (p \in pixels /\ canvas'[on][p] = id)
  BY <1>2
<1> QED BY <1>2, <1>3, <1>4

LEMMA PaintedKeeps ==
  ASSUME PaintInv, NEW on \in DOMAIN canvas, NEW pixels, NEW id \in Int, Painted(on, pixels, id),
         UNCHANGED <<winVars, frame, held_dcs, ever>>, id < 0 \/ \E c \in held_dcs : c.id = id
  PROVE  PaintInv'
<1>1. windows' = windows /\ Tree(windows) /\ Remain(windows, windows')
  BY DEF winVars, PaintInv, Remain
<1>2. /\ DOMAIN canvas' = DOMAIN canvas
      /\ \A k \in DOMAIN canvas : /\ DOMAIN canvas'[k] = DOMAIN canvas[k]
                                  /\ canvas[k] = Blank => canvas'[k] = Blank
                                  /\ \A p \in DOMAIN canvas[k] :
                                        canvas'[k][p] = canvas[k][p] \/ canvas'[k][p] = id
  BY PaintedPixels
<1>3. id > 0 => id \in Made
  BY DEF PaintInv, ContextRight
<1>4. SurfacesRight'
  <2>1. \A k \in DOMAIN canvas : SurfaceRight(k)'
    BY <1>1, <1>2 DEF PaintInv, SurfacesRight, SurfaceRight
  <2>2. \A k \in DOMAIN canvas' : \A p \in DOMAIN canvas'[k] :
          canvas'[k][p] \in Int /\ (canvas'[k][p] > 0 => canvas'[k][p] \in Made')
    BY <1>2, <1>3 DEF PaintInv, SurfacesRight, Made
  <2> QED BY <1>2, <2>1, <2>2 DEF PaintInv, SurfacesRight
<1>5. PaintIsShown'
  <2>1. ASSUME NEW k \in Panes, NEW p \in DOMAIN canvas'[k], canvas'[k][p] > 0,
               \A c \in held_dcs' : c.id # canvas'[k][p]
        PROVE  /\ p \in DOMAIN canvas[k] /\ canvas[k][p] = canvas'[k][p] /\ frame'[k] = frame[k]
               /\ ever'[canvas'[k][p]].hwnd = ever[canvas'[k][p]].hwnd
               /\ \A c \in held_dcs : c.id # canvas'[k][p]
    <3>1. k \in DOMAIN canvas
      BY DEF PaintInv, SurfacesRight
    <3>2. canvas'[k][p] # id
      BY <2>1
    <3> QED BY <1>2, <2>1, <3>1, <3>2
  <2> QED BY <1>1, <2>1, ShownStays
<1>6. \A c \in held_dcs' : ContextRight(c)'
  BY <1>1, ContextStays
<1> QED BY <1>1, <1>4, <1>5, <1>6 DEF PaintInv

LEMMA FillInside ==
  ASSUME NEW t, NEW s, t.org \in Int, t.lo \in Int, t.hi \in Int, s.x \in Int, s.cx \in Int, Width(t) \in Nat,
         NEW p \in fill_rect(t, s)
  PROVE  /\ p \in Int /\ t.lo <= p /\ p < t.hi
         /\ s.x + t.org <= p /\ p < s.x + t.org + s.cx
<1>1. /\ p \in Higher(Higher(s.x + t.org, t.lo), 0) .. Lower(Lower(s.x + t.org + s.cx, t.hi), Width(t)) - 1
  BY DEF fill_rect
<1> QED BY <1>1 DEF Higher, Lower

LEMMA SurfaceWidth ==
  ASSUME PaintInv, NEW t, t.on \in DOMAIN canvas
  PROVE  Width(t) \in Nat
<1>1. PICK n \in Int : DOMAIN canvas[t.on] = 0 .. n
  <2>1. SurfaceRight(t.on)
    BY DEF PaintInv, SurfacesRight
  <2>2. CASE t.on = Bitmap
    <3>1. BitmapWidth - 1 \in Int
      BY PaintingAssumption
    <3> QED BY <2>1, <2>2, <3>1 DEF SurfaceRight
  <2>3. CASE t.on # Bitmap /\ canvas[t.on] # Blank
    <3>1. windows[t.on].w - 1 \in Int
      BY <2>1, <2>3, TreeShape DEF SurfaceRight, PaintInv
    <3> QED BY <2>1, <2>3, <3>1 DEF SurfaceRight
  <2>4. CASE canvas[t.on] = Blank
    <3>1. DOMAIN canvas[t.on] = 0 .. -1
      BY <2>4 DEF Blank
    <3> QED BY <3>1
  <2> QED BY <2>2, <2>3, <2>4
<1>2. IsFiniteSet(0 .. n)
  BY FS_Interval
<1> QED BY <1>1, <1>2, FS_CardinalityType DEF Width

(* A context that may draw draws inside what it may.                         *)
LEMMA DrawInside ==
  ASSUME PaintInv, NEW d \in held_dcs, CanDraw(d), NEW t, t = dc_surface(d)
  PROVE  /\ t.on \in DOMAIN canvas /\ t.org \in Int /\ t.lo \in Int /\ t.hi \in Int
         /\ d.id \in Made
         /\ t.on = Bitmap <=> ever[d.id].hwnd = 0
         /\ \A p \in DOMAIN canvas[t.on] :
                t.lo <= p /\ p < t.hi => (ever[d.id].on = t.on => p \in ever[d.id].may)
<1>1. /\ ContextRight(d) /\ d \in Context /\ Tree(windows)
      /\ DOMAIN canvas = Panes \union {Bitmap} /\ \A on \in DOMAIN canvas : SurfaceRight(on)
  BY DEF PaintInv, SurfacesRight, ContextRight
<1>2. /\ d.id \in Made /\ ever[d.id].hwnd = d.hwnd /\ d.org \in Int /\ d.lo \in Int /\ d.hi \in Int
      /\ Bitmap = 0 /\ Bitmap \notin Panes
  BY <1>1, PaintTypes DEF ContextRight, Context
<1>3. CASE d.hwnd = 0
  <2>1. t = [on |-> Bitmap, org |-> 0, lo |-> 0, hi |-> BitmapWidth]
    BY <1>3 DEF dc_surface
  <2>2. BitmapWidth \in Int
    BY PaintingAssumption
  <2>3. DOMAIN canvas[Bitmap] = 0 .. BitmapWidth - 1
    BY <1>1 DEF SurfaceRight
  <2>4. 0 .. BitmapWidth - 1 \subseteq ever[d.id].may
    BY <1>1, <1>3 DEF ContextRight
  <2> QED BY <1>1, <1>2, <1>3, <2>1, <2>2, <2>3, <2>4
<1>4. CASE d.hwnd # 0
  <2>1. PICK on : on = surface_owner(windows, d.hwnd)
    OBVIOUS
  <2>2. t = [on |-> on, org |-> d.org, lo |-> d.lo, hi |-> d.hi]
    BY <1>4, <2>1 DEF dc_surface
  <2>3. on \in DOMAIN windows /\ canvas[on] # Blank /\ on \in Panes
    BY <1>4, <2>1, PaintTypes DEF CanDraw, Has
  <2>4. DOMAIN canvas[on] = 0 .. windows[on].w - 1
    BY <1>1, <1>2, <2>3 DEF SurfaceRight
  <2>5. ever[d.id].on = on => \A p \in DOMAIN canvas[on] :
            d.lo <= p /\ p < d.hi => p \in ever[d.id].may
    BY <1>1, <1>4, <2>3, <2>4 DEF ContextRight
  <2> QED BY <1>1, <1>2, <1>4, <2>2, <2>3, <2>5
<1> QED BY <1>3, <1>4

LEMMA DrawKeeps ==
  ASSUME PaintInv, NEW d \in held_dcs, NEW s \in Strokes, nt_gdi_pat_blt(d, s) \/ DrawPixels(d, s)
  PROVE  PaintInv' /\ StaysInside
<1>1. PICK t : t = dc_surface(d)
  OBVIOUS
<1>2. PICK pixels : /\ pixels = fill_rect(t, s) \/ pixels = put_pixel(t, s)
                    /\ Painted(t.on, pixels, d.id)
                    /\ CanDraw(d) /\ UNCHANGED <<winVars, frame, held_dcs, ever>>
  BY <1>1 DEF nt_gdi_pat_blt, DrawPixels
<1>3. /\ t.on \in DOMAIN canvas /\ t.org \in Int /\ t.lo \in Int /\ t.hi \in Int
      /\ d.id \in Made
      /\ t.on = Bitmap <=> ever[d.id].hwnd = 0
      /\ \A p \in DOMAIN canvas[t.on] :
             t.lo <= p /\ p < t.hi => (ever[d.id].on = t.on => p \in ever[d.id].may)
  BY <1>1, <1>2, DrawInside
<1>4. d.id \in Int /\ d.id > 0 /\ s.x \in Int /\ s.cx \in Int
  BY <1>3, PaintTypes, PaintingAssumption
<1>5. PaintInv'
  BY <1>2, <1>3, <1>4, PaintedKeeps
<1>6. \A p \in pixels : t.lo <= p /\ p < t.hi
  <2>1. CASE pixels = fill_rect(t, s)
    BY <1>3, <1>4, <2>1, SurfaceWidth, FillInside
  <2>2. CASE pixels = put_pixel(t, s)
    BY <2>2 DEF put_pixel
  <2> QED BY <1>2, <2>1, <2>2
<1>7. ASSUME NEW on \in DOMAIN canvas, NEW p \in DOMAIN canvas[on], canvas'[on][p] # canvas[on][p]
      PROVE  on = t.on /\ p \in pixels /\ canvas'[on][p] = d.id
  BY <1>2, <1>3, <1>7, PaintedPixels
<1>8. StaysInside
  <2> SUFFICES ASSUME NEW on \in DOMAIN canvas, NEW p \in DOMAIN canvas[on], canvas'[on][p] # canvas[on][p],
                      NEW n, n = canvas'[on][p]
               PROVE  /\ ~(n < 0) /\ (on = Bitmap <=> ever[n].hwnd = 0)
                      /\ ever[n].on = on => p \in ever[n].may
    BY DEF StaysInside
  <2>1. on = t.on /\ p \in pixels /\ n = d.id
    BY <1>7
  <2> QED BY <1>3, <1>4, <1>6, <2>1
<1> QED BY <1>5, <1>8

LEMMA EraseKeeps ==
  ASSUME PaintInv, NEW h \in Panes, erase_background(h)
  PROVE  PaintInv' /\ StaysInside
<1>1. PICK r : r = window_visible_rect(windows, h)
  OBVIOUS
<1>2. PICK on : on = surface_owner(windows, h)
  OBVIOUS
<1>3. PICK t : t = [on |-> on, org |-> 0, lo |-> r.lo, hi |-> r.hi]
  OBVIOUS
<1>4. PICK s : s = [x |-> r.lo, cx |-> r.hi - r.lo]
  OBVIOUS
<1>5. /\ h \in DOMAIN windows /\ canvas[on] # Blank
      /\ Painted(on, fill_rect(t, s), -h)
      /\ UNCHANGED <<winVars, frame, held_dcs, ever>>
  BY <1>1, <1>2, <1>3, <1>4 DEF erase_background, Has
<1>6. /\ Tree(windows) /\ on \in DOMAIN windows /\ on \in Panes /\ on \in DOMAIN canvas
      /\ h \in Nat /\ h # 0 /\ -h \in Int /\ -h < 0 /\ -(-h) = h
  <2>1. Tree(windows) /\ DOMAIN canvas = Panes \union {Bitmap}
    BY DEF PaintInv, SurfacesRight
  <2>2. on \in DOMAIN windows
    BY <1>2, <1>5, <2>1, OwnerLives
  <2> QED BY <2>1, <2>2, PaintTypes
<1>7. PaintInv'
  BY <1>5, <1>6, PaintedKeeps
<1>8. /\ r.lo \in Int /\ r.hi \in Int
      /\ \A p \in 0 .. windows[on].w - 1 : r.lo <= p /\ p < r.hi => p \in Seen(windows, h)
  BY <1>1, <1>2, <1>5, <1>6, RectIsSeen DEF Rectangle
<1>9. \A p \in fill_rect(t, s) : r.lo <= p /\ p < r.hi
  <2>1. t.on = on /\ t.org \in Int /\ t.lo = r.lo /\ t.hi = r.hi /\ s.x \in Int /\ s.cx \in Int
    BY <1>3, <1>4, <1>8
  <2>2. Width(t) \in Nat
    BY <1>6, <2>1, SurfaceWidth
  <2> QED BY <1>8, <2>1, <2>2, FillInside
<1>10. DOMAIN canvas[on] = 0 .. windows[on].w - 1
  BY <1>5, <1>6, PaintTypes DEF PaintInv, SurfacesRight, SurfaceRight
<1>11. StaysInside
  <2> SUFFICES ASSUME NEW k \in DOMAIN canvas, NEW p \in DOMAIN canvas[k], canvas'[k][p] # canvas[k][p],
                      NEW n, n = canvas'[k][p]
               PROVE  n < 0 /\ k = surface_owner(windows, -n) /\ p \in Seen(windows, -n)
    BY DEF StaysInside
  <2>1. k = on /\ p \in fill_rect(t, s) /\ n = -h
    BY <1>5, <1>6, PaintedPixels
  <2>2. p \in Seen(windows, h)
    BY <1>8, <1>9, <1>10, <2>1
  <2> QED BY <1>2, <1>6, <2>1, <2>2
<1> QED BY <1>7, <1>11

(* Cutting a context cuts what it may reach.                                 *)
LEMMA CutKeeps ==
  ASSUME PaintInv, NEW d \in held_dcs, NEW s \in Strokes, nt_gdi_intersect_clip_rect(d, s)
  PROVE  PaintInv'
<1>1. ContextRight(d) /\ d \in Context /\ ever \in Seq(Ever)
  BY DEF PaintInv, ContextRight
<1>2. /\ d.lo \in Int /\ d.hi \in Int /\ d.org \in Int /\ d.id \in Made /\ s.x \in Int /\ s.cx \in Int
      /\ d.hwnd # 0 \/ d.hwnd = 0
  BY <1>1, PaintingAssumption DEF ContextRight, Context
<1>3. PICK new : new = [d EXCEPT !.lo = Higher(@, s.x + d.org), !.hi = Lower(@, s.x + s.cx + d.org)]
  OBVIOUS
<1>4. /\ new \in Context /\ new.id = d.id /\ new.hwnd = d.hwnd /\ new.lo \in Int /\ new.hi \in Int
      /\ d.lo <= new.lo /\ new.hi <= d.hi /\ s.x + d.org <= new.lo /\ new.hi <= s.x + s.cx + d.org
  <2>1. PICK lo : lo = Higher(d.lo, s.x + d.org)
    OBVIOUS
  <2>2. PICK hi : hi = Lower(d.hi, s.x + s.cx + d.org)
    OBVIOUS
  <2>3. lo \in Int /\ hi \in Int /\ d.lo <= lo /\ hi <= d.hi /\ s.x + d.org <= lo /\ hi <= s.x + s.cx + d.org
    BY <1>2, <2>1, <2>2 DEF Higher, Lower
  <2>4. new = [d EXCEPT !.lo = lo, !.hi = hi]
    BY <1>3, <2>1, <2>2
  <2>5. new \in Context /\ new.id = d.id /\ new.hwnd = d.hwnd /\ new.lo = lo /\ new.hi = hi
    BY <1>1, <2>3, <2>4 DEF Context
  <2> QED BY <2>3, <2>5
<1>5. PICK cut : cut = s.x + d.org .. s.x + s.cx + d.org - 1
  OBVIOUS
<1>6. /\ held_dcs' = LetGo(d) \union {new}
      /\ ever' = IF d.hwnd = 0 THEN ever ELSE [ever EXCEPT ![d.id].may = @ \intersect cut]
      /\ UNCHANGED <<windows, canvas, frame>>
  BY <1>3, <1>5 DEF nt_gdi_intersect_clip_rect, Changed, winVars
<1>7. /\ Tree(windows') /\ Remain(windows, windows')
  BY <1>6 DEF PaintInv, Remain
<1>8. ever[d.id] \in Ever /\ DOMAIN ever = Made
  BY <1>1, <1>2, PaintTypes, LenProperties DEF Made
<1>9. /\ ever' \in Seq(Ever) /\ Len(ever') = Len(ever)
      /\ \A n \in Made : /\ ever'[n].hwnd = ever[n].hwnd /\ ever'[n].on = ever[n].on
                         /\ n # d.id => ever'[n] = ever[n]
      /\ ever'[d.id].may = IF d.hwnd = 0 THEN ever[d.id].may ELSE ever[d.id].may \intersect cut
  <2>1. CASE d.hwnd = 0
    BY <1>1, <1>6, <2>1
  <2>2. CASE d.hwnd # 0
    <3>1. PICK e : e = [ever[d.id] EXCEPT !.may = @ \intersect cut]
      OBVIOUS
    <3>2. e \in Ever /\ e.hwnd = ever[d.id].hwnd /\ e.on = ever[d.id].on /\ e.may = ever[d.id].may \intersect cut
      BY <1>8, <3>1 DEF Ever
    <3>3. ever' = [ever EXCEPT ![d.id] = e]
      BY <1>6, <2>2, <3>1
    <3>4. ever' \in Seq(Ever) /\ Len(ever') = Len(ever)
      BY <1>1, <1>2, <1>8, <3>2, <3>3, ExceptSeq DEF Made
    <3>5. ever'[d.id] = e /\ \A n \in Made : n # d.id => ever'[n] = ever[n]
      BY <1>2, <1>8, <3>3
    <3> QED BY <2>2, <3>2, <3>4, <3>5
  <2> QED BY <2>1, <2>2
<1>10. SurfacesRight'
  BY <1>6, <1>9 DEF PaintInv, SurfacesRight, SurfaceRight, Made
<1>11. PaintIsShown'
  <2>1. ASSUME NEW on \in Panes, NEW p \in DOMAIN canvas'[on], canvas'[on][p] > 0,
               \A c \in held_dcs' : c.id # canvas'[on][p]
        PROVE  /\ p \in DOMAIN canvas[on] /\ canvas[on][p] = canvas'[on][p] /\ frame'[on] = frame[on]
               /\ ever'[canvas'[on][p]].hwnd = ever[canvas'[on][p]].hwnd
               /\ \A c \in held_dcs : c.id # canvas'[on][p]
    <3>1. canvas'[on][p] \in Made
      BY <1>6, <2>1 DEF PaintInv, SurfacesRight
    <3>2. \A c \in held_dcs : c.id # canvas'[on][p]
      BY <1>4, <1>6, <2>1 DEF LetGo
    <3> QED BY <1>6, <1>9, <3>1, <3>2
  <2> QED BY <1>7, <2>1, ShownStays
<1>12. ASSUME NEW c \in held_dcs'
       PROVE  ContextRight(c)'
  <2>1. CASE c \in LetGo(d)
    <3>1. ContextRight(c) /\ c.id # d.id
      BY <2>1 DEF LetGo, PaintInv
    <3>2. ever'[c.id] = ever[c.id] /\ c.id \in Made'
      BY <1>9, <3>1 DEF ContextRight, Made
    <3> QED BY <1>6, <3>1, <3>2 DEF ContextRight
  <2>2. CASE c = new
    <3>1. c \in Context /\ c.id \in Made' /\ ever'[c.id].hwnd = c.hwnd
      BY <1>1, <1>2, <1>4, <1>9, <2>2 DEF ContextRight, Made
    <3>2. ASSUME c.hwnd # 0, ever'[c.id].on \in DOMAIN windows',
                 NEW p \in 0 .. windows'[ever'[c.id].on].w - 1, c.lo <= p, p < c.hi
          PROVE  p \in ever'[c.id].may
      <4>1. ever'[c.id].on = ever[d.id].on /\ windows' = windows
        BY <1>2, <1>4, <1>6, <1>9, <2>2
      <4>2. p \in Int /\ d.lo <= p /\ p < d.hi /\ s.x + d.org <= p /\ p < s.x + s.cx + d.org
        BY <1>2, <1>4, <2>2, <3>2
      <4>3. p \in ever[d.id].may
        BY <1>1, <1>4, <2>2, <3>2, <4>1, <4>2 DEF ContextRight
      <4>4. p \in cut
        BY <1>2, <1>5, <4>2
      <4> QED BY <1>4, <1>9, <2>2, <3>2, <4>3, <4>4
    <3>3. c.hwnd = 0 => 0 .. BitmapWidth - 1 \subseteq ever'[c.id].may
      BY <1>1, <1>4, <1>9, <2>2 DEF ContextRight
    <3> QED BY <3>1, <3>2, <3>3 DEF ContextRight
  <2> QED BY <1>6, <2>1, <2>2
<1> QED BY <1>7, <1>9, <1>10, <1>11, <1>12 DEF PaintInv

LEMMA SelectKeeps ==
  ASSUME PaintInv, NEW d \in held_dcs, nt_gdi_select_bitmap(d)
  PROVE  PaintInv'
<1>1. PICK new : new = [d EXCEPT !.bitmap = TRUE]
  OBVIOUS
<1>2. /\ held_dcs' = LetGo(d) \union {new} /\ UNCHANGED <<winVars, canvas, frame, ever>>
  BY <1>1 DEF nt_gdi_select_bitmap, Changed
<1>3. ContextRight(d)
  BY DEF PaintInv
<1>4. /\ new \in Context /\ new.id = d.id /\ new.hwnd = d.hwnd /\ new.lo = d.lo /\ new.hi = d.hi
  BY <1>1, <1>3 DEF ContextRight, Context
<1>5. ContextRight(new)'
  <2>1. windows' = windows /\ ever' = ever
    BY <1>2 DEF winVars
  <2> QED BY <1>3, <1>4, <2>1 DEF ContextRight, Made
<1>6. \A c \in held_dcs' : c \in held_dcs \/ ContextRight(c)'
  BY <1>2, <1>5 DEF LetGo
<1>7. \A c \in held_dcs : \E k \in held_dcs' : k.id = c.id
  BY <1>2, <1>4 DEF LetGo
<1> QED BY <1>2, <1>6, <1>7, Unpainted

(* Windows go, and their surfaces with them.                                 *)
LEMMA PaneDestroyKeeps ==
  ASSUME PaintInv, NEW h \in Panes, Destroy(h)
  PROVE  PaintInv'
<1>1. /\ windows' = Without(windows, h) /\ UNCHANGED <<held_dcs, ever>>
      /\ canvas' = [canvas EXCEPT ![h] = Blank] /\ frame' = [frame EXCEPT ![h] = Blank]
  BY DEF Destroy, destroy_window
<1>2. /\ Tree(windows') /\ Remain(windows, windows') /\ DOMAIN windows' = DOMAIN windows \ {h}
  BY <1>1, Destroyed DEF PaintInv
<1>3. DOMAIN canvas = Panes \union {Bitmap} /\ DOMAIN frame = Panes
  BY DEF PaintInv, SurfacesRight
<1>4. /\ DOMAIN canvas' = DOMAIN canvas /\ DOMAIN frame' = DOMAIN frame
      /\ canvas'[h] = Blank /\ \A on \in DOMAIN canvas : on # h => canvas'[on] = canvas[on]
      /\ \A on \in Panes : on # h => frame'[on] = frame[on]
  BY <1>1, <1>3
<1>5. SurfacesRight'
  <2>1. ASSUME NEW on \in DOMAIN canvas
        PROVE  SurfaceRight(on)'
    <3>1. CASE on = h
      BY <1>4, <3>1, PaintTypes DEF SurfaceRight
    <3>2. CASE on # h
      <4>1. SurfaceRight(on) /\ canvas'[on] = canvas[on]
        BY <1>4, <3>2 DEF PaintInv, SurfacesRight
      <4>2. CASE on = Bitmap
        BY <4>1, <4>2 DEF SurfaceRight
      <4>3. CASE on # Bitmap
        <5>1. ASSUME canvas'[on] # Blank
              PROVE  /\ on \in DOMAIN windows' /\ Orphan(windows', on)
                     /\ DOMAIN canvas'[on] = 0 .. windows'[on].w - 1
          <6>1. on \in DOMAIN windows /\ Orphan(windows, on) /\ DOMAIN canvas[on] = 0 .. windows[on].w - 1
            BY <4>1, <4>3, <5>1 DEF SurfaceRight
          <6>2. on \in DOMAIN windows' /\ windows'[on].w = windows[on].w /\ windows'[on].parent = windows[on].parent
            BY <1>2, <3>2, <6>1 DEF Remain
          <6>3. Orphan(windows', on)
            BY <1>2, <6>1, <6>2 DEF Orphan, Has
          <6> QED BY <4>1, <6>1, <6>2, <6>3
        <5> QED BY <4>3, <5>1 DEF SurfaceRight
      <4> QED BY <4>2, <4>3
    <3> QED BY <3>1, <3>2
  <2>2. ASSUME NEW on \in DOMAIN canvas', NEW p \in DOMAIN canvas'[on]
        PROVE  canvas'[on][p] \in Int /\ (canvas'[on][p] > 0 => canvas'[on][p] \in Made')
    <3>1. on # h
      BY <1>4 DEF Blank
    <3> QED BY <1>1, <1>4, <3>1 DEF PaintInv, SurfacesRight, Made
  <2> QED BY <1>3, <1>4, <2>1, <2>2 DEF SurfacesRight
<1>6. PaintIsShown'
  <2>1. ASSUME NEW on \in Panes, NEW p \in DOMAIN canvas'[on]
        PROVE  p \in DOMAIN canvas[on] /\ canvas[on][p] = canvas'[on][p] /\ frame'[on] = frame[on]
    <3>1. on # h
      BY <1>4 DEF Blank
    <3> QED BY <1>3, <1>4, <3>1
  <2> QED BY <1>1, <1>2, <2>1, ShownStays
<1>7. \A c \in held_dcs' : ContextRight(c)'
  BY <1>1, <1>2, ContextStays
<1> QED BY <1>1, <1>2, <1>5, <1>6, <1>7 DEF PaintInv

LEMMA PaneMoveKeeps ==
  ASSUME PaintInv, NEW h \in Panes, NEW x \in Int, Move(h, x)
  PROVE  PaintInv'
<1>1. /\ h \in DOMAIN windows /\ windows' = [windows EXCEPT ![h].x = x]
      /\ UNCHANGED <<canvas, frame, held_dcs, ever>>
  BY DEF Move, nt_user_set_window_pos, Has, paintVars
<1>2. Tree(windows') /\ Remain(windows, windows')
  BY <1>1, Moved DEF PaintInv
<1>3. DOMAIN windows' = DOMAIN windows
  BY <1>1
<1>4. SurfacesRight'
  <2>1. ASSUME NEW on \in DOMAIN canvas
        PROVE  SurfaceRight(on)'
    <3>1. SurfaceRight(on)
      BY DEF PaintInv, SurfacesRight
    <3>2. on \in DOMAIN windows /\ Orphan(windows, on) => Orphan(windows', on)
      BY <1>2, <1>3 DEF Orphan, Has, Remain
    <3> QED BY <1>1, <1>2, <1>3, <3>1, <3>2 DEF SurfaceRight, Remain
  <2> QED BY <1>1, <2>1 DEF PaintInv, SurfacesRight, Made
<1>5. PaintIsShown'
  BY <1>1, <1>2, ShownStays
<1>6. \A c \in held_dcs' : ContextRight(c)'
  BY <1>1, <1>2, ContextStays
<1> QED BY <1>1, <1>2, <1>4, <1>5, <1>6 DEF PaintInv

-----------------------------------------------------------------------------
LEMMA OpenPaintsNothing ==
  ASSUME NEW h, NEW painting, OpenOn(h, painting)
  PROVE  StaysInside
<1>1. \A on \in DOMAIN canvas : canvas'[on] = canvas[on] \/ canvas[on] = Blank
  BY DEF OpenOn, ensure_surface
<1> QED BY <1>1, NothingPainted

LEMMA GetDcKeeps ==
  ASSUME PaintInv, NEW arg, nt_user_get_dc(arg)
  PROVE  PaintInv' /\ StaysInside
<1>1. PICK h : h = resolve_dc_hwnd(arg)
  OBVIOUS
<1>2. h # 0 /\ OpenOn(h, FALSE)
  BY <1>1 DEF nt_user_get_dc
<1>3. h \in DOMAIN windows
  <2>1. CASE arg \in DOMAIN windows
    BY <1>1, <2>1 DEF resolve_dc_hwnd, Has
  <2>2. CASE arg \notin DOMAIN windows
    <3>1. PICK S : S = {k \in DOMAIN windows : surface_owner(windows, k) = k}
      OBVIOUS
    <3>2. h = Oldest(S)
      BY <1>1, <2>2, <3>1 DEF resolve_dc_hwnd, Has
    <3>3. S \subseteq Nat \ {0}
      BY <3>1, PaintTypes
    <3> QED BY <1>2, <3>1, <3>2, <3>3, OldestLives
  <2> QED BY <2>1, <2>2
<1> QED BY <1>2, <1>3, OpenKeeps, OpenPaintsNothing

LEMMA PaintStep == PaintInv /\ [PaintNext]_<<winVars, paintVars>> => PaintInv' /\ [StaysInside]_paintVars
<1> SUFFICES ASSUME PaintInv, [PaintNext]_<<winVars, paintVars>>
             PROVE  PaintInv' /\ [StaysInside]_paintVars
  OBVIOUS
<1>1. CASE UNCHANGED <<winVars, paintVars>>
  <2>1. UNCHANGED <<winVars, canvas, frame, ever, held_dcs>>
    BY <1>1 DEF paintVars
  <2>2. PaintInv'
    BY <2>1, Unpainted
  <2> QED BY <1>1, <2>2
<1>2. ASSUME NEW h \in Panes, nt_user_get_dc(h)
      PROVE  PaintInv' /\ StaysInside
  BY <1>2, GetDcKeeps
<1>3. ASSUME NEW h \in Panes, nt_user_begin_paint(h)
      PROVE  PaintInv' /\ StaysInside
  <2>1. h \in DOMAIN windows /\ OpenOn(h, TRUE)
    BY <1>3 DEF nt_user_begin_paint, Has
  <2> QED BY <2>1, OpenKeeps, OpenPaintsNothing
<1>4. ASSUME NEW h \in Panes, erase_background(h)
      PROVE  PaintInv' /\ StaysInside
  BY <1>4, EraseKeeps
<1>5. ASSUME NEW h \in Panes, Destroy(h)
      PROVE  PaintInv' /\ StaysInside
  <2>1. PaintInv'
    BY <1>5, PaneDestroyKeeps
  <2>2. h \in DOMAIN canvas /\ canvas' = [canvas EXCEPT ![h] = Blank]
    BY <1>5 DEF Destroy, PaintInv, SurfacesRight
  <2>3. StaysInside
    BY <2>2, NothingPainted
  <2> QED BY <2>1, <2>3
<1>6. ASSUME NEW h \in Panes, NEW s \in Strokes, Move(h, s.x)
      PROVE  PaintInv' /\ StaysInside
  <2>1. s.x \in Int
    BY PaintingAssumption
  <2>2. PaintInv'
    BY <1>6, <2>1, PaneMoveKeeps
  <2>3. canvas' = canvas
    BY <1>6 DEF Move, paintVars
  <2> QED BY <2>2, <2>3, NothingPainted
<1>7. CASE nt_user_get_dc(0)
  BY <1>7, GetDcKeeps
<1>8. CASE alloc_memory_dc
  <2>1. canvas' = canvas
    BY <1>8 DEF alloc_memory_dc
  <2> QED BY <1>8, <2>1, MemoryDcKeeps, NothingPainted
<1>9. ASSUME NEW d \in held_dcs, nt_user_release_dc(d) \/ nt_user_end_paint(d) \/ DeleteDc(d)
      PROVE  PaintInv' /\ StaysInside
  <2>1. held_dcs' = LetGo(d) /\ UNCHANGED <<winVars, canvas, ever>>
    BY <1>9 DEF nt_user_release_dc, nt_user_end_paint, DeleteDc
  <2>2. IF d.hwnd \in DOMAIN windows THEN frame' = present_surface(d.hwnd) ELSE frame' = frame
    <3>1. CASE nt_user_release_dc(d)
      <4>1. frame' = present_surface(d.hwnd)
        BY <3>1 DEF nt_user_release_dc
      <4>2. ASSUME d.hwnd \notin DOMAIN windows
            PROVE  present_surface(d.hwnd) = frame
        <5>1. d.hwnd \in Nat /\ Orphan(windows, d.hwnd) /\ Tree(windows)
          <6>1. ContextRight(d) /\ Tree(windows)
            BY DEF PaintInv
          <6>2. d.hwnd \in Panes \union {0}
            BY <6>1 DEF ContextRight, Context
          <6>3. Orphan(windows, d.hwnd)
            BY <4>2 DEF Orphan, Has
          <6> QED BY <6>1, <6>2, <6>3, PaintTypes
        <5>2. surface_owner(windows, d.hwnd) = d.hwnd
          BY <5>1, OwnerUp
        <5>3. d.hwnd \in Panes => canvas[d.hwnd] = Blank
          BY <4>2, PaintTypes DEF PaintInv, SurfacesRight, SurfaceRight
        <5> QED BY <5>2, <5>3 DEF present_surface
      <4> QED BY <4>1, <4>2
    <3>2. CASE nt_user_end_paint(d)
      BY <3>2 DEF nt_user_end_paint, Has
    <3>3. CASE DeleteDc(d)
      <4>1. 0 \notin DOMAIN windows
        BY PaintTypes
      <4> QED BY <3>3, <4>1 DEF DeleteDc
    <3> QED BY <1>9, <3>1, <3>2, <3>3
  <2>3. PaintInv'
    BY <2>1, <2>2, LetGoKeeps
  <2> QED BY <2>1, <2>3, NothingPainted
<1>10. ASSUME NEW d \in held_dcs, nt_gdi_select_bitmap(d)
       PROVE  PaintInv' /\ StaysInside
  <2>1. canvas' = canvas
    BY <1>10 DEF nt_gdi_select_bitmap
  <2> QED BY <1>10, <2>1, SelectKeeps, NothingPainted
<1>11. ASSUME NEW d \in held_dcs, NEW s \in Strokes, nt_gdi_intersect_clip_rect(d, s)
       PROVE  PaintInv' /\ StaysInside
  <2>1. canvas' = canvas
    BY <1>11 DEF nt_gdi_intersect_clip_rect
  <2> QED BY <1>11, <2>1, CutKeeps, NothingPainted
<1>12. ASSUME NEW d \in held_dcs, NEW s \in Strokes, nt_gdi_pat_blt(d, s) \/ DrawPixels(d, s)
       PROVE  PaintInv' /\ StaysInside
  BY <1>12, DrawKeeps
<1>13. CASE PaintNext
  BY <1>2, <1>3, <1>4, <1>5, <1>6, <1>7, <1>8, <1>9, <1>10, <1>11, <1>12, <1>13 DEF PaintNext
<1> QED BY <1>1, <1>13

LEMMA PaintStarts == Tree(windows) /\ PaintInit => PaintInv
<1> SUFFICES ASSUME Tree(windows), PaintInit
             PROVE  PaintInv
  OBVIOUS
<1>1. /\ DOMAIN canvas = Panes \union {Bitmap} /\ DOMAIN frame = Panes
      /\ canvas[Bitmap] = [p \in 0 .. BitmapWidth - 1 |-> 0]
      /\ \A on \in Panes : on # Bitmap => canvas[on] = Blank
      /\ held_dcs = {} /\ ever = <<>>
  BY DEF PaintInit
<1>2. Bitmap \notin Panes
  BY PaintingAssumption DEF Bitmap
<1>3. ever \in Seq(Ever)
  BY <1>1
<1>4. SurfacesRight
  <2>1. \A on \in DOMAIN canvas : SurfaceRight(on)
    BY <1>1 DEF SurfaceRight
  <2>2. ASSUME NEW on \in DOMAIN canvas, NEW p \in DOMAIN canvas[on]
        PROVE  canvas[on][p] = 0
    <3>1. CASE on = Bitmap
      BY <1>1, <3>1
    <3>2. CASE on # Bitmap
      BY <1>1, <3>2 DEF Blank
    <3> QED BY <3>1, <3>2
  <2> QED BY <1>1, <2>1, <2>2 DEF SurfacesRight
<1>5. PaintIsShown
  BY <1>1, <1>2 DEF PaintIsShown, Blank
<1> QED BY <1>1, <1>3, <1>4, <1>5 DEF PaintInv

(* A context draws where a click would have landed in its window when it was *)
(* made, less what was cut off; an erased window is painted where it lies    *)
(* (PaintStaysInside): whatever windows move and go meanwhile.               *)
THEOREM PaintReachesItsWindow == PaintSpec => PaintStaysInside
<1>1. PaintSpec => []PaintInv
  BY PaintStarts, PaintStep, PTL DEF PaintSpec
<1>2. PaintInv /\ [PaintNext]_<<winVars, paintVars>> => [StaysInside]_paintVars
  BY PaintStep
<1> QED BY <1>1, <1>2, PTL DEF PaintSpec, PaintStaysInside, StaysInside

(* What a context drew is what the host shows once the guest has let it go   *)
(* (PaintIsShown), for any tree of windows and any number of contexts.       *)
THEOREM DrawingsAreShown == PaintSpec => []PaintIsShown
<1>1. PaintSpec => []PaintInv
  BY PaintStarts, PaintStep, PTL DEF PaintSpec
<1>2. PaintInv => PaintIsShown
  BY DEF PaintInv
<1> QED BY <1>1, <1>2, PTL

=============================================================================
